--------------------------- MODULE ProcessProofs ---------------------------
(***************************************************************************)
(* Proofs about Process for every capacity of the process table, every set *)
(* of programs and statuses, and every bound on the process ids.           *)
(***************************************************************************)
EXTENDS Process, TLAPS

(* Before process 0 is launched nothing is loaded. *)
BootClean ==
  phase = "boot" =>
    /\ proc = [s \in Slot |-> FreeProcess]
    /\ app = [s \in Slot |-> FreeApp]
    /\ fg = NoSlot
    /\ console = NoSlot
    /\ rt = "idle"

(* An update works on the process it found in the foreground until it launches
   a child, and only ever on a running one. *)
UpdateContext ==
  /\ phase # "up" => rt = "idle"
  /\ rt # "idle" => ctx \in Slot
  /\ rt \in {"take", "exec", "exit", "step", "returned"} => ctx = fg
  /\ rt \in {"take", "exec"} => proc[ctx].state = "running"

(* Process ids are given out once. *)
FreshIds == phase = "up" => \A s \in Live(proc) : proc[s].id < nextId

IInv ==
  /\ TypeOK
  /\ BootClean
  /\ UpdateContext
  /\ FreshIds
  /\ ForegroundChain
  /\ ConsoleFollowsForeground
  /\ ExecAccounted

-----------------------------------------------------------------------------
(* Typing of the record constructors. *)

LEMMA RecordTypes ==
  /\ FreeProcess \in ProcessRecord
  /\ FreeApp \in AppRecord
  /\ NoStory \in StoryRecord
  /\ \A id \in Nat, parent \in Nat \cup {-1} :
       NewProcess(id, parent) \in ProcessRecord
  /\ \A p \in ProcessRecord : Panicked(p) \in ProcessRecord
  /\ \A p \in ProcessRecord, status \in Int, shown \in BOOLEAN :
       Resumed(p, status, shown) \in ProcessRecord
<1>1. -1 \in Int
  OBVIOUS
<1>2. FreeProcess \in ProcessRecord
  BY DEF FreeProcess, ProcessRecord, Causes
<1>3. FreeApp \in AppRecord /\ NoStory \in StoryRecord
  BY DEF FreeApp, NoStory, AppRecord, StoryRecord
<1>4. ASSUME NEW id \in Nat, NEW parent \in Nat \cup {-1}
      PROVE  NewProcess(id, parent) \in ProcessRecord
  BY <1>2, Zenon DEF NewProcess, ProcessRecord
<1>5. ASSUME NEW p \in ProcessRecord
      PROVE  Panicked(p) \in ProcessRecord
  BY DEF Panicked, ProcessRecord
<1>6. ASSUME NEW p \in ProcessRecord, NEW status \in Int, NEW shown \in BOOLEAN
      PROVE  Resumed(p, status, shown) \in ProcessRecord
  <2>1. CASE shown
    BY <2>1, Zenon DEF Resumed, ProcessRecord
  <2>2. CASE ~shown
    <3>1. (p.id # 0) \in BOOLEAN
      OBVIOUS
    <3> QED
      BY <1>1, <2>2, <3>1, Zenon DEF Resumed, Failure, ProcessRecord
  <2> QED
    BY <2>1, <2>2
<1> QED
  BY <1>2, <1>3, <1>4, <1>5, <1>6

(* The first free slot when the first n are taken. *)
LEMMA FirstFreeSlot ==
  ASSUME NEW n \in 0 .. Capacity - 1, Live(proc) = 0 .. n - 1
  PROVE  free_process_slot = n
<1>1. Capacity \in Nat
  BY CapacityAssumption
<1>2. Slot \ Live(proc) = n .. Capacity - 1
  BY <1>1 DEF Slot
<1>3. n \in Slot /\ n \notin Live(proc)
  BY <1>1 DEF Slot
<1>4. LowestOf(Slot \ Live(proc)) = n
  BY <1>1, <1>2 DEF LowestOf
<1> QED
  BY <1>3, <1>4 DEF free_process_slot

(* A process id found in exactly one slot. *)
LEMMA FindUnique ==
  ASSUME NEW t, NEW s \in Live(t), NEW id, t[s].id = id,
         \A r \in Live(t) : t[r].id = id => r = s
  PROVE  find_process(t, id) = s
<1> DEFINE found == {r \in Live(t) : t[r].id = id}
<1>1. found = {s}
  OBVIOUS
<1>2. s \in Int
  BY CapacityAssumption DEF Live, Slot
<1>3. LowestOf(found) = s
  BY <1>1, <1>2 DEF LowestOf
<1> QED
  BY <1>1, <1>3 DEF find_process

-----------------------------------------------------------------------------
(* Frames: what a step may change without disturbing a part of the invariant. *)

SameChain ==
  /\ UNCHANGED <<depth, fg, phase>>
  /\ nextId' \in Nat /\ nextId <= nextId'
  /\ \A s \in 0 .. depth - 1 : stack'[s] = stack[s]
  /\ \A s \in Slot : /\ proc'[s].state = "free" <=> proc[s].state = "free"
                     /\ proc'[s].state = "blocked" <=> proc[s].state = "blocked"
                     /\ proc'[s].id = proc[s].id
                     /\ proc'[s].parent = proc[s].parent

SameConsole ==
  /\ UNCHANGED <<fg, console, phase>>
  /\ \A s \in Slot : /\ proc'[s].owned = proc[s].owned
                     /\ proc'[s].state = "running" => proc[s].state = "running"
                     /\ proc[s].exitRequested /\ proc'[s].state = "running"
                          => proc'[s].exitRequested

SameExecOf(s) ==
  /\ proc'[s].state = "free" <=> proc[s].state = "free"
  /\ proc'[s].state = "blocked" <=> proc[s].state = "blocked"
  /\ proc'[s].childValid = proc[s].childValid
  /\ app'[s].inFlight = app[s].inFlight
  /\ app'[s].execRequested = app[s].execRequested
  /\ app'[s].ready = app[s].ready

(* The exec of one slot is accounted for. *)
ExecPlaced(s) ==
  /\ app[s].inFlight <=> \/ app[s].execRequested
                         \/ proc[s].state = "blocked"
                         \/ proc[s].childValid
                         \/ app[s].ready
  /\ ~(app[s].execRequested /\ proc[s].state = "blocked")
  /\ ~(app[s].execRequested /\ proc[s].childValid)
  /\ ~(app[s].execRequested /\ app[s].ready)
  /\ ~(proc[s].state = "blocked" /\ proc[s].childValid)
  /\ ~(proc[s].state = "blocked" /\ app[s].ready)
  /\ ~(proc[s].childValid /\ app[s].ready)

LEMMA ExecPlacedEverywhere ==
  ExecAccounted <=> (phase = "up" => \A s \in Live(proc) : ExecPlaced(s))
BY Zenon DEF ExecAccounted, ExecPlaced

LEMMA ExecPlacedNext ==
  (phase' = "up" => \A s \in Live(proc)' : ExecPlaced(s)') => ExecAccounted'
BY Zenon DEF ExecAccounted, ExecPlaced

LEMMA LiveSlot ==
  ASSUME NEW s
  PROVE  s \in Live(proc) <=> s \in Slot /\ proc[s].state # "free"
BY DEF Live

LEMMA LiveSlotNext ==
  ASSUME NEW s
  PROVE  s \in Live(proc)' <=> s \in Slot /\ proc'[s].state # "free"
BY DEF Live

LEMMA ChainFrame ==
  SameChain /\ TypeOK /\ FreshIds /\ ForegroundChain => (FreshIds /\ ForegroundChain)'
<1> SUFFICES ASSUME SameChain, TypeOK, FreshIds, ForegroundChain, phase = "up"
             PROVE  (FreshIds /\ ForegroundChain)'
  BY DEF SameChain, FreshIds, ForegroundChain
<1>1. Live(proc)' = Live(proc)
  BY DEF SameChain, Live
<1>2. depth \in 1 .. Capacity /\ Capacity \in Nat
  BY CapacityAssumption DEF ForegroundChain, TypeOK
<1>3. 0 .. depth - 1 \subseteq Slot /\ 0 \in 0 .. depth - 1 /\ fg = depth - 1
      /\ fg \in 0 .. depth - 1
  BY <1>2 DEF Slot, ForegroundChain
<1>4. FreshIds'
  <2> SUFFICES ASSUME NEW s \in Live(proc) PROVE proc'[s].id < nextId'
    BY <1>1 DEF FreshIds
  <2>1. proc'[s].id = proc[s].id /\ proc[s].id < nextId /\ proc[s].id \in Nat
    BY DEF SameChain, FreshIds, Live, TypeOK, ProcessRecord
  <2> QED
    BY <2>1 DEF SameChain, TypeOK
<1>5. ForegroundChain'
  <2>1. depth' = depth /\ fg' = fg
    BY DEF SameChain
  <2>2. depth' >= 1 /\ Live(proc)' = 0 .. depth' - 1 /\ fg' = depth' - 1
        /\ proc'[0].id = 0 /\ proc'[fg'].state # "blocked"
    BY <1>1, <1>2, <1>3, <2>1 DEF SameChain, ForegroundChain
  <2>3. ASSUME NEW s \in 0 .. depth - 1
        PROVE  /\ stack'[s] = proc'[s].id
               /\ s < depth - 1 => proc'[s].state = "blocked"
               /\ \A r \in 0 .. depth - 1 : r < s => proc'[r].id < proc'[s].id
    BY <1>3 DEF SameChain, ForegroundChain
  <2>4. ASSUME NEW s \in 0 .. depth - 1, s > 0
        PROVE  proc'[s].parent = proc'[s - 1].id
    <3>1. s - 1 \in 0 .. depth - 1
      BY <1>2, <2>4
    <3> QED
      BY <1>3, <2>4, <3>1 DEF SameChain, ForegroundChain
  <2> QED
    BY <2>1, <2>2, <2>3, <2>4 DEF ForegroundChain
<1> QED
  BY <1>4, <1>5

LEMMA ConsoleFrame ==
  SameConsole /\ TypeOK /\ ForegroundChain /\ ConsoleFollowsForeground
    => ConsoleFollowsForeground'
<1> SUFFICES ASSUME SameConsole, TypeOK, ForegroundChain, ConsoleFollowsForeground
             PROVE  ConsoleFollowsForeground'
  OBVIOUS
<1>1. \A s \in Slot : proc'[s].owned <=> console' = s
  BY DEF SameConsole, ConsoleFollowsForeground
<1>2. phase = "up" => fg \in Slot
  BY CapacityAssumption DEF ForegroundChain, TypeOK, Slot
<1>3. phase = "up" => /\ console' \in {fg', NoSlot}
                      /\ proc'[fg'].state = "running" /\ console' = NoSlot
                           => proc'[fg'].exitRequested
  BY <1>2 DEF SameConsole, ConsoleFollowsForeground
<1> QED
  BY <1>1, <1>3 DEF ConsoleFollowsForeground, SameConsole

LEMMA SameExec == ASSUME NEW s, SameExecOf(s), ExecPlaced(s) PROVE ExecPlaced(s)'
BY Zenon DEF SameExecOf, ExecPlaced

LEMMA ExecFrame ==
  ASSUME phase' = phase, ExecAccounted, \A s \in Slot : SameExecOf(s)
  PROVE  ExecAccounted'
<1> SUFFICES ASSUME phase = "up", NEW s \in Slot, proc'[s].state # "free"
             PROVE  ExecPlaced(s)'
  BY ExecPlacedNext, LiveSlotNext
<1>1. SameExecOf(s)
  OBVIOUS
<1>2. ExecPlaced(s)
  BY <1>1, ExecPlacedEverywhere, LiveSlot, Zenon DEF SameExecOf
<1> QED
  BY <1>1, <1>2, SameExec

(* The slots below the top of the stack, and the process on top. *)
LEMMA UpSlots ==
  ASSUME TypeOK, ForegroundChain, phase = "up"
  PROVE  /\ Capacity \in Nat /\ depth \in 1 .. Capacity /\ fg = depth - 1
         /\ fg \in Slot /\ 0 \in Slot /\ fg \in Live(proc)
         /\ 0 .. depth - 1 \subseteq Slot
         /\ proc[fg] \in ProcessRecord /\ app[fg] \in AppRecord
         /\ proc[fg].state \in {"running", "panicked"}
<1>1. Capacity \in Nat /\ depth \in 1 .. Capacity /\ fg = depth - 1
  BY CapacityAssumption DEF TypeOK, ForegroundChain
<1>2. fg \in 0 .. depth - 1 /\ fg \in Slot /\ 0 \in Slot /\ 0 .. depth - 1 \subseteq Slot
  BY <1>1 DEF Slot
<1>3. fg \in Live(proc)
  BY <1>2 DEF ForegroundChain
<1>4. proc[fg] \in ProcessRecord /\ app[fg] \in AppRecord
  BY <1>2 DEF TypeOK
<1>5. proc[fg].state \in {"running", "panicked"}
  BY <1>3, <1>4 DEF ForegroundChain, Live, ProcessRecord
<1> QED
  BY <1>1, <1>2, <1>3, <1>4, <1>5

LEMMA InitInv == Init => IInv
<1> SUFFICES ASSUME Init PROVE IInv
  OBVIOUS
<1>1. TypeOK
  <2>1. /\ proc \in [Slot -> ProcessRecord]
        /\ app \in [Slot -> AppRecord]
        /\ story \in [Slot -> StoryRecord]
    BY RecordTypes DEF Init
  <2>2. /\ stack \in [Slot -> Nat] /\ depth \in 0 .. Capacity /\ nextId \in Nat
        /\ {fg, console, ctx} \subseteq Slot \cup {NoSlot}
    BY CapacityAssumption DEF Init
  <2> QED
    BY <2>1, <2>2 DEF Init, TypeOK
<1>2. BootClean /\ UpdateContext /\ FreshIds /\ ForegroundChain
  BY DEF Init, BootClean, UpdateContext, FreshIds, ForegroundChain
<1>3. ConsoleFollowsForeground /\ ExecAccounted
  BY CapacityAssumption
  DEF Init, ConsoleFollowsForeground, ExecAccounted, FreeProcess, NoSlot, Slot
<1> QED
  BY <1>1, <1>2, <1>3 DEF IInv

-----------------------------------------------------------------------------
(* Every step preserves the invariant. *)

LEMMA BootInv == IInv /\ Boot => IInv'
<1> SUFFICES ASSUME IInv, Boot PROVE IInv'
  OBVIOUS
<1>1. phase = "boot" /\ proc = [s \in Slot |-> FreeProcess]
      /\ app = [s \in Slot |-> FreeApp] /\ console = NoSlot /\ rt = "idle"
  BY DEF IInv, BootClean, Boot, LaunchRoot, LaunchRootFails
<1>2. Live(proc) = {}
  BY <1>1 DEF Live, FreeProcess
<1>3. CASE LaunchRoot
  <2>1. 0 \in 0 .. Capacity - 1 /\ Live(proc) = 0 .. 0 - 1 /\ 0 \in Slot
    BY <1>2, CapacityAssumption DEF Slot
  <2>2. free_process_slot = 0
    BY <2>1, FirstFreeSlot
  <2>3. /\ proc' = [proc EXCEPT ![0] = NewProcess(0, -1)]
        /\ fg' = 0 /\ console' = 0 /\ depth' = 1 /\ nextId' = 1 /\ event' = TRUE
        /\ stack' = [stack EXCEPT ![0] = 0] /\ phase' = "up"
        /\ UNCHANGED <<app, rt, ctx, story>>
    BY <1>3, <2>2 DEF LaunchRoot
  <2>4. NewProcess(0, -1) \in ProcessRecord
    BY RecordTypes
  <2>5. TypeOK'
    BY <2>1, <2>3, <2>4, CapacityAssumption DEF IInv, TypeOK
  <2>6. Live(proc)' = {0}
    BY <1>1, <2>1, <2>3 DEF Live, NewProcess, FreeProcess
  <2>7. (BootClean /\ UpdateContext /\ FreshIds)'
    BY <1>1, <2>1, <2>3, <2>6
    DEF IInv, TypeOK, BootClean, UpdateContext, FreshIds, NewProcess, FreeProcess
  <2>8. ForegroundChain'
    <3>1. proc'[0].id = 0 /\ proc'[0].state = "running"
      BY <1>1, <2>1, <2>3 DEF NewProcess, FreeProcess
    <3>2. stack'[0] = 0
      BY <2>1, <2>3 DEF IInv, TypeOK
    <3>3. depth' >= 1 /\ 0 .. depth' - 1 = {0} /\ fg' = depth' - 1
      BY <2>3
    <3>4. \A s \in {0} : /\ stack'[s] = proc'[s].id
                         /\ ~(s < depth' - 1) /\ ~(s > 0)
                         /\ \A r \in {0} : ~(r < s)
      BY <2>3, <3>1, <3>2
    <3>5. fg' = 0 /\ proc'[0].state # "blocked"
      BY <2>3, <3>1
    <3> QED
      BY <2>6, <3>1, <3>3, <3>4, <3>5 DEF ForegroundChain
  <2>9. ConsoleFollowsForeground'
    BY <1>1, <2>1, <2>3
    DEF ConsoleFollowsForeground, NewProcess, FreeProcess, NoSlot
  <2>10. ExecAccounted'
    BY <1>1, <2>1, <2>3, <2>6
    DEF ExecAccounted, NewProcess, FreeProcess, FreeApp
  <2> QED
    BY <2>5, <2>7, <2>8, <2>9, <2>10 DEF IInv
<1>4. CASE LaunchRootFails
  <2>1. phase' = "down" /\ nextId' = 1
        /\ UNCHANGED <<proc, stack, depth, fg, console, app, rt, ctx, event, story>>
    BY <1>4 DEF LaunchRootFails
  <2> QED
    BY <1>1, <2>1
    DEF IInv, TypeOK, BootClean, UpdateContext, FreshIds, ForegroundChain,
        ConsoleFollowsForeground, ExecAccounted
<1> QED
  BY <1>3, <1>4 DEF Boot

LEMMA ShutDownInv == IInv /\ ShutDown => IInv'
<1> SUFFICES ASSUME IInv, ShutDown PROVE IInv'
  OBVIOUS
<1> USE DEF IInv
<1>1. rt = "idle" /\ rt' = "idle" /\ ctx' = ctx /\ phase # "boot"
      /\ phase' \in {"stopping", "down"}
  BY DEF ShutDown, BeginShutdown, DestroyHighest, EndShutdown, UpdateContext
<1>2. (BootClean /\ UpdateContext /\ FreshIds /\ ForegroundChain /\ ExecAccounted)'
  BY <1>1 DEF BootClean, UpdateContext, FreshIds, ForegroundChain, ExecAccounted
<1>3. TypeOK' /\ ConsoleFollowsForeground'
  <2>1. CASE BeginShutdown
    BY <2>1 DEF BeginShutdown, table, TypeOK, ConsoleFollowsForeground
  <2>2. CASE DestroyHighest
    <3> DEFINE s == CHOOSE s \in Live(proc) : \A r \in Live(proc) : r <= s
    <3>1. /\ proc' = [proc EXCEPT ![s] = FreeProcess]
          /\ app' = [app EXCEPT ![s] = FreeApp]
          /\ console' = ReleasedConsole(console, s)
          /\ story' = [story EXCEPT ![s] = NoStory]
          /\ UNCHANGED <<stack, depth, nextId, fg, rt, ctx, event, phase>>
      BY <2>2 DEF DestroyHighest
    <3> HIDE DEF s
    <3>2. proc' \in [Slot -> ProcessRecord]
      BY <3>1, RecordTypes DEF TypeOK
    <3>3. app' \in [Slot -> AppRecord] /\ story' \in [Slot -> StoryRecord]
      BY <3>1, RecordTypes DEF TypeOK
    <3>4. console' \in Slot \cup {NoSlot}
      BY <3>1 DEF ReleasedConsole, TypeOK
    <3>5. TypeOK'
      BY <3>1, <3>2, <3>3, <3>4 DEF TypeOK
    <3>6. ConsoleFollowsForeground'
      BY <1>1, <3>1, CapacityAssumption
      DEF ConsoleFollowsForeground, ReleasedConsole, FreeProcess, TypeOK, Slot, NoSlot
    <3> QED
      BY <3>5, <3>6
  <2>3. CASE EndShutdown
    BY <2>3, CapacityAssumption DEF EndShutdown, TypeOK, ConsoleFollowsForeground
  <2> QED
    BY <2>1, <2>2, <2>3 DEF ShutDown
<1> QED
  BY <1>2, <1>3

(* A step that leaves the table and the programs alone. *)
LEMMA TableFrame ==
  ASSUME IInv, UNCHANGED <<table, phase>>, UNCHANGED app
  PROVE  (FreshIds /\ ForegroundChain /\ ConsoleFollowsForeground /\ ExecAccounted)'
<1>1. SameChain /\ SameConsole
  BY DEF IInv, TypeOK, table, SameChain, SameConsole
<1>2. \A s \in Slot : SameExecOf(s)
  BY DEF table, SameExecOf
<1> QED
  BY <1>1, <1>2, ChainFrame, ConsoleFrame, ExecFrame DEF IInv

LEMMA BeginUpdateInv == IInv /\ BeginUpdate => IInv'
<1> SUFFICES ASSUME IInv, BeginUpdate PROVE IInv'
  OBVIOUS
<1>1. fg \in Slot /\ phase = "up" /\ rt = "idle"
  BY UpSlots DEF IInv, BeginUpdate
<1>2. TypeOK'
  BY <1>1 DEF IInv, BeginUpdate, table, TypeOK
<1>3. (BootClean /\ UpdateContext)'
  BY <1>1 DEF IInv, BeginUpdate, table, BootClean, UpdateContext
<1>4. (FreshIds /\ ForegroundChain /\ ConsoleFollowsForeground /\ ExecAccounted)'
  BY TableFrame DEF BeginUpdate
<1> QED
  BY <1>2, <1>3, <1>4 DEF IInv

(* The record of the process an update works on. *)
LEMMA UpdateRecord ==
  ASSUME IInv, rt # "idle"
  PROVE  /\ phase = "up" /\ ctx \in Slot /\ fg \in Slot /\ fg \in Live(proc)
         /\ proc[ctx] \in ProcessRecord /\ app[ctx] \in AppRecord
         /\ proc[fg] \in ProcessRecord
BY UpSlots DEF IInv, TypeOK, UpdateContext

LEMMA TakeChildStatusInv == IInv /\ TakeChildStatus => IInv'
<1> SUFFICES ASSUME IInv, TakeChildStatus PROVE IInv'
  OBVIOUS
<1>1. /\ rt = "take" /\ rt' = "exec" /\ ctx = fg /\ phase = "up"
      /\ proc[ctx].state = "running" /\ ctx \in Slot /\ ctx \in Live(proc)
      /\ proc[ctx] \in ProcessRecord /\ app[ctx] \in AppRecord
      /\ UNCHANGED <<stack, depth, nextId, fg, console, ctx, event, phase, story>>
  BY UpdateRecord DEF IInv, TakeChildStatus, UpdateContext
<1>2. CASE ~proc[ctx].childValid
  <2>1. UNCHANGED <<proc, app>>
    BY <1>2 DEF TakeChildStatus
  <2>2. (FreshIds /\ ForegroundChain /\ ConsoleFollowsForeground /\ ExecAccounted)'
    BY <1>1, <2>1, TableFrame DEF table
  <2>3. (TypeOK /\ BootClean /\ UpdateContext)'
    BY <1>1, <2>1 DEF IInv, TypeOK, BootClean, UpdateContext
  <2> QED
    BY <2>2, <2>3 DEF IInv
<1>3. CASE proc[ctx].childValid
  <2>1. /\ proc' = [proc EXCEPT ![ctx].childValid = FALSE]
        /\ app' = [app EXCEPT ![ctx].execStatus = proc[ctx].childStatus,
                              ![ctx].ready = TRUE]
    BY <1>3 DEF TakeChildStatus
  <2>2. proc' \in [Slot -> ProcessRecord]
    <3>1. [proc[ctx] EXCEPT !.childValid = FALSE] \in ProcessRecord
      BY <1>1 DEF ProcessRecord
    <3> QED
      BY <1>1, <2>1, <3>1 DEF IInv, TypeOK
  <2>3. app' \in [Slot -> AppRecord]
    <3>1. proc[ctx].childStatus \in Int
      BY <1>1 DEF ProcessRecord
    <3>2. [app[ctx] EXCEPT !.execStatus = proc[ctx].childStatus, !.ready = TRUE]
             \in AppRecord
      BY <1>1, <3>1, Zenon DEF AppRecord
    <3> QED
      BY <1>1, <2>1, <3>2 DEF IInv, TypeOK
  <2>4. TypeOK'
    BY <1>1, <2>2, <2>3 DEF IInv, TypeOK
  <2>5. SameChain /\ SameConsole /\ proc'[ctx].state = "running"
    BY <1>1, <2>1 DEF IInv, TypeOK, ProcessRecord, SameChain, SameConsole
  <2>6. (BootClean /\ UpdateContext)'
    BY <1>1, <2>5 DEF IInv, BootClean, UpdateContext
  <2>7. ExecAccounted'
    <3> SUFFICES ASSUME NEW s \in Slot, proc'[s].state # "free"
                 PROVE  ExecPlaced(s)'
      BY <1>1, ExecPlacedNext, LiveSlotNext
    <3>1. ExecPlaced(s)
      BY <1>1, <2>5, ExecPlacedEverywhere, LiveSlot DEF IInv, SameChain
    <3>2. CASE s = ctx
      <4>1. /\ proc'[s].childValid = FALSE /\ app'[s].ready = TRUE
            /\ proc'[s].state = proc[s].state
            /\ app'[s].inFlight = app[s].inFlight
            /\ app'[s].execRequested = app[s].execRequested
        BY <1>1, <2>1, <3>2 DEF IInv, TypeOK, ProcessRecord, AppRecord
      <4> QED
        BY <1>3, <3>1, <3>2, <4>1, Zenon DEF ExecPlaced
    <3>3. CASE s # ctx
      <4>1. proc'[s] = proc[s] /\ app'[s] = app[s]
        BY <2>1, <3>3 DEF IInv, TypeOK
      <4> QED
        BY <3>1, <4>1 DEF ExecPlaced
    <3> QED
      BY <3>2, <3>3
  <2> QED
    BY <2>4, <2>5, <2>6, <2>7, ChainFrame, ConsoleFrame DEF IInv
<1> QED
  BY <1>2, <1>3

(* A step of an update that changes neither the table nor a program. *)
LEMMA QuietUpdateInv ==
  ASSUME IInv, rt # "idle", UNCHANGED <<table, app, ctx, phase, story>>,
         event' \in BOOLEAN, rt' \in {"exit", "step", "returned", "tail"},
         rt' # "tail" => ctx = fg
  PROVE  IInv'
<1>1. TypeOK'
  BY DEF IInv, TypeOK, table
<1>2. (BootClean /\ UpdateContext)'
  BY DEF IInv, UpdateContext, BootClean, table
<1> QED
  BY <1>1, <1>2, TableFrame DEF IInv

LEMMA NoRequestInv == IInv /\ (NoExecRequest \/ NoExit) => IInv'
BY QuietUpdateInv, Zenon DEF IInv, UpdateContext, TypeOK, NoExecRequest, NoExit

(* A step of a program: only the record of its own slot changes, and its exec
   stays accounted for. *)
LEMMA ProgramFrame ==
  ASSUME IInv, UNCHANGED <<table, phase>>, NEW s \in Slot, NEW a \in AppRecord,
         app' = [app EXCEPT ![s] = a], ExecPlaced(s) => ExecPlaced(s)'
  PROVE  /\ app' \in [Slot -> AppRecord]
         /\ (FreshIds /\ ForegroundChain /\ ConsoleFollowsForeground /\ ExecAccounted)'
<1>1. SameChain /\ SameConsole
  BY DEF IInv, TypeOK, table, SameChain, SameConsole
<1>2. ExecAccounted'
  <2> SUFFICES ASSUME phase = "up", NEW r \in Slot, proc'[r].state # "free"
               PROVE  ExecPlaced(r)'
    BY ExecPlacedNext, LiveSlotNext
  <2>1. ExecPlaced(r)
    BY ExecPlacedEverywhere, LiveSlot DEF IInv, table
  <2>2. CASE r # s
    <3>1. app'[r] = app[r] /\ proc'[r] = proc[r]
      BY <2>2 DEF IInv, TypeOK, table
    <3> QED
      BY <2>1, <3>1 DEF ExecPlaced
  <2> QED
    BY <2>1, <2>2
<1> QED
  BY <1>1, <1>2, ChainFrame, ConsoleFrame DEF IInv, TypeOK

LEMMA StepInv == IInv /\ Step => IInv'
<1> SUFFICES ASSUME IInv, Step PROVE IInv'
  OBVIOUS
<1>1. /\ rt = "step" /\ ctx = fg /\ ctx \in Slot /\ app[ctx] \in AppRecord
      /\ phase = "up" /\ UNCHANGED <<table, ctx, event, phase, story>>
      /\ rt' \in {"returned", "tail"}
  BY UpdateRecord DEF IInv, UpdateContext, Step
<1>2. PICK c \in Slot : c = ctx
  BY <1>1
<1>3. CASE app[c].task = "none"
  <2> DEFINE a == [app[c] EXCEPT !.task = "running"]
  <2>1. app' = [app EXCEPT ![c] = a]
    BY <1>2, <1>3 DEF Step
  <2>2. a \in AppRecord
    BY <1>1, <1>2 DEF AppRecord
  <2>3. SameExecOf(c)
    BY <1>1, <1>2, <2>1 DEF IInv, TypeOK, table, AppRecord, SameExecOf
  <2> HIDE DEF a
  <2>4. /\ app' \in [Slot -> AppRecord]
        /\ (FreshIds /\ ForegroundChain /\ ConsoleFollowsForeground /\ ExecAccounted)'
    BY <1>1, <2>1, <2>2, <2>3, SameExec, ProgramFrame
  <2>5. (TypeOK /\ BootClean /\ UpdateContext)'
    BY <1>1, <2>4 DEF IInv, TypeOK, BootClean, UpdateContext, table
  <2> QED
    BY <2>4, <2>5 DEF IInv
<1>4. CASE app[c].task # "none"
  <2>1. UNCHANGED app
    BY <1>2, <1>4 DEF Step
  <2> QED
    BY <1>1, <2>1, QuietUpdateInv, Zenon DEF IInv, TypeOK
<1> QED
  BY <1>3, <1>4

(* kernel_process_fail changes nothing the chain, the console or an exec
   depends on. *)
LEMMA FailFrame ==
  ASSUME IInv, phase = "up", NEW cause \in Causes, NEW status \in Int,
         Fail(cause, status)
  PROVE  /\ proc' \in [Slot -> ProcessRecord]
         /\ UNCHANGED <<stack, depth, nextId, fg, console>> /\ event' = TRUE
         /\ phase' = phase => SameChain /\ SameConsole
         /\ app' = app => \A s \in Slot : SameExecOf(s)
<1>1. fg \in Slot /\ proc[fg] \in ProcessRecord
  BY UpSlots DEF IInv
<1> DEFINE p == [proc[fg] EXCEPT !.cause = cause, !.exitRequested = TRUE,
                                 !.exitStatus = status]
<1>2. proc' = [proc EXCEPT ![fg] = p]
  BY DEF Fail
<1>3. p \in ProcessRecord
  BY <1>1, Zenon DEF ProcessRecord
<1>4. /\ p.state = proc[fg].state /\ p.id = proc[fg].id /\ p.parent = proc[fg].parent
      /\ p.owned = proc[fg].owned /\ p.childValid = proc[fg].childValid
      /\ p.exitRequested = TRUE
  BY <1>1 DEF ProcessRecord
<1> HIDE DEF p
<1>5. proc' \in [Slot -> ProcessRecord]
  BY <1>2, <1>3 DEF IInv, TypeOK
<1>6. \A s \in Slot :
        /\ proc'[s].state = proc[s].state /\ proc'[s].id = proc[s].id
        /\ proc'[s].parent = proc[s].parent /\ proc'[s].owned = proc[s].owned
        /\ proc'[s].childValid = proc[s].childValid
        /\ proc[s].exitRequested => proc'[s].exitRequested
  BY <1>1, <1>2, <1>4 DEF IInv, TypeOK
<1>7. UNCHANGED <<stack, depth, nextId, fg, console>> /\ event' = TRUE
  BY DEF Fail
<1> QED
  BY <1>5, <1>6, <1>7 DEF IInv, TypeOK, SameChain, SameConsole, SameExecOf

LEMMA FaultInv == IInv /\ StepFaults => IInv'
<1> SUFFICES ASSUME IInv, StepFaults PROVE IInv'
  OBVIOUS
<1>1. /\ phase = "up" /\ Fail("fault", FaultStatus)
      /\ rt' = "tail" /\ UNCHANGED <<app, ctx, phase, story>> /\ ctx \in Slot
  BY UpdateRecord DEF StepFaults
<1>2. "fault" \in Causes /\ FaultStatus \in Int
  BY DEF Causes, FaultStatus
<1>3. /\ proc' \in [Slot -> ProcessRecord] /\ SameChain /\ SameConsole
      /\ UNCHANGED <<stack, depth, nextId, fg, console>> /\ event' = TRUE
      /\ \A s \in Slot : SameExecOf(s)
  BY <1>1, <1>2, FailFrame
<1>4. (TypeOK /\ BootClean /\ UpdateContext)'
  BY <1>1, <1>3 DEF IInv, TypeOK, BootClean, UpdateContext
<1> QED
  BY <1>1, <1>3, <1>4, ChainFrame, ConsoleFrame, ExecFrame DEF IInv

LEMMA ReturnedInv == IInv /\ Returned => IInv'
<1> SUFFICES ASSUME IInv, Returned PROVE IInv'
  OBVIOUS
<1>1. /\ phase = "up" /\ rt = "returned" /\ rt' = "tail" /\ ctx \in Slot
      /\ UNCHANGED <<app, ctx, phase, story>> /\ app[ctx] \in AppRecord
  BY UpdateRecord DEF Returned
<1>2. CASE app[ctx].exitFlag
  <2>1. UNCHANGED <<table, event>>
    BY <1>2 DEF Returned
  <2> QED
    BY <1>1, <2>1, QuietUpdateInv, Zenon DEF IInv, TypeOK
<1>3. CASE ~app[ctx].exitFlag
  <2>1. Fail("return", app[ctx].returned)
    BY <1>3 DEF Returned
  <2>2. PICK v \in Int : v = app[ctx].returned
    BY <1>1 DEF AppRecord
  <2>3. "return" \in Causes
    BY DEF Causes
  <2>4. /\ proc' \in [Slot -> ProcessRecord] /\ SameChain /\ SameConsole
        /\ UNCHANGED <<stack, depth, nextId, fg, console>> /\ event' = TRUE
        /\ \A s \in Slot : SameExecOf(s)
    BY <1>1, <2>1, <2>2, <2>3, FailFrame
  <2>5. (TypeOK /\ BootClean /\ UpdateContext)'
    BY <1>1, <2>4 DEF IInv, TypeOK, BootClean, UpdateContext
  <2> QED
    BY <1>1, <2>4, <2>5, ChainFrame, ConsoleFrame, ExecFrame DEF IInv
<1> QED
  BY <1>2, <1>3

LEMMA ForceTerminateInv ==
  ASSUME IInv, NEW status \in Statuses, ForceTerminate(status)
  PROVE  IInv'
<1>1. /\ phase = "up" /\ rt = "idle" /\ Fail("forced", status)
      /\ UNCHANGED <<app, rt, ctx, phase, story>>
  BY DEF ForceTerminate
<1>2. "forced" \in Causes /\ status \in Int
  BY StatusesAssumption DEF Causes
<1>3. /\ proc' \in [Slot -> ProcessRecord] /\ SameChain /\ SameConsole
      /\ UNCHANGED <<stack, depth, nextId, fg, console>> /\ event' = TRUE
      /\ \A s \in Slot : SameExecOf(s)
  BY <1>1, <1>2, FailFrame
<1>4. (TypeOK /\ BootClean /\ UpdateContext)'
  BY <1>1, <1>3 DEF IInv, TypeOK, BootClean, UpdateContext
<1> QED
  BY <1>1, <1>3, <1>4, ChainFrame, ConsoleFrame, ExecFrame DEF IInv

LEMMA TakeExitInv == IInv /\ TakeExit => IInv'
<1> SUFFICES ASSUME IInv, TakeExit PROVE IInv'
  OBVIOUS
<1>1. /\ phase = "up" /\ rt = "exit" /\ rt' = "tail" /\ ctx \in Slot /\ event' = TRUE
      /\ UNCHANGED <<stack, depth, nextId, fg, console, ctx, phase, story>>
      /\ app[ctx] \in AppRecord /\ proc[ctx] \in ProcessRecord
  BY UpdateRecord DEF TakeExit
<1>2. PICK c \in Slot : c = ctx
  BY <1>1
<1> DEFINE p == [proc[c] EXCEPT !.cause = IF @ = "none" THEN "exit" ELSE @,
                                !.exitRequested = TRUE,
                                !.exitStatus = app[c].exitValue]
           a == [app[c] EXCEPT !.exitFlag = FALSE]
<1>3. proc' = [proc EXCEPT ![c] = p] /\ app' = [app EXCEPT ![c] = a]
  BY <1>2 DEF TakeExit
<1>4. p \in ProcessRecord
  <2>1. (IF proc[c].cause = "none" THEN "exit" ELSE proc[c].cause) \in Causes
    BY <1>1, <1>2 DEF ProcessRecord, Causes
  <2>2. app[c].exitValue \in Int
    BY <1>1, <1>2 DEF AppRecord
  <2> QED
    BY <1>1, <1>2, <2>1, <2>2, Zenon DEF ProcessRecord
<1>5. a \in AppRecord
  BY <1>1, <1>2 DEF AppRecord
<1>6. /\ p.state = proc[c].state /\ p.id = proc[c].id /\ p.parent = proc[c].parent
      /\ p.owned = proc[c].owned /\ p.childValid = proc[c].childValid
      /\ p.exitRequested = TRUE
      /\ a.inFlight = app[c].inFlight /\ a.execRequested = app[c].execRequested
      /\ a.ready = app[c].ready
  BY <1>1, <1>2 DEF ProcessRecord, AppRecord
<1> HIDE DEF p, a
<1>7. proc' \in [Slot -> ProcessRecord] /\ app' \in [Slot -> AppRecord]
  BY <1>3, <1>4, <1>5 DEF IInv, TypeOK
<1>8. SameChain /\ SameConsole /\ \A s \in Slot : SameExecOf(s)
  BY <1>1, <1>3, <1>6 DEF IInv, TypeOK, SameChain, SameConsole, SameExecOf
<1>9. (TypeOK /\ BootClean /\ UpdateContext)'
  BY <1>1, <1>7 DEF IInv, TypeOK, BootClean, UpdateContext
<1> QED
  BY <1>1, <1>8, <1>9, ChainFrame, ConsoleFrame, ExecFrame DEF IInv

-----------------------------------------------------------------------------
(* The steps of a program. *)

LEMMA ElfExecType ==
  ASSUME NEW a \in AppRecord, NEW p \in Programs \cup {"none"}
  PROVE  ElfExec(a, p) \in AppRecord
<1>1. [a EXCEPT !.ready = FALSE, !.inFlight = FALSE] \in AppRecord
  BY Zenon DEF AppRecord
<1>2. [a EXCEPT !.inFlight = TRUE, !.execRequested = TRUE, !.path = p] \in AppRecord
  BY Zenon DEF AppRecord
<1> QED
  BY <1>1, <1>2 DEF ElfExec

(* The call gate keeps the exec of its caller accounted for. *)
LEMMA ElfExecPlaced ==
  ASSUME IInv, NEW s \in Slot, NEW p, proc[s].state # "blocked" \/ app[s].inFlight,
         UNCHANGED proc,
         /\ app'[s].inFlight = ElfExec(app[s], p).inFlight
         /\ app'[s].execRequested = ElfExec(app[s], p).execRequested
         /\ app'[s].ready = ElfExec(app[s], p).ready,
         ExecPlaced(s)
  PROVE  ExecPlaced(s)'
<1> DEFINE a == app[s]
<1>0. a \in AppRecord
  BY DEF IInv, TypeOK
<1>1. CASE a.ready
  <2>1. ElfExec(a, p) = [a EXCEPT !.ready = FALSE, !.inFlight = FALSE]
    BY <1>1 DEF ElfExec
  <2>2. /\ app'[s].inFlight = FALSE /\ app'[s].ready = FALSE
        /\ app'[s].execRequested = app[s].execRequested
    BY <1>0, <2>1 DEF AppRecord
  <2> QED
    BY <1>1, <2>2 DEF ExecPlaced
<1>2. CASE ~a.ready /\ a.inFlight
  <2>1. ElfExec(a, p) = a
    BY <1>2 DEF ElfExec
  <2> QED
    BY <2>1 DEF ExecPlaced
<1>3. CASE ~a.ready /\ ~a.inFlight
  <2>1. ElfExec(a, p) = [a EXCEPT !.inFlight = TRUE, !.execRequested = TRUE, !.path = p]
    BY <1>3 DEF ElfExec
  <2>2. /\ app'[s].inFlight = TRUE /\ app'[s].ready = app[s].ready
        /\ app'[s].execRequested = TRUE
    BY <1>0, <2>1 DEF AppRecord
  <2> QED
    BY <1>3, <2>2 DEF ExecPlaced
<1> QED
  BY <1>1, <1>2, <1>3

(* What a step of a program has to show. *)
LEMMA ProgramInv ==
  ASSUME IInv, NEW s \in Slot, proc[s].state # "free", NEW a \in AppRecord,
         app' = [app EXCEPT ![s] = a], UNCHANGED <<table, rt, ctx, phase, story>>,
         event' \in BOOLEAN, ExecPlaced(s) => ExecPlaced(s)'
  PROVE  IInv'
<1>1. /\ app' \in [Slot -> AppRecord]
      /\ (FreshIds /\ ForegroundChain /\ ConsoleFollowsForeground /\ ExecAccounted)'
  BY ProgramFrame
<1>2. (TypeOK /\ UpdateContext)'
  BY <1>1 DEF IInv, TypeOK, UpdateContext, table
<1>3. phase # "boot"
  BY DEF IInv, BootClean, FreeProcess
<1>4. BootClean'
  BY <1>3 DEF BootClean
<1> QED
  BY <1>1, <1>2, <1>4 DEF IInv

LEMMA AppCallInv ==
  ASSUME IInv, NEW s \in Slot, NEW p \in Programs,
         AppExec(s, p) \/ AppSpawn(s, p) \/ AppWait(s)
  PROVE  IInv'
<1>1. app[s] \in AppRecord /\ proc[s].state # "free" /\ app[s].want \in Programs \cup {"none"}
  BY DEF AppExec, AppSpawn, AppWait, CanCall, IInv, TypeOK, AppRecord
<1>2. UNCHANGED <<table, rt, ctx, phase, story>> /\ event' \in BOOLEAN
  BY DEF AppExec, AppSpawn, AppWait, IInv, TypeOK
<1> DEFINE Answered(e) ==
             \/ app' = [app EXCEPT ![s] = [e EXCEPT
                         !.call = IF app[s].ready THEN "idle" ELSE "exec", !.want = p]]
             \/ app' = [app EXCEPT ![s] = [e EXCEPT
                         !.want = p, !.spawned = (app[s].ready => app[s].execStatus >= 0)]]
             \/ app' = [app EXCEPT ![s] = [e EXCEPT
                         !.call = IF app[s].ready THEN "idle" ELSE "wait",
                         !.spawned = ~app[s].ready]]
<1>3. PICK r \in Programs \cup {"none"} : Answered(ElfExec(app[s], r))
  <2>1. CASE AppExec(s, p)
    <3>1. Answered(ElfExec(app[s], p))
      BY <2>1, Zenon DEF AppExec
    <3> QED
      BY <3>1
  <2>2. CASE AppSpawn(s, p)
    <3>1. Answered(ElfExec(app[s], p))
      BY <2>2, Zenon DEF AppSpawn
    <3> QED
      BY <3>1
  <2>3. CASE AppWait(s)
    <3>1. Answered(ElfExec(app[s], app[s].want))
      BY <2>3, Zenon DEF AppWait
    <3> HIDE DEF Answered
    <3> QED
      BY <1>1, <3>1
  <2> QED
    BY <2>1, <2>2, <2>3
<1> DEFINE e == ElfExec(app[s], r)
<1>e. e \in AppRecord /\ Answered(e)
  BY <1>1, <1>3, ElfExecType
<1> HIDE DEF e
<1>4. PICK a \in AppRecord : /\ app' = [app EXCEPT ![s] = a]
                             /\ a.inFlight = e.inFlight /\ a.ready = e.ready
                             /\ a.execRequested = e.execRequested
  <2>1. (IF app[s].ready THEN "idle" ELSE "exec") \in {"idle", "exec", "wait", "exited"}
        /\ (IF app[s].ready THEN "idle" ELSE "wait") \in {"idle", "exec", "wait", "exited"}
        /\ (app[s].ready => app[s].execStatus >= 0) \in BOOLEAN
        /\ (~app[s].ready) \in BOOLEAN
    OBVIOUS
  <2> DEFINE a1 == [e EXCEPT !.call = IF app[s].ready THEN "idle" ELSE "exec", !.want = p]
             a2 == [e EXCEPT !.want = p,
                             !.spawned = (app[s].ready => app[s].execStatus >= 0)]
             a3 == [e EXCEPT !.call = IF app[s].ready THEN "idle" ELSE "wait",
                             !.spawned = ~app[s].ready]
  <2>2. a1 \in AppRecord /\ a2 \in AppRecord /\ a3 \in AppRecord
    BY <1>e, <2>1, Zenon DEF AppRecord
  <2>3. \A a \in {a1, a2, a3} : /\ a.inFlight = e.inFlight /\ a.ready = e.ready
                                /\ a.execRequested = e.execRequested
    BY <1>e DEF AppRecord
  <2> HIDE DEF a1, a2, a3
  <2>4. \E a \in {a1, a2, a3} : app' = [app EXCEPT ![s] = a]
    BY <1>e DEF a1, a2, a3
  <2> QED
    BY <2>2, <2>3, <2>4
<1>5. app'[s] = a
  BY <1>4 DEF IInv, TypeOK
<1>6. ExecPlaced(s) => ExecPlaced(s)'
  <2>1. ExecPlaced(s) => proc[s].state # "blocked" \/ app[s].inFlight
    BY DEF ExecPlaced
  <2> QED
    BY <1>2, <1>3, <1>4, <1>5, <2>1, ElfExecPlaced DEF table, e
<1> QED
  BY <1>1, <1>2, <1>4, <1>6, ProgramInv

LEMMA AppEndInv ==
  ASSUME IInv, NEW s \in Slot, NEW status \in Statuses,
         AppExit(s, status) \/ AppReturn(s, status)
  PROVE  IInv'
<1>1. app[s] \in AppRecord /\ proc[s].state # "free" /\ status \in Int
  BY StatusesAssumption DEF AppExit, AppReturn, CanCall, IInv, TypeOK
<1>2. UNCHANGED <<table, rt, ctx, phase, story>> /\ event' \in BOOLEAN
  BY DEF AppExit, AppReturn
<1> DEFINE a1 == [app[s] EXCEPT !.exitValue = status, !.exitFlag = TRUE,
                                !.call = "exited"]
           a2 == [app[s] EXCEPT !.task = "returned", !.returned = status]
<1>3. a1 \in AppRecord /\ a2 \in AppRecord
  BY <1>1, Zenon DEF AppRecord
<1>4. \A a \in {a1, a2} : /\ a.inFlight = app[s].inFlight /\ a.ready = app[s].ready
                          /\ a.execRequested = app[s].execRequested
  BY <1>1 DEF AppRecord
<1>5. app' = [app EXCEPT ![s] = a1] \/ app' = [app EXCEPT ![s] = a2]
  BY DEF AppExit, AppReturn
<1> HIDE DEF a1, a2
<1>6. SameExecOf(s)
  BY <1>2, <1>4, <1>5 DEF IInv, TypeOK, table, SameExecOf
<1> QED
  BY <1>1, <1>2, <1>3, <1>5, <1>6, SameExec, ProgramInv

-----------------------------------------------------------------------------
(* The launch of a child. *)

LEMMA UnlaunchedType ==
  ASSUME IInv, ctx \in Slot, NEW result \in Int, Unlaunched(result)
  PROVE  /\ app' \in [Slot -> AppRecord] /\ story' \in [Slot -> StoryRecord]
         /\ rt' = "exit"
         /\ \A s \in Slot : /\ s # ctx => app'[s] = app[s]
                            /\ s = ctx => /\ app'[s].execRequested = FALSE
                                          /\ app'[s].ready = TRUE
                                          /\ app'[s].inFlight = app[s].inFlight
<1>1. -(100 + result) \in Int /\ app[ctx] \in AppRecord
  BY DEF IInv, TypeOK
<1> DEFINE v == -(100 + result)
           a == [app[ctx] EXCEPT !.execRequested = FALSE, !.execStatus = v,
                                 !.ready = TRUE]
           t == [program |-> app[ctx].path, ended |-> TRUE, status |-> v]
<1>2. app' = [app EXCEPT ![ctx] = a] /\ story' = [story EXCEPT ![ctx] = t]
      /\ rt' = "exit"
  BY DEF Unlaunched
<1>3. v \in Int
  BY <1>1
<1> HIDE DEF v
<1>4. a \in AppRecord
  BY <1>1, <1>3, Zenon DEF AppRecord
<1>5. t \in StoryRecord
  BY <1>1, <1>3 DEF AppRecord, StoryRecord
<1>6. a.execRequested = FALSE /\ a.ready = TRUE /\ a.inFlight = app[ctx].inFlight
  BY <1>1 DEF AppRecord
<1> HIDE DEF a, t
<1> QED
  BY <1>2, <1>4, <1>5, <1>6 DEF IInv, TypeOK

LEMMA LaunchRejectedInv == IInv /\ LaunchRejected => IInv'
<1> SUFFICES ASSUME IInv, LaunchRejected PROVE IInv'
  OBVIOUS
<1>1. /\ rt = "exec" /\ ctx = fg /\ ctx \in Slot /\ phase = "up"
      /\ app[ctx].execRequested /\ UNCHANGED <<table, ctx, event, phase>>
  BY UpdateRecord DEF IInv, UpdateContext, LaunchRejected
<1>2. PICK result \in Int : Unlaunched(result)
  BY DEF LaunchRejected, InvalidResult, StartFailed
<1>3. /\ app' \in [Slot -> AppRecord] /\ story' \in [Slot -> StoryRecord]
      /\ rt' = "exit"
      /\ \A s \in Slot : /\ s # ctx => app'[s] = app[s]
                         /\ s = ctx => /\ app'[s].execRequested = FALSE
                                       /\ app'[s].ready = TRUE
                                       /\ app'[s].inFlight = app[s].inFlight
  BY <1>1, <1>2, UnlaunchedType
<1>4. (TypeOK /\ BootClean /\ UpdateContext)'
  BY <1>1, <1>3 DEF IInv, TypeOK, BootClean, UpdateContext, table
<1>5. SameChain /\ SameConsole
  BY <1>1 DEF IInv, TypeOK, table, SameChain, SameConsole
<1>6. ExecAccounted'
  <2> SUFFICES ASSUME NEW s \in Slot, proc'[s].state # "free"
               PROVE  ExecPlaced(s)'
    BY ExecPlacedNext, LiveSlotNext
  <2>1. ExecPlaced(s) /\ proc'[s] = proc[s]
    BY <1>1, ExecPlacedEverywhere, LiveSlot DEF IInv, table
  <2>2. CASE s = ctx
    BY <1>1, <1>3, <2>1, <2>2 DEF ExecPlaced
  <2>3. CASE s # ctx
    BY <1>3, <2>1, <2>3 DEF ExecPlaced
  <2> QED
    BY <2>2, <2>3
<1> QED
  BY <1>4, <1>5, <1>6, ChainFrame, ConsoleFrame DEF IInv

LEMMA LaunchFailsInv ==
  ASSUME IInv, NEW presented \in BOOLEAN, LaunchFails(presented)
  PROVE  IInv'
<1>1. /\ rt = "exec" /\ ctx = fg /\ ctx \in Slot /\ phase = "up"
      /\ app[ctx].execRequested /\ proc[ctx].state = "running" /\ proc[ctx] \in ProcessRecord
      /\ depth < Capacity /\ depth \in 1 .. Capacity /\ Capacity \in Nat
  BY UpdateRecord, UpSlots DEF IInv, UpdateContext, LaunchFails, CanLaunch
<1>2. console \in {ctx, NoSlot} /\ ReleasedConsole(console, ctx) = NoSlot
  BY <1>1 DEF IInv, ConsoleFollowsForeground, ReleasedConsole
<1> DEFINE shown == presented
           parent == [proc[ctx] EXCEPT !.state = "blocked", !.owned = FALSE]
           p == [Resumed(parent, Failure, shown) EXCEPT !.childValid = FALSE]
<1>3. /\ proc' = [proc EXCEPT ![ctx] = p]
      /\ console' = IF shown THEN ctx ELSE NoSlot
      /\ Unlaunched(StartFailed) /\ stack' = [stack EXCEPT ![depth] = nextId]
      /\ nextId' = nextId + 1 /\ event' = TRUE
      /\ UNCHANGED <<depth, fg, ctx, phase>>
  BY <1>2 DEF LaunchFails
<1>4. parent \in ProcessRecord
  BY <1>1, Zenon DEF ProcessRecord
<1>5. Resumed(parent, Failure, shown) \in ProcessRecord
  <2>1. Failure \in Int
    BY DEF Failure
  <2> HIDE DEF parent
  <2> QED
    BY <1>4, <2>1, RecordTypes
<1>6. p \in ProcessRecord
  BY <1>5, Zenon DEF ProcessRecord
<1>7. /\ p.state \in {"running", "panicked"} /\ p.id = proc[ctx].id
      /\ p.parent = proc[ctx].parent /\ p.owned = shown /\ p.childValid = FALSE
      /\ p.state = "running" /\ ~shown => p.exitRequested
  <2>1. /\ parent.id = proc[ctx].id /\ parent.parent = proc[ctx].parent
        /\ parent.exitRequested = proc[ctx].exitRequested
        /\ parent.id \in Nat
    BY <1>1 DEF ProcessRecord
  <2> HIDE DEF parent
  <2>2. CASE shown
    BY <1>4, <2>1, <2>2 DEF Resumed, ProcessRecord
  <2>3. CASE ~shown
    BY <1>4, <2>1, <2>3 DEF Resumed, ProcessRecord
  <2> QED
    BY <2>2, <2>3
<1> HIDE DEF p, parent
<1>8. /\ app' \in [Slot -> AppRecord] /\ story' \in [Slot -> StoryRecord]
      /\ rt' = "exit"
      /\ \A s \in Slot : /\ s # ctx => app'[s] = app[s]
                         /\ s = ctx => /\ app'[s].execRequested = FALSE
                                       /\ app'[s].ready = TRUE
                                       /\ app'[s].inFlight = app[s].inFlight
  <2>1. StartFailed \in Int
    BY DEF StartFailed
  <2> QED
    BY <1>1, <1>3, <2>1, UnlaunchedType
<1>9. proc' \in [Slot -> ProcessRecord] /\ stack' \in [Slot -> Nat] /\ nextId' \in Nat
  <2>1. proc' \in [Slot -> ProcessRecord]
    BY <1>3, <1>6 DEF IInv, TypeOK
  <2>2. nextId \in Nat /\ stack' \in [Slot -> Nat]
    BY <1>3 DEF IInv, TypeOK
  <2> QED
    BY <1>3, <2>1, <2>2
<1>10. console' \in Slot \cup {NoSlot}
  BY <1>1, <1>3
<1>11. (TypeOK /\ BootClean /\ UpdateContext)'
  BY <1>1, <1>3, <1>8, <1>9, <1>10 DEF IInv, TypeOK, BootClean, UpdateContext
<1>12. SameChain
  <2>1. \A s \in 0 .. depth - 1 : stack'[s] = stack[s]
    BY <1>1, <1>3 DEF IInv, TypeOK, Slot
  <2>2. nextId <= nextId'
    BY <1>3 DEF IInv, TypeOK
  <2>3. \A s \in Slot : /\ proc'[s].state = "free" <=> proc[s].state = "free"
                        /\ proc'[s].state = "blocked" <=> proc[s].state = "blocked"
                        /\ proc'[s].id = proc[s].id
                        /\ proc'[s].parent = proc[s].parent
    BY <1>1, <1>3, <1>7 DEF IInv, TypeOK
  <2> QED
    BY <1>3, <1>9, <2>1, <2>2, <2>3 DEF SameChain
<1>13. ConsoleFollowsForeground'
  <2>1. \A s \in Slot : s # ctx => proc'[s].owned = proc[s].owned
    BY <1>3 DEF IInv, TypeOK
  <2>2. \A s \in Slot : s # ctx => ~proc[s].owned
    BY <1>2 DEF IInv, ConsoleFollowsForeground, Slot, NoSlot
  <2>3. proc'[ctx] = p
    BY <1>1, <1>3 DEF IInv, TypeOK
  <2>4. \A s \in Slot : proc'[s].owned <=> console' = s
    <3>1. \A s \in Slot : s # NoSlot
      BY CapacityAssumption DEF Slot, NoSlot
    <3> QED
      BY <1>1, <1>3, <1>7, <2>1, <2>2, <2>3, <3>1
  <2>5. console' \in {fg', NoSlot}
    BY <1>1, <1>3
  <2>6. proc'[fg'].state = "running" /\ console' = NoSlot => proc'[fg'].exitRequested
    <3>1. fg' = ctx /\ ctx # NoSlot
      BY <1>1, <1>3, CapacityAssumption DEF Slot, NoSlot
    <3> QED
      BY <1>3, <1>7, <2>3, <3>1
  <2> QED
    BY <2>4, <2>5, <2>6 DEF ConsoleFollowsForeground
<1>14. ExecAccounted'
  <2> SUFFICES ASSUME NEW s \in Slot, proc'[s].state # "free"
               PROVE  ExecPlaced(s)'
    BY ExecPlacedNext, LiveSlotNext
  <2>1. CASE s = ctx
    <3>1. ExecPlaced(s)
      BY <1>1, <2>1, ExecPlacedEverywhere, LiveSlot DEF IInv
    <3>2. proc'[s] = p
      BY <1>3, <2>1 DEF IInv, TypeOK
    <3>3. /\ app[s].inFlight /\ proc'[s].state # "blocked" /\ ~proc'[s].childValid
      BY <1>1, <1>7, <2>1, <3>1, <3>2 DEF ExecPlaced
    <3> QED
      BY <1>8, <2>1, <3>3 DEF ExecPlaced
  <2>2. CASE s # ctx
    <3>1. proc'[s] = proc[s] /\ app'[s] = app[s]
      BY <1>3, <1>8, <2>2 DEF IInv, TypeOK
    <3>2. ExecPlaced(s)
      BY <1>1, <3>1, ExecPlacedEverywhere, LiveSlot DEF IInv
    <3> QED
      BY <3>1, <3>2 DEF ExecPlaced
  <2> QED
    BY <2>1, <2>2
<1> QED
  BY <1>11, <1>12, <1>13, <1>14, ChainFrame DEF IInv

(* The new process takes the slot, and the stack entry, at the old depth. *)
LEMMA LaunchChildInv == IInv /\ LaunchChild => IInv'
<1> SUFFICES ASSUME IInv, LaunchChild PROVE IInv'
  OBVIOUS
<1>1. /\ rt = "exec" /\ ctx = fg /\ ctx \in Slot /\ phase = "up"
      /\ app[ctx].execRequested /\ proc[ctx].state = "running"
      /\ proc[ctx] \in ProcessRecord /\ app[ctx] \in AppRecord
      /\ depth < Capacity /\ depth \in 1 .. Capacity /\ Capacity \in Nat
      /\ fg = depth - 1
  BY UpdateRecord, UpSlots DEF IInv, UpdateContext, LaunchChild, CanLaunch
<1>2. Live(proc) = 0 .. depth - 1 /\ depth \in 0 .. Capacity - 1 /\ depth \in Slot
      /\ ctx # depth
  BY <1>1 DEF IInv, ForegroundChain, Slot
<1>3. free_process_slot = depth
  BY <1>2, FirstFreeSlot
<1> DEFINE p == [proc[ctx] EXCEPT !.state = "blocked", !.owned = FALSE]
           n == NewProcess(nextId, proc[ctx].id)
           a == [app[ctx] EXCEPT !.execRequested = FALSE]
           t == [NoStory EXCEPT !.program = app[ctx].path]
<1>4. /\ proc' = [proc EXCEPT ![ctx] = p, ![depth] = n]
      /\ app' = [app EXCEPT ![ctx] = a, ![depth] = FreeApp]
      /\ story' = [story EXCEPT ![ctx] = t, ![depth] = NoStory]
      /\ fg' = depth /\ console' = depth
      /\ stack' = [stack EXCEPT ![depth] = nextId]
      /\ depth' = depth + 1 /\ nextId' = nextId + 1
      /\ event' = TRUE /\ rt' = "tail" /\ UNCHANGED <<ctx, phase>>
  <2>1. proc' = [proc EXCEPT ![ctx].state = "blocked", ![ctx].owned = FALSE,
                             ![depth] = n]
    BY <1>3 DEF LaunchChild
  <2>2. [proc EXCEPT ![ctx].state = "blocked", ![ctx].owned = FALSE, ![depth] = n]
          = [proc EXCEPT ![ctx] = p, ![depth] = n]
    BY <1>1 DEF IInv, TypeOK, ProcessRecord
  <2>3. app' = [app EXCEPT ![ctx].execRequested = FALSE, ![depth] = FreeApp]
        /\ story' = [story EXCEPT ![ctx] = t, ![depth] = NoStory]
    BY <1>3 DEF LaunchChild
  <2>4. fg' = depth /\ console' = depth
        /\ stack' = [stack EXCEPT ![depth] = nextId]
        /\ depth' = depth + 1 /\ nextId' = nextId + 1
        /\ event' = TRUE /\ rt' = "tail" /\ UNCHANGED <<ctx, phase>>
    BY <1>3 DEF LaunchChild
  <2> QED
    BY <2>1, <2>2, <2>3, <2>4
<1>5. p \in ProcessRecord /\ n \in ProcessRecord /\ a \in AppRecord
      /\ t \in StoryRecord /\ nextId \in Nat
  <2>1. p \in ProcessRecord
    BY <1>1, Zenon DEF ProcessRecord
  <2>2. nextId \in Nat /\ proc[ctx].id \in Nat
    BY <1>1 DEF IInv, TypeOK, ProcessRecord
  <2>3. n \in ProcessRecord
    BY <2>2, RecordTypes
  <2>4. a \in AppRecord /\ app[ctx].path \in Programs \cup {"none"}
    BY <1>1 DEF AppRecord
  <2>5. t \in StoryRecord
    <3>1. ASSUME NEW q \in Programs \cup {"none"}
          PROVE  [NoStory EXCEPT !.program = q] \in StoryRecord
      BY RecordTypes, Zenon DEF StoryRecord
    <3> QED
      BY <2>4, <3>1
  <2> QED
    BY <2>1, <2>2, <2>3, <2>4, <2>5
<1>6. /\ p.state = "blocked" /\ p.owned = FALSE /\ p.id = proc[ctx].id
      /\ p.parent = proc[ctx].parent /\ p.childValid = proc[ctx].childValid
      /\ n.state = "running" /\ n.owned = TRUE /\ n.id = nextId
      /\ n.parent = proc[ctx].id /\ n.childValid = FALSE
      /\ a.execRequested = FALSE /\ a.inFlight = app[ctx].inFlight
      /\ a.ready = app[ctx].ready
  BY <1>1 DEF ProcessRecord, AppRecord, NewProcess, FreeProcess
<1> HIDE DEF p, n, a, t
<1>7. /\ proc'[ctx] = p /\ proc'[depth] = n /\ app'[ctx] = a /\ app'[depth] = FreeApp
      /\ \A s \in Slot : s # ctx /\ s # depth => proc'[s] = proc[s] /\ app'[s] = app[s]
  BY <1>1, <1>2, <1>4 DEF IInv, TypeOK
<1>8. TypeOK'
  <2>1. proc' \in [Slot -> ProcessRecord]
    BY <1>4, <1>5 DEF IInv, TypeOK
  <2>2. app' \in [Slot -> AppRecord]
    BY <1>4, <1>5, RecordTypes DEF IInv, TypeOK
  <2>3. story' \in [Slot -> StoryRecord]
    BY <1>4, <1>5, RecordTypes DEF IInv, TypeOK
  <2>4. stack' \in [Slot -> Nat] /\ nextId' \in Nat /\ depth' \in 0 .. Capacity
    <3>1. stack' \in [Slot -> Nat]
      BY <1>4, <1>5 DEF IInv, TypeOK
    <3> QED
      BY <1>1, <1>4, <1>5, <3>1
  <2> QED
    BY <1>1, <1>2, <1>4, <2>1, <2>2, <2>3, <2>4 DEF IInv, TypeOK
<1>9. (BootClean /\ UpdateContext)'
  BY <1>1, <1>4 DEF BootClean, UpdateContext
<1>10. Live(proc)' = Live(proc) \cup {depth}
  <2>1. proc'[ctx].state # "free" /\ proc'[depth].state # "free"
    BY <1>6, <1>7
  <2>2. ASSUME NEW s \in Slot
        PROVE  proc'[s].state # "free" <=> proc[s].state # "free" \/ s = depth
    BY <1>1, <1>7, <2>1
  <2>3. ASSUME NEW s
        PROVE  s \in Live(proc)' <=> s \in Live(proc) \/ s = depth
    BY <1>2, <2>2, LiveSlot, LiveSlotNext
  <2> QED
    BY <2>3
<1>11. FreshIds'
  <2> SUFFICES ASSUME NEW s \in Live(proc)' PROVE proc'[s].id < nextId'
    BY DEF FreshIds
  <2>1. CASE s = depth
    BY <1>4, <1>5, <1>6, <1>7, <2>1
  <2>2. CASE s # depth
    <3>1. s \in Live(proc) /\ s \in Slot
      BY <1>10, <2>2 DEF Live
    <3>2. proc'[s].id = proc[s].id /\ proc[s].id < nextId /\ proc[s].id \in Nat
      BY <1>1, <1>6, <1>7, <2>2, <3>1 DEF IInv, FreshIds, TypeOK, ProcessRecord
    <3> QED
      BY <1>4, <1>5, <3>2
  <2> QED
    BY <2>1, <2>2
<1>12. ForegroundChain'
  <2>1. depth' >= 1 /\ fg' = depth' - 1 /\ 0 .. depth' - 1 = 0 .. depth
        /\ 0 .. depth = (0 .. depth - 1) \cup {depth}
    BY <1>1, <1>4
  <2>2. Live(proc)' = 0 .. depth' - 1
    BY <1>2, <1>10, <2>1
  <2>3. proc'[fg'].state # "blocked"
    BY <1>4, <1>6, <1>7
  <2>4. \A s \in 0 .. depth - 1 : /\ s \in Slot /\ proc'[s].id = proc[s].id
                                  /\ proc'[s].parent = proc[s].parent
                                  /\ proc'[s].state = "blocked"
                                  /\ stack'[s] = proc'[s].id
                                  /\ proc'[s].id < nextId
                                  /\ s > 0 => proc[s].parent = proc[s - 1].id
    <3> SUFFICES ASSUME NEW s \in 0 .. depth - 1
                 PROVE  /\ s \in Slot /\ proc'[s].id = proc[s].id
                        /\ proc'[s].parent = proc[s].parent
                        /\ proc'[s].state = "blocked"
                        /\ stack'[s] = proc'[s].id
                        /\ proc'[s].id < nextId
                        /\ s > 0 => proc[s].parent = proc[s - 1].id
      OBVIOUS
    <3>1. /\ s \in Slot /\ s # depth /\ s \in Live(proc) /\ stack[s] = proc[s].id
          /\ s < depth - 1 => proc[s].state = "blocked"
          /\ s > 0 => proc[s].parent = proc[s - 1].id
      BY <1>1, <1>2 DEF IInv, ForegroundChain, Slot
    <3>2. stack'[s] = stack[s] /\ proc[s].id < nextId
      BY <1>1, <1>2, <1>4, <3>1 DEF IInv, TypeOK, FreshIds
    <3>3. CASE s = ctx
      BY <1>6, <1>7, <3>1, <3>2, <3>3
    <3>4. CASE s # ctx
      <4>1. s < depth - 1
        BY <1>1, <3>4
      <4> QED
        BY <1>7, <3>1, <3>2, <3>4, <4>1
    <3> QED
      BY <3>3, <3>4
  <2>5. proc'[0].id = 0
    <3>1. 0 \in 0 .. depth - 1 /\ proc[0].id = 0
      BY <1>1 DEF IInv, ForegroundChain
    <3> QED
      BY <2>4, <3>1
  <2>6. stack'[depth] = proc'[depth].id /\ proc'[depth].id = nextId
        /\ proc'[depth].parent = proc'[depth - 1].id
    BY <1>1, <1>2, <1>4, <1>6, <1>7 DEF IInv, TypeOK
  <2>7. ASSUME NEW s \in 0 .. depth' - 1
        PROVE  /\ stack'[s] = proc'[s].id
               /\ s < depth' - 1 => proc'[s].state = "blocked"
               /\ s > 0 => proc'[s].parent = proc'[s - 1].id
               /\ \A r \in 0 .. depth' - 1 : r < s => proc'[r].id < proc'[s].id
    <3>1. CASE s = depth
      <4>1. \A r \in 0 .. depth' - 1 : r < s => r \in 0 .. depth - 1
        BY <1>1, <2>1, <3>1
      <4>2. proc'[s].id = nextId /\ stack'[s] = proc'[s].id
            /\ proc'[s].parent = proc'[s - 1].id
        BY <2>6, <3>1
      <4>3. ~(s < depth' - 1)
        BY <1>1, <1>4, <3>1
      <4>4. \A r \in 0 .. depth - 1 : proc'[r].id < proc'[s].id
        BY <2>4, <4>2
      <4> QED
        BY <4>1, <4>2, <4>3, <4>4
    <3>2. CASE s # depth
      <4>1. s \in 0 .. depth - 1
        BY <1>1, <2>1, <3>2
      <4>2. s > 0 => s - 1 \in 0 .. depth - 1
        BY <1>1, <4>1
      <4>3. \A r \in 0 .. depth' - 1 : r < s => r \in 0 .. depth - 1
        BY <1>1, <2>1, <4>1
      <4>4. \A r \in 0 .. depth - 1 : r < s => proc[r].id < proc[s].id
        BY <1>1, <4>1 DEF IInv, ForegroundChain
      <4> QED
        BY <2>4, <4>1, <4>2, <4>3, <4>4
    <3> QED
      BY <3>1, <3>2
  <2> QED
    BY <2>1, <2>2, <2>3, <2>5, <2>7 DEF ForegroundChain
<1>13. ConsoleFollowsForeground'
  <2>1. \A s \in Slot : s # ctx => ~proc[s].owned
    BY <1>1 DEF IInv, ConsoleFollowsForeground, Slot, NoSlot
  <2>2. \A s \in Slot : proc'[s].owned <=> console' = s
    BY <1>2, <1>4, <1>6, <1>7, <2>1
  <2>3. console' \in {fg', NoSlot} /\ console' # NoSlot
    BY <1>1, <1>4 DEF NoSlot
  <2> QED
    BY <2>2, <2>3 DEF ConsoleFollowsForeground
<1>14. ExecAccounted'
  <2> SUFFICES ASSUME NEW s \in Slot, proc'[s].state # "free"
               PROVE  ExecPlaced(s)'
    BY ExecPlacedNext, LiveSlotNext
  <2>1. CASE s = ctx
    <3>1. ExecPlaced(s)
      BY <1>1, <2>1, ExecPlacedEverywhere, LiveSlot DEF IInv
    <3>2. /\ app'[s].inFlight = app[s].inFlight /\ app'[s].execRequested = FALSE
          /\ app'[s].ready = app[s].ready /\ proc'[s].state = "blocked"
          /\ proc'[s].childValid = proc[s].childValid /\ app[s].execRequested
      BY <1>1, <1>6, <1>7, <2>1
    <3> QED
      BY <3>1, <3>2 DEF ExecPlaced
  <2>2. CASE s = depth
    <3>1. /\ app'[s].inFlight = FALSE /\ app'[s].execRequested = FALSE
          /\ app'[s].ready = FALSE /\ proc'[s].state = "running"
          /\ proc'[s].childValid = FALSE
      BY <1>6, <1>7, <2>2 DEF FreeApp
    <3> QED
      BY <3>1 DEF ExecPlaced
  <2>3. CASE s # ctx /\ s # depth
    <3>1. proc'[s] = proc[s] /\ app'[s] = app[s]
      BY <1>7, <2>3
    <3>2. ExecPlaced(s)
      BY <1>1, <3>1, ExecPlacedEverywhere, LiveSlot DEF IInv
    <3> QED
      BY <3>1, <3>2 DEF ExecPlaced
  <2> QED
    BY <2>1, <2>2, <2>3
<1> QED
  BY <1>8, <1>9, <1>11, <1>12, <1>13, <1>14 DEF IInv

-----------------------------------------------------------------------------
(* The end of an update: panic of process 0, or the return to the parent. *)

LEMMA PanicInv ==
  ASSUME IInv, rt = "tail", rt' = "idle", ctx' = NoSlot,
         proc' = [proc EXCEPT ![fg] = Panicked(@)],
         UNCHANGED <<stack, depth, nextId, fg, console, app, event, phase, story>>
  PROVE  IInv'
<1>1. /\ phase = "up" /\ fg \in Slot /\ proc[fg] \in ProcessRecord
      /\ proc[fg].state \in {"running", "panicked"}
  BY UpdateRecord, UpSlots DEF IInv
<1> DEFINE p == Panicked(proc[fg])
<1>2. proc' = [proc EXCEPT ![fg] = p] /\ p \in ProcessRecord
  BY <1>1, RecordTypes
<1>3. /\ p.state = "panicked" /\ p.id = proc[fg].id /\ p.parent = proc[fg].parent
      /\ p.owned = proc[fg].owned /\ p.childValid = proc[fg].childValid
  BY <1>1 DEF Panicked, ProcessRecord
<1> HIDE DEF p
<1>4. proc' \in [Slot -> ProcessRecord]
  BY <1>2 DEF IInv, TypeOK
<1>5. SameChain /\ SameConsole /\ \A s \in Slot : SameExecOf(s)
  BY <1>1, <1>2, <1>3 DEF IInv, TypeOK, SameChain, SameConsole, SameExecOf
<1>6. (TypeOK /\ BootClean /\ UpdateContext)'
  BY <1>1, <1>4 DEF IInv, TypeOK, BootClean, UpdateContext
<1> QED
  BY <1>5, <1>6, ChainFrame, ConsoleFrame, ExecFrame DEF IInv

(* The parent of the foreground process is in the slot below. *)
LEMMA ParentSlot ==
  ASSUME IInv, phase = "up", proc[fg].id # 0
  PROVE  /\ fg >= 1 /\ fg - 1 \in Slot /\ depth = fg + 1
         /\ Live([proc EXCEPT ![fg] = FreeProcess]) = 0 .. fg - 1
         /\ find_process([proc EXCEPT ![fg] = FreeProcess], stack[fg - 1]) = fg - 1
<1> DEFINE freed == [proc EXCEPT ![fg] = FreeProcess]
<1>1. /\ Capacity \in Nat /\ depth \in 1 .. Capacity /\ fg = depth - 1 /\ fg \in Slot
      /\ Live(proc) = 0 .. depth - 1 /\ 0 .. depth - 1 \subseteq Slot
  BY UpSlots DEF IInv, ForegroundChain
<1>2. fg # 0
  BY DEF IInv, ForegroundChain
<1>3. fg \in Int /\ fg >= 1 /\ depth = fg + 1 /\ fg - 1 \in 0 .. depth - 1 /\ fg - 1 \in Slot
  BY <1>1, <1>2 DEF Slot
<1>4. freed[fg] = FreeProcess /\ \A s \in Slot : s # fg => freed[s] = proc[s]
  BY <1>1 DEF IInv, TypeOK
<1>5. Live(freed) = 0 .. fg - 1
  <2>1. Live(freed) = Live(proc) \ {fg}
    BY <1>4 DEF Live, FreeProcess
  <2>2. (0 .. depth - 1) \ {fg} = 0 .. fg - 1
    BY <1>1, <1>3
  <2> QED
    BY <1>1, <2>1, <2>2
<1>6. fg - 1 \in Live(freed) /\ freed[fg - 1].id = stack[fg - 1]
  BY <1>1, <1>3, <1>4, <1>5 DEF IInv, ForegroundChain
<1>7. \A r \in Live(freed) : freed[r].id = stack[fg - 1] => r = fg - 1
  <2> SUFFICES ASSUME NEW r \in 0 .. fg - 1, r # fg - 1
               PROVE  freed[r].id # stack[fg - 1]
    BY <1>5
  <2>1. /\ r \in 0 .. depth - 1 /\ r < fg - 1 /\ r \in Slot /\ freed[r] = proc[r]
    BY <1>1, <1>3, <1>4
  <2>2. proc[r].id < proc[fg - 1].id /\ stack[fg - 1] = proc[fg - 1].id
    BY <1>1, <1>3, <2>1 DEF IInv, ForegroundChain
  <2>3. proc[r].id \in Nat /\ proc[fg - 1].id \in Nat
    BY <1>3, <2>1 DEF IInv, TypeOK, ProcessRecord
  <2> QED
    BY <2>1, <2>2, <2>3
<1> HIDE DEF freed
<1>8. find_process(freed, stack[fg - 1]) = fg - 1
  BY <1>6, <1>7, FindUnique
<1> QED
  BY <1>3, <1>5, <1>8 DEF freed

LEMMA FinishInv ==
  ASSUME IInv, rt = "tail", rt' = "idle", ctx' = NoSlot, proc[fg].id # 0,
         NEW presented \in BOOLEAN, FinishForeground(presented)
  PROVE  IInv'
<1>1. /\ phase = "up" /\ fg \in Slot /\ proc[fg] \in ProcessRecord
      /\ fg = depth - 1 /\ depth \in 1 .. Capacity /\ Capacity \in Nat
      /\ 0 .. depth - 1 \subseteq Slot
  BY UpdateRecord, UpSlots DEF IInv
<1> DEFINE k == fg - 1
           freed == [proc EXCEPT ![fg] = FreeProcess]
           status == proc[fg].exitStatus
           p == Resumed(freed[k], status, presented)
<1>2. /\ fg >= 1 /\ k \in Slot /\ depth = fg + 1 /\ Live(freed) = 0 .. k
      /\ find_process(freed, stack[k]) = k
  BY <1>1, ParentSlot
<1>3. console \in {fg, NoSlot} /\ ReleasedConsole(console, fg) = NoSlot
      /\ fg # NoSlot /\ k # NoSlot /\ k # fg /\ status \in Int
  BY <1>1, <1>2 DEF IInv, ConsoleFollowsForeground, ReleasedConsole, NoSlot, Slot,
                    ProcessRecord
<1>4. depth > 0 /\ depth - 1 > 0 /\ stack[depth - 1 - 1] = stack[k]
  BY <1>1, <1>2
<1>5. /\ proc' = [freed EXCEPT ![k] = p]
      /\ console' = IF presented THEN k ELSE NoSlot
      /\ event' = TRUE /\ depth' = depth - 1 /\ fg' = k
      /\ app' = [app EXCEPT ![fg] = FreeApp]
      /\ story' = [s \in Slot |->
                    IF s = fg THEN NoStory
                    ELSE IF s = k
                    THEN [story[s] EXCEPT !.ended = TRUE, !.status = status]
                    ELSE story[s]]
      /\ UNCHANGED <<stack, nextId, phase>>
  BY <1>2, <1>3, <1>4 DEF FinishForeground
<1>6. freed \in [Slot -> ProcessRecord] /\ freed[k] = proc[k]
      /\ proc[k] \in ProcessRecord /\ p \in ProcessRecord
  <2>1. freed \in [Slot -> ProcessRecord] /\ freed[k] = proc[k] /\ proc[k] \in ProcessRecord
    BY <1>2, <1>3, RecordTypes DEF IInv, TypeOK
  <2> HIDE DEF freed, status
  <2> QED
    BY <1>3, <2>1, RecordTypes
<1>7. /\ p.state \in {"running", "panicked"} /\ p.id = proc[k].id
      /\ p.parent = proc[k].parent /\ p.owned = presented /\ p.childValid = TRUE
      /\ p.state = "running" /\ ~presented => p.exitRequested
  <2>1. p = Resumed(proc[k], status, presented) /\ proc[k].id \in Nat
    BY <1>6 DEF ProcessRecord
  <2> HIDE DEF p, freed, status, k
  <2>2. CASE presented
    BY <1>6, <2>1, <2>2 DEF Resumed, ProcessRecord
  <2>3. CASE ~presented
    BY <1>6, <2>1, <2>3 DEF Resumed, ProcessRecord
  <2> QED
    BY <2>2, <2>3
<1> HIDE DEF p
<1>8. /\ proc'[fg] = FreeProcess /\ proc'[k] = p /\ app'[fg] = FreeApp
      /\ \A s \in Slot : /\ s # fg => app'[s] = app[s]
                         /\ s # fg /\ s # k => proc'[s] = proc[s]
  BY <1>1, <1>2, <1>3, <1>5, <1>6 DEF IInv, TypeOK
<1>9. TypeOK'
  <2>1. proc' \in [Slot -> ProcessRecord]
    <3> HIDE DEF freed
    <3> QED
      BY <1>5, <1>6
  <2>2. app' \in [Slot -> AppRecord]
    BY <1>5, RecordTypes DEF IInv, TypeOK
  <2>3. story' \in [Slot -> StoryRecord]
    <3>1. ASSUME NEW s \in Slot
          PROVE  [story[s] EXCEPT !.ended = TRUE, !.status = status] \in StoryRecord
      <4>1. story[s] \in StoryRecord /\ status \in Int
        BY <1>3 DEF IInv, TypeOK
      <4> HIDE DEF status
      <4> QED
        BY <4>1, Zenon DEF StoryRecord
    <3> HIDE DEF status, k
    <3> QED
      BY <1>5, <3>1, RecordTypes DEF IInv, TypeOK
  <2>4. depth' \in 0 .. Capacity
    <3>1. depth' = depth - 1
      BY <1>5
    <3> QED
      BY <1>1, <3>1
  <2>5. fg' \in Slot /\ console' \in Slot \cup {NoSlot}
    <3> HIDE DEF k
    <3> QED
      BY <1>2, <1>5
  <2> QED
    BY <1>5, <2>1, <2>2, <2>3, <2>4, <2>5 DEF IInv, TypeOK
<1>10. (BootClean /\ UpdateContext)'
  BY <1>1, <1>5 DEF BootClean, UpdateContext
<1>11. Live(proc)' = 0 .. k
  <2>1. Live(proc)' = Live(freed)
    <3>1. k \in Live(freed)
      <4>1. k \in 0 .. k
        BY <1>1, <1>2
      <4> QED
        BY <1>2, <4>1
    <3>2. \A s \in Slot : (proc'[s].state # "free") <=> (freed[s].state # "free")
      BY <1>1, <1>5, <1>6, <1>7, <1>8, <3>1 DEF Live
    <3> HIDE DEF freed
    <3> QED
      BY <3>2 DEF Live
  <2> QED
    BY <1>2, <2>1
<1>12. \A s \in 0 .. k : /\ s \in Slot /\ s # fg /\ s \in 0 .. depth - 1
                         /\ proc'[s].id = proc[s].id /\ proc'[s].parent = proc[s].parent
                         /\ proc[s].id \in Nat
  <2> SUFFICES ASSUME NEW s \in 0 .. k
               PROVE  /\ s \in Slot /\ s # fg /\ s \in 0 .. depth - 1
                      /\ proc'[s].id = proc[s].id /\ proc'[s].parent = proc[s].parent
                      /\ proc[s].id \in Nat
    OBVIOUS
  <2>1. s \in Slot /\ s # fg /\ s \in 0 .. depth - 1
    BY <1>1, <1>2
  <2>2. proc[s].id \in Nat
    BY <2>1 DEF IInv, TypeOK, ProcessRecord
  <2> QED
    BY <1>7, <1>8, <2>1, <2>2
<1>13. FreshIds'
  <2> SUFFICES ASSUME NEW s \in 0 .. k PROVE proc'[s].id < nextId'
    BY <1>11 DEF FreshIds
  <2>1. proc[s].id < nextId
    BY <1>1, <1>12 DEF IInv, FreshIds, ForegroundChain
  <2> QED
    BY <1>5, <1>12, <2>1
<1>14. ForegroundChain'
  <2>1. depth' >= 1 /\ depth' - 1 = k /\ fg' = depth' - 1
    BY <1>1, <1>2, <1>5
  <2>2. proc'[fg'].state # "blocked"
    BY <1>5, <1>7, <1>8
  <2>3. proc'[0].id = 0
    <3>1. 0 \in 0 .. k
      BY <1>1, <1>2
    <3> QED
      BY <1>1, <1>12, <3>1 DEF IInv, ForegroundChain
  <2>4. ASSUME NEW s \in 0 .. k
        PROVE  /\ stack'[s] = proc'[s].id
               /\ s < k => proc'[s].state = "blocked"
               /\ s > 0 => proc'[s].parent = proc'[s - 1].id
               /\ \A r \in 0 .. k : r < s => proc'[r].id < proc'[s].id
    <3>1. stack'[s] = proc'[s].id
      BY <1>1, <1>5, <1>12 DEF IInv, ForegroundChain
    <3>2. s < k => proc'[s].state = "blocked"
      BY <1>1, <1>2, <1>8, <1>12 DEF IInv, ForegroundChain
    <3>3. s > 0 => proc'[s].parent = proc'[s - 1].id
      <4>1. s > 0 => s - 1 \in 0 .. k
        BY <1>1, <1>2
      <4> QED
        BY <1>1, <1>12, <4>1 DEF IInv, ForegroundChain
    <3>4. \A r \in 0 .. k : r < s => proc'[r].id < proc'[s].id
      BY <1>1, <1>12 DEF IInv, ForegroundChain
    <3> QED
      BY <3>1, <3>2, <3>3, <3>4
  <2> HIDE DEF k
  <2> QED
    BY <1>11, <2>1, <2>2, <2>3, <2>4 DEF ForegroundChain
<1>15. ConsoleFollowsForeground'
  <2>1. \A s \in Slot : s # fg => ~proc[s].owned
    BY <1>3 DEF IInv, ConsoleFollowsForeground, Slot, NoSlot
  <2>2. \A s \in Slot : s # NoSlot
    BY DEF Slot, NoSlot
  <2>3. \A s \in Slot : proc'[s].owned <=> console' = s
    <3> SUFFICES ASSUME NEW s \in Slot PROVE proc'[s].owned <=> console' = s
      OBVIOUS
    <3>1. CASE s = fg
      <4>1. ~FreeProcess.owned
        BY DEF FreeProcess
      <4>2. console' # s
        BY <1>3, <1>5, <3>1
      <4> QED
        BY <1>8, <3>1, <4>1, <4>2
    <3>2. CASE s = k
      BY <1>3, <1>5, <1>7, <1>8, <3>2
    <3>3. CASE s # fg /\ s # k
      <4>1. proc'[s] = proc[s] /\ ~proc[s].owned
        BY <1>8, <2>1, <3>3
      <4>2. console' # s
        BY <1>5, <2>2, <3>3
      <4> QED
        BY <4>1, <4>2
    <3> QED
      BY <3>1, <3>2, <3>3
  <2>4. console' \in {fg', NoSlot}
        /\ (proc'[fg'].state = "running" /\ console' = NoSlot => proc'[fg'].exitRequested)
    BY <1>3, <1>5, <1>7, <1>8
  <2> QED
    BY <2>3, <2>4 DEF ConsoleFollowsForeground
<1>16. ExecAccounted'
  <2> SUFFICES ASSUME NEW s \in Slot, proc'[s].state # "free"
               PROVE  ExecPlaced(s)'
    BY ExecPlacedNext, LiveSlotNext
  <2>1. s # fg
    BY <1>8 DEF FreeProcess
  <2>2. CASE s = k
    <3>1. proc[k].state = "blocked"
      BY <1>1, <1>2 DEF IInv, ForegroundChain
    <3>2. ExecPlaced(s)
      BY <1>1, <2>2, <3>1, ExecPlacedEverywhere, LiveSlot DEF IInv
    <3>3. /\ app'[s] = app[s] /\ proc'[s].childValid = TRUE
          /\ proc'[s].state # "blocked" /\ proc[s].state = "blocked"
      BY <1>7, <1>8, <2>1, <2>2, <3>1
    <3> QED
      BY <3>2, <3>3 DEF ExecPlaced
  <2>3. CASE s # k
    <3>1. proc'[s] = proc[s] /\ app'[s] = app[s]
      BY <1>8, <2>1, <2>3
    <3>2. ExecPlaced(s)
      BY <1>1, <3>1, ExecPlacedEverywhere, LiveSlot DEF IInv
    <3> QED
      BY <3>1, <3>2 DEF ExecPlaced
  <2> QED
    BY <2>2, <2>3
<1> QED
  BY <1>9, <1>10, <1>13, <1>14, <1>15, <1>16 DEF IInv

LEMMA TailInv == IInv /\ Tail => IInv'
<1> SUFFICES ASSUME IInv, Tail PROVE IInv'
  OBVIOUS
<1>1. /\ rt = "tail" /\ rt' = "idle" /\ ctx' = NoSlot /\ phase = "up"
  BY UpdateRecord DEF Tail
<1>2. CASE ~proc[ctx].exitRequested
  <2>1. UNCHANGED <<table, app, event, phase, story>>
    BY <1>2 DEF Tail
  <2>2. (TypeOK /\ BootClean /\ UpdateContext)'
    BY <1>1, <2>1 DEF IInv, TypeOK, BootClean, UpdateContext, table
  <2> QED
    BY <2>1, <2>2, TableFrame DEF IInv
<1>3. CASE proc[ctx].exitRequested /\ proc[fg].id = 0
  <2>1. /\ proc' = [proc EXCEPT ![fg] = Panicked(@)]
        /\ UNCHANGED <<stack, depth, nextId, fg, console, app, event, phase, story>>
    BY <1>3 DEF Tail
  <2> QED
    BY <1>1, <2>1, PanicInv
<1>4. CASE proc[ctx].exitRequested /\ proc[fg].id # 0
  <2>1. PICK presented \in BOOLEAN : FinishForeground(presented)
    BY <1>4 DEF Tail
  <2> QED
    BY <1>1, <1>4, <2>1, FinishInv
<1> QED
  BY <1>2, <1>3, <1>4

-----------------------------------------------------------------------------
(* The theorems. *)

LEMMA StutterInv == IInv /\ UNCHANGED vars => IInv'
<1> SUFFICES ASSUME IInv, UNCHANGED vars PROVE IInv'
  OBVIOUS
<1>1. UNCHANGED <<table, app, phase>>
  BY DEF vars, table
<1>2. (TypeOK /\ BootClean /\ UpdateContext)'
  BY DEF vars, IInv, TypeOK, BootClean, UpdateContext
<1> QED
  BY <1>1, <1>2, TableFrame DEF IInv

LEMMA NextInv == IInv /\ [Next]_vars => IInv'
<1> SUFFICES ASSUME IInv, [Next]_vars PROVE IInv'
  OBVIOUS
<1>1. CASE Boot
  BY <1>1, BootInv
<1>2. CASE ShutDown
  BY <1>2, ShutDownInv
<1>3. CASE BeginUpdate
  BY <1>3, BeginUpdateInv
<1>4. CASE UpdateStep
  <2>1. CASE LaunchStep
    BY <2>1, LaunchRejectedInv, LaunchChildInv, LaunchFailsInv DEF LaunchStep
  <2> QED
    BY <1>4, <2>1, TakeChildStatusInv, NoRequestInv, TakeExitInv, StepInv,
       FaultInv, ReturnedInv, TailInv DEF UpdateStep
<1>5. CASE \E status \in Statuses : ForceTerminate(status)
  BY <1>5, ForceTerminateInv
<1>6. CASE \E s \in Slot : AppStep(s)
  <2>1. PICK s \in Slot : AppStep(s)
    BY <1>6
  <2>2. PICK p \in Programs : TRUE
    BY ProgramsAssumption
  <2> QED
    BY <2>1, <2>2, AppCallInv, AppEndInv DEF AppStep
<1>7. CASE UNCHANGED vars
  BY <1>7, StutterInv
<1> QED
  BY <1>1, <1>2, <1>3, <1>4, <1>5, <1>6, <1>7 DEF Next, Stopped

(* The inductive invariant: an update works on the foreground process, ids are
   fresh, the stack is the chain of parents, the console follows it and every
   exec is accounted for. *)
THEOREM Invariance == Spec => []IInv
<1>1. Init => IInv
  BY InitInv
<1>2. IInv /\ [Next]_vars => IInv'
  BY NextInv
<1> QED
  BY <1>1, <1>2, PTL DEF Spec

(* The process table, the console and the programs keep their types: no slot
   index, stack entry or depth ever leaves the table's capacity. *)
THEOREM TypeCorrect == Spec => []TypeOK
<1>1. IInv => TypeOK
  BY DEF IInv
<1> QED
  BY <1>1, Invariance, PTL

(* The foreground stack of process.c is always the chain of parents, at every
   capacity: parents are found again when children end. *)
THEOREM StackIsTheChain == Spec => []ForegroundChain
<1>1. IInv => ForegroundChain
  BY DEF IInv
<1> QED
  BY <1>1, Invariance, PTL

(* The console session follows the foreground process through every launch,
   unwinding, failed acquisition and shutdown. *)
THEOREM ConsoleIsForegrounds == Spec => []ConsoleFollowsForeground
<1>1. IInv => ConsoleFollowsForeground
  BY DEF IInv
<1> QED
  BY <1>1, Invariance, PTL

(* An exec accepted by elf_exec is never lost and never answered twice. *)
THEOREM ExecNeverLost == Spec => []ExecAccounted
<1>1. IInv => ExecAccounted
  BY DEF IInv
<1> QED
  BY <1>1, Invariance, PTL

-----------------------------------------------------------------------------
(* What a single step may do to the process table. *)

(* A process keeps its id and its parent for as long as it is loaded. *)
SameLineage ==
  \A s \in Slot :
    proc[s].state # "free" /\ proc'[s].state # "free" =>
      proc'[s].id = proc[s].id /\ proc'[s].parent = proc[s].parent

(* Process 0 has no parent, and every child sits above its parent. *)
ParentsBelow ==
  /\ phase = "up" => proc[0].parent = -1
  /\ \A s, r \in Slot :
       /\ proc[s].state # "free" /\ proc[r].state # "free"
       /\ proc[r].parent = proc[s].id
       => s < r

(* The slots in use are the lowest ones. *)
NoGap == \E n \in 0 .. Capacity : Live(proc) = 0 .. n - 1

(* Both hold while the slots are destroyed too, when the foreground stack is no
   longer kept. *)
Lineage == ParentsBelow /\ NoGap

-----------------------------------------------------------------------------
(* Ids and parents. *)

(* A step that leaves the table alone. *)
LEMMA SameTable == proc' = proc => SameLineage
BY DEF SameLineage

LEMMA SlotRecord ==
  ASSUME IInv, NEW s \in Slot
  PROVE  proc[s] \in ProcessRecord
BY DEF IInv, TypeOK

(* A record changed in place. *)
LEMMA ChangedRecord ==
  ASSUME IInv, NEW s, NEW p, proc' = [proc EXCEPT ![s] = p],
         s \in Slot => p.id = proc[s].id /\ p.parent = proc[s].parent
  PROVE  SameLineage
BY DEF IInv, TypeOK, SameLineage

LEMMA FailLineage ==
  ASSUME IInv, NEW cause, NEW status, Fail(cause, status)
  PROVE  SameLineage
<1>1. proc' = [proc EXCEPT ![fg] = [@ EXCEPT !.cause = cause, !.exitRequested = TRUE,
                                            !.exitStatus = status]]
  BY DEF Fail, IInv, TypeOK, ProcessRecord
<1> QED
  BY <1>1 DEF IInv, TypeOK, ProcessRecord, SameLineage

LEMMA ResumedLineage ==
  ASSUME NEW p \in ProcessRecord, NEW status, NEW shown
  PROVE  Resumed(p, status, shown).id = p.id /\ Resumed(p, status, shown).parent = p.parent
BY DEF Resumed, ProcessRecord

LEMMA LaunchFailsLineage ==
  ASSUME IInv, NEW presented, LaunchFails(presented)
  PROVE  SameLineage
<1> DEFINE shown == presented /\ ReleasedConsole(console, ctx) = NoSlot
           parent == [proc[ctx] EXCEPT !.state = "blocked", !.owned = FALSE]
           p == [Resumed(parent, Failure, shown) EXCEPT !.childValid = FALSE]
<1>1. proc' = [proc EXCEPT ![ctx] = p]
  BY DEF LaunchFails
<1>2. ASSUME ctx \in Slot PROVE p.id = proc[ctx].id /\ p.parent = proc[ctx].parent
  <2>1. proc[ctx] \in ProcessRecord
    BY <1>2, SlotRecord
  <2>2. parent \in ProcessRecord /\ parent.id = proc[ctx].id /\ parent.parent = proc[ctx].parent
    BY <2>1 DEF ProcessRecord
  <2> HIDE DEF parent
  <2> QED
    BY <2>2 DEF Resumed, ProcessRecord
<1> HIDE DEF p
<1> QED
  BY <1>1, <1>2, ChangedRecord

LEMMA LaunchChildLineage ==
  ASSUME IInv, LaunchChild
  PROVE  SameLineage
<1>1. /\ ctx \in Slot /\ phase = "up" /\ rt = "exec" /\ depth < Capacity
      /\ Live(proc) = 0 .. depth - 1 /\ depth \in 1 .. Capacity /\ Capacity \in Nat
  BY UpdateRecord, UpSlots DEF IInv, ForegroundChain, LaunchChild, CanLaunch
<1>2. free_process_slot = depth /\ depth \in Slot /\ depth \notin Live(proc)
  BY <1>1, FirstFreeSlot DEF Slot
<1>3. proc' = [proc EXCEPT ![ctx].state = "blocked", ![ctx].owned = FALSE,
                           ![depth] = NewProcess(nextId, proc[ctx].id)]
  BY <1>2 DEF LaunchChild
<1>4. proc[depth].state = "free"
  BY <1>2 DEF Live
<1> QED
  BY <1>1, <1>3, <1>4, SlotRecord DEF IInv, TypeOK, ProcessRecord, SameLineage

LEMMA FinishLineage ==
  ASSUME IInv, phase = "up", proc[fg].id # 0, NEW presented, FinishForeground(presented)
  PROVE  SameLineage
<1> DEFINE freed == [proc EXCEPT ![fg] = FreeProcess]
           k == fg - 1
           shown == presented /\ ReleasedConsole(console, fg) = NoSlot
           p == Resumed(freed[k], proc[fg].exitStatus, shown)
<1>1. /\ fg \in Slot /\ k \in Slot /\ k # fg /\ k # NoSlot
      /\ depth > 0 /\ depth - 1 > 0 /\ depth - 1 = fg
      /\ find_process(freed, stack[k]) = k /\ stack[depth - 1 - 1] = stack[k]
  BY UpSlots, ParentSlot DEF IInv, Slot, NoSlot
<1>2. proc' = [freed EXCEPT ![k] = p]
  BY <1>1 DEF FinishForeground
<1>3. freed \in [Slot -> ProcessRecord] /\ freed[fg].state = "free"
      /\ \A s \in Slot : s # fg => freed[s] = proc[s]
  BY <1>1, RecordTypes DEF IInv, TypeOK, FreeProcess
<1>4. p.id = freed[k].id /\ p.parent = freed[k].parent
  <2>1. freed[k] \in ProcessRecord
    BY <1>1, <1>3
  <2> HIDE DEF freed, shown
  <2> QED
    BY <2>1, ResumedLineage
<1> HIDE DEF freed, k, p
<1>5. ASSUME NEW s \in Slot
      PROVE  /\ proc'[s].id = freed[s].id /\ proc'[s].parent = freed[s].parent
             /\ s # k => proc'[s] = freed[s]
  BY <1>1, <1>2, <1>3, <1>4
<1> QED
  BY <1>1, <1>3, <1>5 DEF SameLineage

LEMMA ProgramTable ==
  ASSUME NEW s, AppStep(s)
  PROVE  proc' = proc /\ phase' = phase
BY DEF AppStep, AppExec, AppSpawn, AppWait, AppExit, AppReturn, table

LEMMA UpdateLineage ==
  ASSUME IInv, UpdateStep
  PROVE  SameLineage /\ phase' = phase
<1>1. CASE TakeChildStatus
  <2>1. \/ proc' = proc
        \/ proc' = [proc EXCEPT ![ctx] = [@ EXCEPT !.childValid = FALSE]]
    BY <1>1 DEF TakeChildStatus
  <2> QED
    BY <1>1, <2>1, SameTable DEF IInv, TypeOK, ProcessRecord, SameLineage, TakeChildStatus
<1>2. CASE NoExecRequest \/ NoExit \/ Step \/ LaunchRejected
  BY <1>2, SameTable DEF NoExecRequest, NoExit, Step, LaunchRejected, table
<1>3. CASE LaunchChild
  BY <1>3, LaunchChildLineage DEF LaunchChild
<1>4. CASE \E presented \in BOOLEAN : LaunchFails(presented)
  BY <1>4, LaunchFailsLineage DEF LaunchFails
<1>5. CASE TakeExit
  <2>1. \E cause, status :
          proc' = [proc EXCEPT ![ctx] = [@ EXCEPT !.cause = cause, !.exitRequested = TRUE,
                                                  !.exitStatus = status]]
    <3>1. ctx \in Slot
      BY <1>5, UpdateRecord DEF TakeExit
    <3> DEFINE cause == IF proc[ctx].cause = "none" THEN "exit" ELSE proc[ctx].cause
               status == app[ctx].exitValue
    <3>2. proc' = [proc EXCEPT ![ctx] = [@ EXCEPT !.cause = cause, !.exitRequested = TRUE,
                                                  !.exitStatus = status]]
      BY <1>5, <3>1 DEF TakeExit, IInv, TypeOK, ProcessRecord
    <3> QED
      BY <3>2
  <2> QED
    BY <1>5, <2>1 DEF IInv, TypeOK, ProcessRecord, SameLineage, TakeExit
<1>6. CASE StepFaults \/ Returned
  BY <1>6, FailLineage, SameTable DEF StepFaults, Returned, table
<1>7. CASE Tail
  <2>1. phase = "up"
    BY <1>7, UpdateRecord DEF Tail
  <2>2. CASE ~proc[ctx].exitRequested
    BY <1>7, <2>2, SameTable DEF Tail, table
  <2>3. CASE proc[ctx].exitRequested /\ proc[fg].id = 0
    <3>1. proc' = [proc EXCEPT ![fg] = Panicked(@)] /\ phase' = phase
      BY <1>7, <2>3 DEF Tail
    <3> QED
      BY <3>1 DEF Panicked, IInv, TypeOK, ProcessRecord, SameLineage
  <2>4. CASE proc[ctx].exitRequested /\ proc[fg].id # 0
    <3>1. PICK presented \in BOOLEAN : FinishForeground(presented)
      BY <1>7, <2>4 DEF Tail
    <3> QED
      BY <2>1, <2>4, <3>1, FinishLineage DEF FinishForeground
  <2> QED
    BY <2>2, <2>3, <2>4
<1> QED
  BY <1>1, <1>2, <1>3, <1>4, <1>5, <1>6, <1>7 DEF UpdateStep, LaunchStep

(* What the steps outside shutdown and start-up do. *)
LEMMA StepLineage ==
  ASSUME IInv, [Next]_vars
  PROVE  \/ Boot
         \/ ShutDown
         \/ SameLineage /\ phase' = phase /\ (phase # "up" => proc' = proc)
<1>1. CASE BeginUpdate
  BY <1>1, SameTable DEF BeginUpdate, table
<1>2. CASE UpdateStep
  <2>1. phase = "up"
    BY <1>2, UpdateRecord
    DEF UpdateStep, LaunchStep, TakeChildStatus, NoExecRequest, LaunchRejected, LaunchChild,
        CanLaunch, LaunchFails, TakeExit, NoExit, Step, StepFaults, Returned, Tail
  <2> QED
    BY <1>2, <2>1, UpdateLineage
<1>3. CASE \E status \in Statuses : ForceTerminate(status)
  BY <1>3, FailLineage DEF ForceTerminate
<1>4. CASE \E s \in Slot : AppStep(s)
  BY <1>4, ProgramTable, SameTable
<1>5. CASE UNCHANGED vars
  BY <1>5, SameTable DEF vars
<1> QED
  BY <1>1, <1>2, <1>3, <1>4, <1>5 DEF Next, Stopped
-----------------------------------------------------------------------------
(* Children sit above their parents. *)

(* Facts about the slots of a chain of d processes, e of which are left. *)
LEMMA LowestSlot ==
  ASSUME NEW d \in Nat, d >= 1
  PROVE  0 \in 0 .. d - 1
OBVIOUS

LEMMA LowerSlot ==
  ASSUME NEW d \in Nat, NEW e \in Nat, NEW s \in 0 .. d - 1, ~(s \in 0 .. e - 1),
         NEW r \in 0 .. e - 1
  PROVE  r < s /\ r \in 0 .. d - 1
OBVIOUS

LEMMA ChainLineage ==
  TypeOK /\ ForegroundChain /\ phase = "up" /\ proc[0].parent = -1 => Lineage
<1>0. TypeOK /\ ForegroundChain /\ phase = "up" => NoGap
  BY UpSlots DEF NoGap, ForegroundChain
<1> SUFFICES ASSUME TypeOK, ForegroundChain, phase = "up", proc[0].parent = -1,
                    NEW s \in Live(proc), NEW r \in Live(proc),
                    proc[r].parent = proc[s].id
             PROVE  s < r
  BY <1>0 DEF Lineage, ParentsBelow, Live
<1>1. s \in 0 .. depth - 1 /\ r \in 0 .. depth - 1 /\ depth \in Nat /\ s \in Slot /\ r \in Slot
  BY UpSlots DEF ForegroundChain
<1>2. proc[s].id \in Nat
  BY <1>1 DEF TypeOK, ProcessRecord
<1>3. r > 0
  BY <1>1, <1>2
<1>4. r - 1 \in 0 .. depth - 1 /\ r - 1 \in Slot /\ proc[r - 1].id = proc[s].id
  BY <1>1, <1>3, UpSlots DEF ForegroundChain
<1>5. ~(r - 1 < s)
  BY <1>1, <1>2, <1>4 DEF ForegroundChain
<1> QED
  BY <1>1, <1>5

LEMMA DestroyHighestSlot ==
  ASSUME IInv, NoGap, DestroyHighest
  PROVE  \E n \in 1 .. Capacity : /\ Live(proc) = 0 .. n - 1
                                  /\ proc'[n - 1].state = "free"
                                  /\ \A r \in Slot : r # n - 1 => proc'[r] = proc[r]
                                  /\ phase' # "up"
<1> DEFINE s == CHOOSE s \in Live(proc) : \A r \in Live(proc) : r <= s
<1>1. /\ proc' = [proc EXCEPT ![s] = FreeProcess] /\ Live(proc) # {}
      /\ phase' = "stopping"
  BY DEF DestroyHighest
<1>2. PICK n \in 0 .. Capacity : Live(proc) = 0 .. n - 1
  BY DEF NoGap
<1>3. Capacity \in Nat /\ n \in 1 .. Capacity /\ n - 1 \in Live(proc)
  BY <1>1, <1>2, CapacityAssumption
<1>4. \A r \in Live(proc) : r <= n - 1 /\ r \in Int
  BY <1>2, <1>3
<1>5. s = n - 1
  BY <1>3, <1>4
<1> HIDE DEF s
<1> QED
  BY <1>1, <1>2, <1>3, <1>5 DEF Live, IInv, TypeOK, FreeProcess

LEMMA LineageInit == Init => Lineage
<1> SUFFICES ASSUME Init PROVE Lineage
  OBVIOUS
<1>1. Live(proc) = {} /\ phase = "boot"
  BY DEF Init, Live, FreeProcess
<1>2. 0 \in 0 .. Capacity /\ 0 .. 0 - 1 = {}
  BY CapacityAssumption
<1> QED
  BY <1>1, <1>2 DEF Lineage, ParentsBelow, NoGap, Live

LEMMA LineageNext == IInv /\ Lineage /\ [Next]_vars => Lineage'
<1> SUFFICES ASSUME IInv, Lineage, [Next]_vars PROVE Lineage'
  OBVIOUS
<1>1. (TypeOK /\ ForegroundChain)'
  BY NextInv DEF IInv
<1>2. (TypeOK /\ ForegroundChain /\ phase = "up" /\ proc[0].parent = -1 => Lineage)'
  BY ChainLineage, PTL
<1>3. ASSUME proc' = proc, phase' # "up" PROVE Lineage'
  BY <1>3 DEF Lineage, ParentsBelow, NoGap, Live
<1>4. CASE Boot
  <2>1. CASE LaunchRoot
    <3>1. proc = [s \in Slot |-> FreeProcess] /\ Capacity \in Nat \ {0} /\ 0 \in Slot
      BY <2>1, CapacityAssumption DEF LaunchRoot, IInv, BootClean, Slot
    <3>2. Live(proc) = 0 .. 0 - 1
      BY <3>1 DEF Live, FreeProcess
    <3>3. free_process_slot = 0
      <4>1. 0 \in 0 .. Capacity - 1
        BY <3>1
      <4> QED
        BY <3>2, <4>1, FirstFreeSlot
    <3>4. proc' = [proc EXCEPT ![0] = NewProcess(0, -1)] /\ phase' = "up"
      BY <2>1, <3>3 DEF LaunchRoot
    <3>5. proc'[0].parent = -1
      BY <3>1, <3>4 DEF NewProcess, FreeProcess
    <3> QED
      BY <1>1, <1>2, <3>4, <3>5
  <2>2. CASE LaunchRootFails
    BY <1>3, <2>2 DEF LaunchRootFails
  <2> QED
    BY <1>4, <2>1, <2>2 DEF Boot
<1>5. CASE ShutDown
  <2>1. CASE BeginShutdown \/ EndShutdown
    BY <1>3, <2>1 DEF BeginShutdown, EndShutdown, table
  <2>2. CASE DestroyHighest
    <3>1. PICK n \in 1 .. Capacity : /\ Live(proc) = 0 .. n - 1
                                     /\ proc'[n - 1].state = "free"
                                     /\ \A r \in Slot : r # n - 1 => proc'[r] = proc[r]
                                     /\ phase' # "up"
      BY <2>2, DestroyHighestSlot DEF Lineage
    <3>2. Capacity \in Nat /\ n - 1 \in 0 .. Capacity
      BY CapacityAssumption
    <3>3. Live(proc)' = Live(proc) \ {n - 1}
      BY <3>1 DEF Live
    <3>4. Live(proc)' = 0 .. (n - 1) - 1
      BY <3>1, <3>2, <3>3
    <3>5. NoGap'
      BY <3>2, <3>4 DEF NoGap
    <3>6. ParentsBelow'
      BY <3>1 DEF Lineage, ParentsBelow
    <3> QED
      BY <3>5, <3>6 DEF Lineage
  <2> QED
    BY <1>5, <2>1, <2>2 DEF ShutDown
<1>6. CASE SameLineage /\ phase' = phase /\ (phase # "up" => proc' = proc)
  <2>1. CASE phase # "up"
    BY <1>3, <1>6, <2>1
  <2>2. CASE phase = "up"
    <3>1. phase' = "up" /\ 0 \in Live(proc) /\ 0 \in Live(proc)'
      <4>1. phase' = "up"
        BY <1>6, <2>2
      <4>2. 0 \in 0 .. depth - 1
        BY <2>2, UpSlots DEF IInv
      <4>3. 0 \in Live(proc)'
        <5>1. depth' \in 0 .. Capacity /\ Capacity \in Nat
          BY <1>1, CapacityAssumption DEF TypeOK
        <5>2. depth' >= 1 /\ Live(proc)' = 0 .. depth' - 1
          BY <1>1, <4>1 DEF ForegroundChain
        <5>3. depth' \in Nat
          BY <5>1
        <5> QED
          BY <5>2, <5>3, LowestSlot
      <4> QED
        BY <2>2, <4>1, <4>2, <4>3 DEF IInv, ForegroundChain
    <3>2. proc'[0].parent = -1
      BY <1>6, <2>2, <3>1 DEF SameLineage, Live, Lineage, ParentsBelow
    <3> QED
      BY <1>1, <1>2, <3>1, <3>2
  <2> QED
    BY <2>1, <2>2
<1> QED
  BY <1>4, <1>5, <1>6, StepLineage
-----------------------------------------------------------------------------
(* Which process a step may unload. *)

(* The body of ChildrenFirst. *)
UnloadsLeaf ==
  \A s \in Slot :
    proc[s].state # "free" /\ proc'[s].state = "free" =>
      \A r \in Slot : proc'[r].state # "free" => proc'[r].parent # proc[s].id

LEMMA UnloadsLeafStep == IInv /\ Lineage /\ [Next]_vars => UnloadsLeaf
<1> SUFFICES ASSUME IInv, Lineage, [Next]_vars,
                    NEW s \in Slot, proc[s].state # "free", proc'[s].state = "free",
                    NEW r \in Slot, proc'[r].state # "free"
             PROVE  proc'[r].parent # proc[s].id
  BY DEF UnloadsLeaf
<1>1. CASE Boot
  BY <1>1 DEF Boot, LaunchRoot, LaunchRootFails, IInv, BootClean, FreeProcess
<1>2. CASE ShutDown
  <2>1. CASE BeginShutdown \/ EndShutdown
    BY <2>1 DEF BeginShutdown, EndShutdown, table
  <2>2. CASE DestroyHighest
    <3>1. PICK n \in 1 .. Capacity : /\ Live(proc) = 0 .. n - 1
                                     /\ proc'[n - 1].state = "free"
                                     /\ \A t \in Slot : t # n - 1 => proc'[t] = proc[t]
      BY <2>2, DestroyHighestSlot DEF Lineage
    <3>2. Capacity \in Nat /\ s = n - 1
      BY <3>1, CapacityAssumption
    <3>3. r \in 0 .. n - 1 /\ proc'[r] = proc[r] /\ proc[r].state # "free"
      BY <3>1 DEF Live
    <3>4. ~(s < r)
      BY <3>2, <3>3
    <3> QED
      BY <3>3, <3>4 DEF Lineage, ParentsBelow
  <2> QED
    BY <1>2, <2>1, <2>2 DEF ShutDown
<1>3. CASE SameLineage /\ phase' = phase /\ (phase # "up" => proc' = proc)
  <2>1. phase = "up" /\ phase' = "up"
    BY <1>3
  <2>2. /\ Live(proc) = 0 .. depth - 1 /\ depth \in Nat
        /\ Live(proc)' = 0 .. depth' - 1 /\ depth' \in Nat
    <3>1. (TypeOK /\ ForegroundChain)'
      BY NextInv DEF IInv
    <3> QED
      BY <2>1, <3>1, CapacityAssumption DEF IInv, TypeOK, ForegroundChain
  <2>3. s \in 0 .. depth - 1 /\ ~(s \in 0 .. depth' - 1) /\ r \in 0 .. depth' - 1
    BY <2>2 DEF Live
  <2>4. r < s /\ r \in Live(proc)
    <3>1. depth \in Nat /\ depth' \in Nat /\ Live(proc) = 0 .. depth - 1
      BY <2>2
    <3>2. r < s /\ r \in 0 .. depth - 1
      BY <2>3, <3>1, LowerSlot
    <3> QED
      BY <3>1, <3>2
  <2>5. proc'[r].parent = proc[r].parent /\ ~(s < r)
    BY <1>3, <2>3, <2>4 DEF SameLineage, Live
  <2> QED
    BY <2>4, <2>5 DEF Lineage, ParentsBelow, Live
<1> QED
  BY <1>1, <1>2, <1>3, StepLineage

(* finish_child_process and the loop of kernel_application_system_shutdown unload
   a process only when none of its children is loaded. *)
THEOREM ChildrenEndFirst == Spec => ChildrenFirst
<1>1. Init => IInv /\ Lineage
  BY InitInv, LineageInit
<1>2. IInv /\ Lineage /\ [Next]_vars => (IInv /\ Lineage)'
  BY NextInv, LineageNext
<1>3. IInv /\ Lineage /\ [Next]_vars => [UnloadsLeaf]_vars
  BY UnloadsLeafStep
<1>4. [][UnloadsLeaf]_vars => ChildrenFirst
  BY DEF UnloadsLeaf, ChildrenFirst
<1> QED
  BY <1>1, <1>2, <1>3, <1>4, PTL DEF Spec

-----------------------------------------------------------------------------
(* Every status is true: how a process ended, and what became of an exec. *)

(* The cause of an end fits the program, and the status fits the cause. A program
   that has asked to exit has its flag set until that has become the cause; a
   process that waits for a child has no cause yet. *)
EndOf(s) ==
  /\ proc[s].cause # "none" => proc[s].exitRequested \/ proc[s].state = "panicked"
  /\ proc[s].cause = "none" /\ proc[s].exitRequested => proc[s].exitStatus = Failure
  /\ proc[s].state = "blocked" => ~proc[s].exitRequested
  /\ app[s].exitFlag => app[s].call = "exited"
  /\ app[s].call = "exited" => app[s].exitFlag \/ proc[s].cause # "none"
  /\ proc[s].cause = "exit" => app[s].call = "exited" /\ proc[s].exitStatus = app[s].exitValue
  /\ proc[s].cause = "return" => /\ app[s].call # "exited" /\ app[s].task = "returned"
                                 /\ proc[s].exitStatus = app[s].returned
  /\ proc[s].cause = "fault" => proc[s].exitStatus = FaultStatus

(* An update serves a program that nothing has ended yet. *)
Unended ==
  /\ rt \in {"take", "exec"} => ~proc[ctx].exitRequested
  /\ rt \in {"take", "exec", "exit", "step", "returned"} => proc[ctx].cause = "none"
  /\ rt = "returned" => app[ctx].task = "returned"
  /\ rt = "tail" => ctx = fg \/ proc[ctx].state = "blocked"

Endings == Unended /\ (phase = "up" => \A s \in Slot : proc[s].state # "free" => EndOf(s))

(* An answer that waits for its call is the one of the program last run. *)
AnswerOf(s) ==
  /\ proc[s].state = "free" => ~app[s].ready /\ ~app[s].inFlight
  /\ app[s].ready => /\ app[s].inFlight
                     /\ story[s] = [program |-> app[s].path, ended |-> TRUE,
                                    status |-> app[s].execStatus]

(* A request in flight is for the program that the call in progress, or the one
   that is owed for a spawn, names. *)
CallOf(s) ==
  /\ app[s].spawned => app[s].want \in Programs
  /\ app[s].inFlight =>
       /\ app[s].path = app[s].want
       /\ app[s].call \in {"exec", "wait"} \/ app[s].spawned

(* So is the child a process waits for, and the status it left. *)
ChildOf(s) ==
  /\ proc[s].childValid => story[s] = [program |-> app[s].path, ended |-> TRUE,
                                       status |-> proc[s].childStatus]
  /\ proc[s].state = "blocked" => story[s].program = app[s].path

Stories ==
  /\ \A s \in Slot : AnswerOf(s) /\ CallOf(s)
  /\ phase = "up" => \A s \in Slot : proc[s].state # "free" => ChildOf(s)

(* What a step may change without disturbing them. *)
SameEnd(s) ==
  /\ proc'[s].cause = proc[s].cause /\ proc'[s].exitRequested = proc[s].exitRequested
  /\ proc'[s].exitStatus = proc[s].exitStatus /\ proc'[s].state = proc[s].state
  /\ app'[s].exitFlag = app[s].exitFlag /\ app'[s].call = app[s].call
  /\ app'[s].exitValue = app[s].exitValue /\ app'[s].task = app[s].task
  /\ app'[s].returned = app[s].returned

SameStory(s) ==
  /\ proc'[s].state = "free" <=> proc[s].state = "free"
  /\ proc'[s].state = "blocked" <=> proc[s].state = "blocked"
  /\ proc'[s].childValid = proc[s].childValid /\ proc'[s].childStatus = proc[s].childStatus
  /\ app'[s].ready = app[s].ready /\ app'[s].execStatus = app[s].execStatus
  /\ app'[s].inFlight = app[s].inFlight /\ app'[s].path = app[s].path
  /\ app'[s].want = app[s].want /\ app'[s].spawned = app[s].spawned
  /\ app[s].call \in {"exec", "wait"} => app'[s].call = app[s].call
  /\ story'[s] = story[s]

Same(s) == proc'[s] = proc[s] /\ app'[s] = app[s] /\ story'[s] = story[s]

LEMMA SameAll ==
  ASSUME NEW s, Same(s)
  PROVE  SameEnd(s) /\ SameStory(s)
BY DEF Same, SameEnd, SameStory

LEMMA EndFrame ==
  ASSUME NEW s, SameEnd(s), EndOf(s)
  PROVE  EndOf(s)'
BY Zenon DEF SameEnd, EndOf

LEMMA StoryFrame ==
  ASSUME NEW s, SameStory(s), AnswerOf(s) /\ CallOf(s)
  PROVE  (AnswerOf(s) /\ CallOf(s))' /\ (ChildOf(s) => ChildOf(s)')
BY DEF SameStory, AnswerOf, CallOf, ChildOf

(* What a step shows of the processes it unloads and of the calls it answers: the
   bodies of EndsAsItEnded and ExecReturnsChildStatus *)
Unloads(s) ==
  phase = "up" /\ proc[s].state # "free" /\ proc'[s].state = "free" =>
    /\ proc[s].cause = "exit" =>
         app[s].call = "exited" /\ proc[s].exitStatus = app[s].exitValue
    /\ proc[s].cause = "return" =>
         app[s].call # "exited" /\ proc[s].exitStatus = app[s].returned
    /\ proc[s].cause = "fault" => proc[s].exitStatus = FaultStatus
    /\ proc[s].cause = "none" => proc[s].exitStatus = Failure

AnswersTo(s) ==
  app[s].ready /\ proc'[s].state # "free" /\ ~app'[s].ready =>
    /\ story[s] = [program |-> app'[s].want, ended |-> TRUE, status |-> app[s].execStatus]
    /\ phase = "up" => fg = s

UnloadsTruly == \A s \in Slot : Unloads(s)
AnswersTruly == \A s \in Slot : AnswersTo(s)

(* What a step has to show of slot s, if it is not left alone *)
EndKept(s) == (proc'[s].state # "free" => EndOf(s)') /\ Unloads(s)

LEMMA EndingsNext ==
  ASSUME Endings, Unended', phase' = "up" => phase = "up",
         \A s \in Slot : phase = "up" => SameEnd(s) \/ EndKept(s)
  PROVE  Endings' /\ UnloadsTruly
<1>1. ASSUME NEW s \in Slot PROVE Unloads(s)
  BY DEF SameEnd, Unloads, EndKept
<1>2. ASSUME phase' = "up", NEW s \in Slot, proc'[s].state # "free"
      PROVE  EndOf(s)'
  <2>1. CASE SameEnd(s)
    <3>1. EndOf(s)
      BY <1>2, <2>1 DEF Endings, SameEnd
    <3> QED
      BY <2>1, <3>1, EndFrame
  <2> QED
    BY <1>2, <2>1 DEF EndKept
<1> QED
  BY <1>1, <1>2 DEF Endings, UnloadsTruly

StoryKept(s) ==
  /\ (AnswerOf(s) /\ CallOf(s))'
  /\ phase = "up" /\ proc'[s].state # "free" => ChildOf(s)'
  /\ AnswersTo(s)

LEMMA StoriesNext ==
  ASSUME Stories, phase' = "up" => phase = "up",
         \A s \in Slot : SameStory(s) \/ StoryKept(s)
  PROVE  Stories' /\ AnswersTruly
<1>1. ASSUME NEW s \in Slot PROVE (AnswerOf(s) /\ CallOf(s))'
  BY <1>1, StoryFrame DEF Stories, StoryKept
<1>2. ASSUME NEW s \in Slot, phase' = "up", proc'[s].state # "free" PROVE ChildOf(s)'
  <2>1. CASE SameStory(s)
    BY <1>2, <2>1, StoryFrame DEF Stories, SameStory
  <2> QED
    BY <1>2, <2>1 DEF StoryKept
<1>3. ASSUME NEW s \in Slot PROVE AnswersTo(s)
  BY DEF StoryKept, SameStory, AnswersTo
<1> QED
  BY <1>1, <1>2, <1>3 DEF Stories, AnswersTruly

-----------------------------------------------------------------------------
(* What each step does to the records. *)

LEMMA Records ==
  ASSUME IInv, NEW s \in Slot
  PROVE  proc[s] \in ProcessRecord /\ app[s] \in AppRecord /\ story[s] \in StoryRecord
BY DEF IInv, TypeOK

(* What kernel_process_fail makes of the record of slot s *)
Failing(s, cause, status) ==
  /\ s # fg => proc'[s] = proc[s]
  /\ s = fg => /\ proc'[s].state = proc[s].state /\ proc[s].state # "blocked"
               /\ proc'[s].cause = cause /\ proc'[s].exitRequested = TRUE
               /\ proc'[s].exitStatus = status
               /\ proc'[s].childValid = proc[s].childValid
               /\ proc'[s].childStatus = proc[s].childStatus

LEMMA FailEffect ==
  ASSUME IInv, phase = "up", NEW cause, NEW status, Fail(cause, status)
  PROVE  \A s \in Slot : Failing(s, cause, status)
<1>1. fg \in Slot /\ proc[fg] \in ProcessRecord /\ proc[fg].state \in {"running", "panicked"}
  BY UpSlots DEF IInv
<1> DEFINE p == [proc[fg] EXCEPT !.cause = cause, !.exitRequested = TRUE,
                                 !.exitStatus = status]
<1>2. proc' = [proc EXCEPT ![fg] = p]
  BY DEF Fail
<1>3. /\ p.state = proc[fg].state /\ p.cause = cause /\ p.exitRequested = TRUE
      /\ p.exitStatus = status /\ p.childValid = proc[fg].childValid
      /\ p.childStatus = proc[fg].childStatus
  BY <1>1 DEF ProcessRecord
<1> HIDE DEF p
<1> QED
  BY <1>1, <1>2, <1>3 DEF IInv, TypeOK, Failing

LEMMA TakeEffect ==
  ASSUME IInv, TakeChildStatus
  PROVE  \A s \in Slot :
           \/ Same(s) /\ (s = ctx => ~proc[s].childValid)
           \/ /\ s = ctx /\ proc[s].childValid /\ SameEnd(s) /\ story'[s] = story[s]
              /\ ~proc'[s].childValid
              /\ app'[s].ready = TRUE /\ app'[s].execStatus = proc[s].childStatus
              /\ app'[s].inFlight = app[s].inFlight /\ app'[s].path = app[s].path
              /\ app'[s].want = app[s].want /\ app'[s].spawned = app[s].spawned
<1>1. ctx \in Slot /\ proc[ctx] \in ProcessRecord /\ app[ctx] \in AppRecord /\ UNCHANGED story
  BY UpdateRecord DEF TakeChildStatus
<1>2. CASE ~proc[ctx].childValid
  BY <1>1, <1>2 DEF TakeChildStatus, Same
<1>3. CASE proc[ctx].childValid
  <2> DEFINE p == [proc[ctx] EXCEPT !.childValid = FALSE]
             a == [app[ctx] EXCEPT !.execStatus = proc[ctx].childStatus, !.ready = TRUE]
  <2>1. proc' = [proc EXCEPT ![ctx] = p]
    BY <1>3 DEF TakeChildStatus
  <2>2. app' = [app EXCEPT ![ctx] = a]
    BY <1>1, <1>3 DEF TakeChildStatus, IInv, TypeOK, AppRecord
  <2>3. /\ p.state = proc[ctx].state /\ p.cause = proc[ctx].cause /\ ~p.childValid
        /\ p.exitRequested = proc[ctx].exitRequested /\ p.exitStatus = proc[ctx].exitStatus
    BY <1>1 DEF ProcessRecord
  <2>4. /\ a.exitFlag = app[ctx].exitFlag /\ a.call = app[ctx].call
        /\ a.exitValue = app[ctx].exitValue /\ a.task = app[ctx].task
        /\ a.returned = app[ctx].returned
        /\ a.ready = TRUE /\ a.execStatus = proc[ctx].childStatus
        /\ a.inFlight = app[ctx].inFlight /\ a.path = app[ctx].path
        /\ a.want = app[ctx].want /\ a.spawned = app[ctx].spawned
    BY <1>1 DEF AppRecord
  <2> HIDE DEF p, a
  <2>5. ASSUME NEW s \in Slot, s # ctx PROVE Same(s)
    BY <1>1, <2>1, <2>2, <2>5 DEF IInv, TypeOK, Same
  <2>6. proc'[ctx] = p /\ app'[ctx] = a
    BY <1>1, <2>1, <2>2 DEF IInv, TypeOK
  <2> QED
    BY <1>1, <1>3, <2>3, <2>4, <2>5, <2>6 DEF SameEnd
<1> QED
  BY <1>2, <1>3

LEMMA UnlaunchedEffect ==
  ASSUME IInv, ctx \in Slot, NEW result, Unlaunched(result)
  PROVE  \A s \in Slot :
           /\ s # ctx => app'[s] = app[s] /\ story'[s] = story[s]
           /\ s = ctx =>
                /\ app'[s].exitFlag = app[s].exitFlag /\ app'[s].call = app[s].call
                /\ app'[s].exitValue = app[s].exitValue /\ app'[s].task = app[s].task
                /\ app'[s].returned = app[s].returned
                /\ app'[s].inFlight = app[s].inFlight /\ app'[s].path = app[s].path
                /\ app'[s].want = app[s].want /\ app'[s].spawned = app[s].spawned
                /\ app'[s].ready = TRUE /\ app'[s].execStatus = -(100 + result)
                /\ story'[s] = [program |-> app[s].path, ended |-> TRUE,
                                status |-> app'[s].execStatus]
<1>1. app[ctx] \in AppRecord
  BY Records
<1> DEFINE v == -(100 + result)
           a == [app[ctx] EXCEPT !.execRequested = FALSE, !.execStatus = v, !.ready = TRUE]
<1>2. /\ app' = [app EXCEPT ![ctx] = a]
      /\ story' = [story EXCEPT ![ctx] = [program |-> app[ctx].path, ended |-> TRUE,
                                          status |-> v]]
  BY <1>1 DEF Unlaunched, IInv, TypeOK, AppRecord
<1> HIDE DEF v
<1>3. /\ a.exitFlag = app[ctx].exitFlag /\ a.call = app[ctx].call
      /\ a.exitValue = app[ctx].exitValue /\ a.task = app[ctx].task
      /\ a.returned = app[ctx].returned
      /\ a.inFlight = app[ctx].inFlight /\ a.path = app[ctx].path
      /\ a.want = app[ctx].want /\ a.spawned = app[ctx].spawned
      /\ a.ready = TRUE /\ a.execStatus = v
  BY <1>1 DEF AppRecord
<1> HIDE DEF a
<1>4. app'[ctx] = a
      /\ story'[ctx] = [program |-> app[ctx].path, ended |-> TRUE, status |-> v]
      /\ \A s \in Slot : s # ctx => app'[s] = app[s] /\ story'[s] = story[s]
  BY <1>2 DEF IInv, TypeOK
<1> QED
  BY <1>3, <1>4 DEF v

(* What finish_child_process leaves of the process it resumes *)
AsResumed(r, p, status) ==
  /\ r.state \in {"running", "panicked"} /\ r.cause = p.cause
  /\ r.childValid = TRUE /\ r.childStatus = status
  /\ \/ r.exitRequested = p.exitRequested /\ r.exitStatus = p.exitStatus
     \/ r.exitStatus = Failure

LEMMA ResumedEnd ==
  ASSUME NEW p \in ProcessRecord, NEW status \in Int, NEW shown \in BOOLEAN
  PROVE  AsResumed(Resumed(p, status, shown), p, status)
<1>1. CASE shown
  BY <1>1 DEF Resumed, ProcessRecord, AsResumed
<1>2. CASE ~shown
  BY <1>2 DEF Resumed, ProcessRecord, AsResumed
<1> QED
  BY <1>1, <1>2

LEMMA LaunchFailsEffect ==
  ASSUME IInv, NEW presented \in BOOLEAN, LaunchFails(presented)
  PROVE  \A s \in Slot :
           /\ s # ctx => proc'[s] = proc[s]
           /\ s = ctx =>
                /\ proc'[s].state \in {"running", "panicked"} /\ proc'[s].cause = proc[s].cause
                /\ ~proc'[s].childValid
                /\ \/ /\ proc'[s].exitRequested = proc[s].exitRequested
                      /\ proc'[s].exitStatus = proc[s].exitStatus
                   \/ proc'[s].exitStatus = Failure
<1>1. ctx \in Slot /\ proc[ctx] \in ProcessRecord
  BY UpdateRecord DEF LaunchFails, CanLaunch
<1> DEFINE shown == presented /\ ReleasedConsole(console, ctx) = NoSlot
           parent == [proc[ctx] EXCEPT !.state = "blocked", !.owned = FALSE]
           r == Resumed(parent, Failure, shown)
           p == [r EXCEPT !.childValid = FALSE]
<1>2. proc' = [proc EXCEPT ![ctx] = p]
  BY DEF LaunchFails
<1>3. parent \in ProcessRecord
  BY <1>1, Zenon DEF ProcessRecord
<1>4. /\ parent.cause = proc[ctx].cause /\ parent.exitRequested = proc[ctx].exitRequested
      /\ parent.exitStatus = proc[ctx].exitStatus
  BY <1>1 DEF ProcessRecord
<1>5. shown \in BOOLEAN /\ Failure \in Int
  BY DEF Failure
<1> HIDE DEF parent, shown
<1>6. /\ r \in ProcessRecord
      /\ r.state \in {"running", "panicked"} /\ r.cause = parent.cause
      /\ \/ r.exitRequested = parent.exitRequested /\ r.exitStatus = parent.exitStatus
         \/ r.exitStatus = Failure
  <2>1. r \in ProcessRecord
    BY <1>3, <1>5, RecordTypes
  <2>2. AsResumed(r, parent, Failure)
    BY <1>3, <1>5, ResumedEnd
  <2> QED
    BY <2>1, <2>2 DEF AsResumed
<1> HIDE DEF r
<1>7. /\ p.state = r.state /\ p.cause = r.cause /\ ~p.childValid
      /\ p.exitRequested = r.exitRequested /\ p.exitStatus = r.exitStatus
  BY <1>6 DEF ProcessRecord
<1> HIDE DEF p
<1>8. proc'[ctx] = p /\ \A s \in Slot : s # ctx => proc'[s] = proc[s]
  BY <1>1, <1>2 DEF IInv, TypeOK
<1> QED
  BY <1>4, <1>6, <1>7, <1>8

(* What a launch makes of its parent's records, and of slot d, the child's *)
Blocks(s) ==
  /\ proc'[s].state = "blocked" /\ proc[s].state = "running"
  /\ proc'[s].cause = proc[s].cause /\ proc'[s].exitRequested = proc[s].exitRequested
  /\ proc'[s].exitStatus = proc[s].exitStatus /\ proc'[s].childValid = proc[s].childValid
  /\ app'[s].exitFlag = app[s].exitFlag /\ app'[s].call = app[s].call
  /\ app'[s].exitValue = app[s].exitValue /\ app'[s].task = app[s].task
  /\ app'[s].returned = app[s].returned
  /\ app'[s].inFlight = app[s].inFlight /\ app'[s].path = app[s].path
  /\ app'[s].want = app[s].want /\ app'[s].spawned = app[s].spawned
  /\ app'[s].ready = app[s].ready /\ story'[s].program = app[s].path

Starts(d) ==
  /\ proc[d].state = "free" /\ fg' = d
  /\ app'[d] = FreeApp /\ \E id, parent : proc'[d] = NewProcess(id, parent)

LEMMA LaunchChildEffect ==
  ASSUME IInv, LaunchChild
  PROVE  \E d \in Slot : /\ Blocks(ctx) /\ Starts(d) /\ d = ctx + 1
                         /\ \A s \in Slot : s # ctx /\ s # d => Same(s)
<1>1. /\ ctx \in Slot /\ phase = "up" /\ depth < Capacity /\ depth \in 1 .. Capacity
      /\ Capacity \in Nat /\ Live(proc) = 0 .. depth - 1 /\ ctx \in Live(proc)
      /\ proc[ctx].state = "running"
      /\ proc[ctx] \in ProcessRecord /\ app[ctx] \in AppRecord
  BY UpdateRecord, UpSlots DEF IInv, ForegroundChain, UpdateContext, LaunchChild, CanLaunch
<1>2. depth \in 0 .. Capacity - 1 /\ depth \in Slot /\ depth \notin Live(proc)
  BY <1>1 DEF Slot
<1>3. free_process_slot = depth /\ ctx # depth /\ proc[depth].state = "free"
  BY <1>1, <1>2, FirstFreeSlot, LiveSlot
<1> DEFINE p == [proc[ctx] EXCEPT !.state = "blocked", !.owned = FALSE]
           n == NewProcess(nextId, proc[ctx].id)
           a == [app[ctx] EXCEPT !.execRequested = FALSE]
           t == [NoStory EXCEPT !.program = app[ctx].path]
<1>4. /\ proc' = [proc EXCEPT ![ctx] = p, ![depth] = n] /\ fg' = depth
      /\ app' = [app EXCEPT ![ctx] = a, ![depth] = FreeApp]
      /\ story' = [story EXCEPT ![ctx] = t, ![depth] = NoStory]
  <2>1. /\ proc' = [proc EXCEPT ![ctx].state = "blocked", ![ctx].owned = FALSE, ![depth] = n]
        /\ app' = [app EXCEPT ![ctx].execRequested = FALSE, ![depth] = FreeApp]
        /\ story' = [story EXCEPT ![ctx] = t, ![depth] = NoStory] /\ fg' = depth
    BY <1>3 DEF LaunchChild
  <2>2. [proc EXCEPT ![ctx].state = "blocked", ![ctx].owned = FALSE, ![depth] = n]
          = [proc EXCEPT ![ctx] = p, ![depth] = n]
    BY <1>1 DEF IInv, TypeOK, ProcessRecord
  <2> QED
    BY <2>1, <2>2
<1>5. /\ p.state = "blocked" /\ p.cause = proc[ctx].cause
      /\ p.exitRequested = proc[ctx].exitRequested /\ p.exitStatus = proc[ctx].exitStatus
      /\ p.childValid = proc[ctx].childValid
  BY <1>1 DEF ProcessRecord
<1>6. /\ a.exitFlag = app[ctx].exitFlag /\ a.call = app[ctx].call
      /\ a.exitValue = app[ctx].exitValue /\ a.task = app[ctx].task
      /\ a.returned = app[ctx].returned
      /\ a.inFlight = app[ctx].inFlight /\ a.path = app[ctx].path
      /\ a.want = app[ctx].want /\ a.spawned = app[ctx].spawned /\ a.ready = app[ctx].ready
  BY <1>1 DEF AppRecord
<1>7. t.program = app[ctx].path
  BY DEF NoStory
<1> HIDE DEF p, a, t, n
<1>8. /\ proc'[ctx] = p /\ app'[ctx] = a /\ story'[ctx] = t
      /\ proc'[depth] = n /\ app'[depth] = FreeApp
      /\ \A s \in Slot : s # ctx /\ s # depth => Same(s)
  BY <1>1, <1>2, <1>3, <1>4 DEF IInv, TypeOK, Same
<1>9. Blocks(ctx)
  BY <1>1, <1>5, <1>6, <1>7, <1>8 DEF Blocks
<1>10. Starts(depth)
  <2>1. \E id, parent : proc'[depth] = NewProcess(id, parent)
    BY <1>8 DEF n
  <2> QED
    BY <1>3, <1>4, <1>8, <2>1 DEF Starts
<1>11. depth = ctx + 1
  BY <1>1, UpSlots DEF IInv, UpdateContext, LaunchChild, CanLaunch
<1> QED
  BY <1>2, <1>8, <1>9, <1>10, <1>11

LEMMA TakeExitEffect ==
  ASSUME IInv, TakeExit
  PROVE  \A s \in Slot :
           /\ s # ctx => Same(s)
           /\ s = ctx =>
                /\ SameStory(s) /\ app[s].exitFlag /\ ~app'[s].exitFlag
                /\ proc'[s].state = proc[s].state
                /\ proc'[s].cause = (IF proc[s].cause = "none" THEN "exit" ELSE proc[s].cause)
                /\ proc'[s].exitRequested = TRUE /\ proc'[s].exitStatus = app[s].exitValue
                /\ app'[s].call = app[s].call /\ app'[s].exitValue = app[s].exitValue
<1>1. /\ ctx \in Slot /\ proc[ctx] \in ProcessRecord /\ app[ctx] \in AppRecord
      /\ app[ctx].exitFlag /\ UNCHANGED story
  BY UpdateRecord DEF TakeExit
<1> DEFINE c == IF proc[ctx].cause = "none" THEN "exit" ELSE proc[ctx].cause
           v == app[ctx].exitValue
           p == [proc[ctx] EXCEPT !.cause = c, !.exitRequested = TRUE, !.exitStatus = v]
           a == [app[ctx] EXCEPT !.exitFlag = FALSE]
<1>2. proc' = [proc EXCEPT ![ctx] = p] /\ app' = [app EXCEPT ![ctx] = a]
  BY <1>1 DEF TakeExit, IInv, TypeOK, ProcessRecord, AppRecord
<1> HIDE DEF c, v
<1>3. /\ p.state = proc[ctx].state /\ p.cause = c /\ p.exitRequested = TRUE
      /\ p.exitStatus = v /\ p.childValid = proc[ctx].childValid
      /\ p.childStatus = proc[ctx].childStatus
  BY <1>1 DEF ProcessRecord
<1>4. /\ ~a.exitFlag /\ a.call = app[ctx].call /\ a.exitValue = app[ctx].exitValue
      /\ a.ready = app[ctx].ready /\ a.execStatus = app[ctx].execStatus
      /\ a.inFlight = app[ctx].inFlight /\ a.path = app[ctx].path
      /\ a.want = app[ctx].want /\ a.spawned = app[ctx].spawned
  BY <1>1 DEF AppRecord
<1> HIDE DEF p, a
<1>5. /\ proc'[ctx] = p /\ app'[ctx] = a
      /\ \A s \in Slot : s # ctx => proc'[s] = proc[s] /\ app'[s] = app[s]
  BY <1>1, <1>2 DEF IInv, TypeOK
<1>6. SameStory(ctx)
  BY <1>1, <1>3, <1>4, <1>5 DEF SameStory
<1> QED
  BY <1>1, <1>3, <1>4, <1>5, <1>6 DEF Same, c, v

LEMMA StepEffect ==
  ASSUME IInv, Step
  PROVE  \A s \in Slot :
           \/ Same(s)
           \/ /\ s = ctx /\ SameStory(s) /\ proc'[s] = proc[s]
              /\ app[s].task = "none"
              /\ app'[s].exitFlag = app[s].exitFlag /\ app'[s].call = app[s].call
              /\ app'[s].exitValue = app[s].exitValue
<1>1. ctx \in Slot /\ app[ctx] \in AppRecord /\ proc' = proc /\ story' = story
  BY UpdateRecord DEF Step, table
<1>2. CASE app[ctx].task # "none"
  BY <1>1, <1>2 DEF Step, Same
<1>3. CASE app[ctx].task = "none"
  <2> DEFINE a == [app[ctx] EXCEPT !.task = "running"]
  <2>1. app' = [app EXCEPT ![ctx] = a]
    BY <1>3 DEF Step
  <2>2. /\ a.exitFlag = app[ctx].exitFlag /\ a.call = app[ctx].call
        /\ a.exitValue = app[ctx].exitValue
        /\ a.ready = app[ctx].ready /\ a.execStatus = app[ctx].execStatus
        /\ a.inFlight = app[ctx].inFlight /\ a.path = app[ctx].path
        /\ a.want = app[ctx].want /\ a.spawned = app[ctx].spawned
    BY <1>1 DEF AppRecord
  <2> HIDE DEF a
  <2>3. app'[ctx] = a /\ \A s \in Slot : s # ctx => app'[s] = app[s]
    BY <1>1, <2>1 DEF IInv, TypeOK
  <2> QED
    BY <1>1, <1>3, <2>2, <2>3 DEF Same, SameStory
<1> QED
  BY <1>2, <1>3

LEMMA PanicEffect ==
  ASSUME IInv, phase = "up", proc' = [proc EXCEPT ![fg] = Panicked(@)], UNCHANGED <<app, story>>
  PROVE  \A s \in Slot :
           /\ SameStory(s) /\ (s # fg => Same(s))
           /\ s = fg => /\ proc'[s].state = "panicked" /\ proc'[s].exitRequested = FALSE
                        /\ proc'[s].cause = proc[s].cause
                        /\ proc'[s].exitStatus = proc[s].exitStatus /\ app'[s] = app[s]
<1>1. fg \in Slot /\ proc[fg] \in ProcessRecord /\ proc[fg].state \in {"running", "panicked"}
  BY UpSlots DEF IInv
<1> DEFINE p == Panicked(proc[fg])
<1>2. /\ p.state = "panicked" /\ p.exitRequested = FALSE /\ p.cause = proc[fg].cause
      /\ p.exitStatus = proc[fg].exitStatus /\ p.childValid = proc[fg].childValid
      /\ p.childStatus = proc[fg].childStatus
  BY <1>1 DEF Panicked, ProcessRecord
<1> HIDE DEF p
<1>3. proc'[fg] = p /\ \A s \in Slot : s # fg => proc'[s] = proc[s]
  BY <1>1 DEF p, IInv, TypeOK
<1> QED
  BY <1>1, <1>2, <1>3 DEF Same, SameStory

(* What finish_child_process makes of the parent's records *)
Resumes(k) ==
  /\ proc[k].state = "blocked" /\ proc'[k].state \in {"running", "panicked"}
  /\ proc'[k].cause = proc[k].cause
  /\ proc'[k].childValid = TRUE
  /\ app'[k] = app[k]
  /\ story'[k] = [program |-> story[k].program, ended |-> TRUE,
                  status |-> proc'[k].childStatus]
  /\ \/ /\ proc'[k].exitRequested = proc[k].exitRequested
        /\ proc'[k].exitStatus = proc[k].exitStatus
     \/ proc'[k].exitStatus = Failure

LEMMA EndedStory ==
  ASSUME NEW t \in StoryRecord, NEW v \in Int
  PROVE  [t EXCEPT !.ended = TRUE, !.status = v]
           = [program |-> t.program, ended |-> TRUE, status |-> v]
<1> DEFINE u == [t EXCEPT !.ended = TRUE, !.status = v]
<1>1. u \in StoryRecord
  BY Zenon DEF StoryRecord
<1>2. u.program = t.program /\ u.ended = TRUE /\ u.status = v
  BY DEF StoryRecord
<1> HIDE DEF u
<1>3. u = [program |-> u.program, ended |-> u.ended, status |-> u.status]
  BY <1>1 DEF StoryRecord
<1>4. u = [program |-> t.program, ended |-> TRUE, status |-> v]
  BY <1>2, <1>3
<1> QED
  BY <1>4 DEF u

LEMMA FinishEffect ==
  ASSUME IInv, phase = "up", proc[fg].id # 0, NEW presented \in BOOLEAN,
         FinishForeground(presented)
  PROVE  \E k \in Slot : /\ Resumes(k) /\ proc'[fg].state = "free" /\ app'[fg] = FreeApp
                         /\ fg = k + 1 /\ proc'[k].childStatus = proc[fg].exitStatus
                         /\ \A s \in Slot : s # k /\ s # fg => Same(s)
<1> DEFINE freed == [proc EXCEPT ![fg] = FreeProcess]
           k == fg - 1
           status == proc[fg].exitStatus
           shown == presented /\ ReleasedConsole(console, fg) = NoSlot
           p == Resumed(freed[k], status, shown)
           t == [story[k] EXCEPT !.ended = TRUE, !.status = status]
<1>1. /\ fg \in Slot /\ k \in Slot /\ k # fg /\ k # NoSlot /\ k \in 0 .. depth - 1 /\ k < depth - 1
      /\ depth > 0 /\ depth - 1 > 0 /\ depth - 1 = fg
      /\ find_process(freed, stack[k]) = k /\ stack[depth - 1 - 1] = stack[k]
  BY UpSlots, ParentSlot DEF IInv, Slot, NoSlot
<1>2. proc[k].state = "blocked" /\ proc[k] \in ProcessRecord /\ story[k] \in StoryRecord
      /\ status \in Int
  BY <1>1, Records DEF IInv, ForegroundChain, ProcessRecord
<1>3. /\ proc' = [freed EXCEPT ![k] = p]
      /\ app' = [app EXCEPT ![fg] = FreeApp]
      /\ story' = [s \in Slot |-> IF s = fg THEN NoStory ELSE IF s = k THEN t ELSE story[s]]
  BY <1>1 DEF FinishForeground
<1>4. freed \in [Slot -> ProcessRecord] /\ freed[k] = proc[k] /\ freed[fg].state = "free"
      /\ \A s \in Slot : s # fg => freed[s] = proc[s]
  BY <1>1, RecordTypes DEF IInv, TypeOK, FreeProcess
<1>5. shown \in BOOLEAN
  OBVIOUS
<1>6. t = [program |-> story[k].program, ended |-> TRUE, status |-> status]
  BY <1>2, EndedStory
<1> HIDE DEF freed, shown, status
<1>7. /\ p.state \in {"running", "panicked"} /\ p.cause = proc[k].cause
      /\ p.childValid = TRUE /\ p.childStatus = status
      /\ \/ p.exitRequested = proc[k].exitRequested /\ p.exitStatus = proc[k].exitStatus
         \/ p.exitStatus = Failure
  <2>1. p = Resumed(proc[k], status, shown)
    BY <1>4
  <2>2. AsResumed(Resumed(proc[k], status, shown), proc[k], status)
    BY <1>2, <1>5, ResumedEnd
  <2> HIDE DEF p
  <2> QED
    BY <2>1, <2>2 DEF AsResumed
<1> HIDE DEF p, t, k
<1>8. /\ proc'[k] = p /\ proc'[fg].state = "free" /\ app'[k] = app[k] /\ app'[fg] = FreeApp
      /\ story'[k] = t
      /\ \A s \in Slot : s # k /\ s # fg => Same(s)
  BY <1>1, <1>3, <1>4 DEF IInv, TypeOK, Same
<1>9. Resumes(k)
  BY <1>2, <1>6, <1>7, <1>8 DEF Resumes
<1>10. fg = k + 1
  <2>1. fg \in Int
    BY <1>1 DEF Slot
  <2> QED
    BY <2>1 DEF k
<1>11. proc'[k].childStatus = proc[fg].exitStatus
  BY <1>7, <1>8 DEF status
<1> QED
  BY <1>1, <1>8, <1>9, <1>10, <1>11

(* The call gate: a stored answer is handed over, a request in flight is left
   alone, and otherwise program p is requested. *)
Gate(s, p) ==
  /\ app'[s].execStatus = app[s].execStatus
  /\ app[s].ready => ~app'[s].ready /\ ~app'[s].inFlight
  /\ ~app[s].ready =>
       /\ ~app'[s].ready /\ app'[s].inFlight
       /\ app'[s].path = IF app[s].inFlight THEN app[s].path ELSE p

(* What a call leaves alone *)
Calls(s) ==
  /\ proc'[s] = proc[s] /\ story'[s] = story[s]
  /\ app'[s].exitFlag = app[s].exitFlag
  /\ app[s].call # "exited" /\ app'[s].call # "exited"
  /\ app'[s].task = app[s].task /\ app'[s].exitValue = app[s].exitValue
  /\ app'[s].returned = app[s].returned

LEMMA GateRecord ==
  ASSUME NEW a \in AppRecord, NEW p \in Programs \cup {"none"}, NEW e, e = ElfExec(a, p)
  PROVE  /\ e \in AppRecord
         /\ e.exitFlag = a.exitFlag /\ e.task = a.task /\ e.exitValue = a.exitValue
         /\ e.returned = a.returned /\ e.execStatus = a.execStatus
         /\ e.call = a.call /\ e.want = a.want /\ e.spawned = a.spawned
         /\ a.ready => ~e.ready /\ ~e.inFlight
         /\ ~a.ready => /\ ~e.ready /\ e.inFlight
                        /\ e.path = IF a.inFlight THEN a.path ELSE p
<1>1. e \in AppRecord
  BY ElfExecType
<1>2. CASE a.ready
  <2>1. e = [a EXCEPT !.ready = FALSE, !.inFlight = FALSE]
    BY <1>2 DEF ElfExec
  <2> QED
    BY <1>1, <1>2, <2>1 DEF AppRecord
<1>3. CASE ~a.ready /\ a.inFlight
  <2>1. e = a
    BY <1>3 DEF ElfExec
  <2> QED
    BY <1>1, <1>3, <2>1
<1>4. CASE ~a.ready /\ ~a.inFlight
  <2>1. e = [a EXCEPT !.inFlight = TRUE, !.execRequested = TRUE, !.path = p]
    BY <1>4 DEF ElfExec
  <2> QED
    BY <1>1, <1>4, <2>1 DEF AppRecord
<1> QED
  BY <1>2, <1>3, <1>4

LEMMA AppExecEffect ==
  ASSUME IInv, NEW s \in Slot, NEW p \in Programs, AppExec(s, p)
  PROVE  /\ \A r \in Slot : r # s => Same(r)
         /\ Calls(s) /\ Gate(s, p) /\ app'[s].want = p /\ app'[s].spawned = app[s].spawned
         /\ app[s].call = "exec" => p = app[s].want
         /\ app[s].call # "exec" => Overlap \/ ~app[s].spawned
         /\ app'[s].call = IF app[s].ready THEN "idle" ELSE "exec"
         /\ app[s].call \in {"idle", "exec"} /\ proc[s].state # "free"
<1>1. app[s] \in AppRecord
  BY Records
<1> DEFINE e == ElfExec(app[s], p)
           c == IF app[s].ready THEN "idle" ELSE "exec"
           a == [e EXCEPT !.call = c, !.want = p]
<1>2. app' = [app EXCEPT ![s] = a] /\ proc' = proc /\ story' = story
      /\ app[s].call \in {"idle", "exec"} /\ proc[s].state # "free"
  BY DEF AppExec, table, CanCall
<1>3. c \in {"idle", "exec"}
  OBVIOUS
<1> HIDE DEF e, c
<1>4. /\ e \in AppRecord
      /\ e.exitFlag = app[s].exitFlag /\ e.task = app[s].task
      /\ e.exitValue = app[s].exitValue
      /\ e.returned = app[s].returned /\ e.execStatus = app[s].execStatus
      /\ e.call = app[s].call /\ e.want = app[s].want /\ e.spawned = app[s].spawned
      /\ app[s].ready => ~e.ready /\ ~e.inFlight
      /\ ~app[s].ready => /\ ~e.ready /\ e.inFlight
                          /\ e.path = IF app[s].inFlight THEN app[s].path ELSE p
  BY <1>1, GateRecord DEF e
<1>5. /\ a.exitFlag = e.exitFlag /\ a.task = e.task /\ a.exitValue = e.exitValue
      /\ a.returned = e.returned /\ a.execStatus = e.execStatus /\ a.ready = e.ready
      /\ a.inFlight = e.inFlight /\ a.path = e.path /\ a.spawned = e.spawned
      /\ a.want = p /\ a.call = c
  BY <1>4 DEF AppRecord
<1> HIDE DEF a
<1>6. app'[s] = a /\ \A r \in Slot : r # s => Same(r)
  BY <1>2 DEF IInv, TypeOK, Same
<1>7. Calls(s)
  BY <1>2, <1>3, <1>4, <1>5, <1>6 DEF Calls
<1>8. Gate(s, p)
  BY <1>4, <1>5, <1>6 DEF Gate
<1>9. app[s].call = "exec" => p = app[s].want
  BY DEF AppExec
<1>10. app[s].call # "exec" => Overlap \/ ~app[s].spawned
  BY DEF AppExec
<1> QED
  BY <1>2, <1>4, <1>5, <1>6, <1>7, <1>8, <1>9, <1>10 DEF c

LEMMA AppSpawnEffect ==
  ASSUME IInv, NEW s \in Slot, NEW p \in Programs, AppSpawn(s, p)
  PROVE  /\ \A r \in Slot : r # s => Same(r)
         /\ Calls(s) /\ Gate(s, p) /\ app'[s].want = p
         /\ app'[s].call = "idle" /\ app[s].call = "idle"
         /\ ~app[s].spawned /\ (~app[s].ready => app'[s].spawned)
         /\ proc[s].state # "free"
<1>1. app[s] \in AppRecord
  BY Records
<1> DEFINE e == ElfExec(app[s], p)
           b == (app[s].ready => app[s].execStatus >= 0)
           a == [e EXCEPT !.want = p, !.spawned = b]
<1>2. app' = [app EXCEPT ![s] = a] /\ proc' = proc /\ story' = story
      /\ app[s].call = "idle" /\ ~app[s].spawned /\ proc[s].state # "free"
  BY DEF AppSpawn, table, CanCall
<1>3. ~app[s].ready => b = TRUE
  OBVIOUS
<1> HIDE DEF e, b
<1>4. /\ e \in AppRecord
      /\ e.exitFlag = app[s].exitFlag /\ e.task = app[s].task
      /\ e.exitValue = app[s].exitValue
      /\ e.returned = app[s].returned /\ e.execStatus = app[s].execStatus
      /\ e.call = app[s].call /\ e.want = app[s].want /\ e.spawned = app[s].spawned
      /\ app[s].ready => ~e.ready /\ ~e.inFlight
      /\ ~app[s].ready => /\ ~e.ready /\ e.inFlight
                          /\ e.path = IF app[s].inFlight THEN app[s].path ELSE p
  BY <1>1, GateRecord DEF e
<1>5. /\ a.exitFlag = e.exitFlag /\ a.task = e.task /\ a.exitValue = e.exitValue
      /\ a.returned = e.returned /\ a.execStatus = e.execStatus /\ a.ready = e.ready
      /\ a.inFlight = e.inFlight /\ a.path = e.path /\ a.call = e.call
      /\ a.want = p /\ a.spawned = b
  BY <1>4 DEF AppRecord
<1> HIDE DEF a
<1>6. app'[s] = a /\ \A r \in Slot : r # s => Same(r)
  BY <1>2 DEF IInv, TypeOK, Same
<1>7. Calls(s)
  BY <1>2, <1>4, <1>5, <1>6 DEF Calls
<1>8. Gate(s, p)
  BY <1>4, <1>5, <1>6 DEF Gate
<1> QED
  BY <1>2, <1>3, <1>4, <1>5, <1>6, <1>7, <1>8

LEMMA AppWaitEffect ==
  ASSUME IInv, NEW s \in Slot, AppWait(s)
  PROVE  /\ \A r \in Slot : r # s => Same(r)
         /\ Calls(s) /\ Gate(s, app[s].want) /\ app'[s].want = app[s].want
         /\ app'[s].call = IF app[s].ready THEN "idle" ELSE "wait"
         /\ proc[s].state # "free" /\ app[s].spawned
<1>1. app[s] \in AppRecord /\ app[s].want \in Programs \cup {"none"}
  BY Records DEF AppRecord
<1> DEFINE e == ElfExec(app[s], app[s].want)
           c == IF app[s].ready THEN "idle" ELSE "wait"
           b == ~app[s].ready
           a == [e EXCEPT !.call = c, !.spawned = b]
<1>2. app' = [app EXCEPT ![s] = a] /\ proc' = proc /\ story' = story
      /\ app[s].call \in {"idle", "wait"} /\ proc[s].state # "free" /\ app[s].spawned
  BY DEF AppWait, table, CanCall
<1>3. c \in {"idle", "wait"}
  OBVIOUS
<1> HIDE DEF e, c, b
<1>4. /\ e \in AppRecord
      /\ e.exitFlag = app[s].exitFlag /\ e.task = app[s].task
      /\ e.exitValue = app[s].exitValue
      /\ e.returned = app[s].returned /\ e.execStatus = app[s].execStatus
      /\ e.call = app[s].call /\ e.want = app[s].want /\ e.spawned = app[s].spawned
      /\ app[s].ready => ~e.ready /\ ~e.inFlight
      /\ ~app[s].ready => /\ ~e.ready /\ e.inFlight
                          /\ e.path = IF app[s].inFlight THEN app[s].path ELSE app[s].want
  BY <1>1, GateRecord DEF e
<1>5. /\ a.exitFlag = e.exitFlag /\ a.task = e.task /\ a.exitValue = e.exitValue
      /\ a.returned = e.returned /\ a.execStatus = e.execStatus /\ a.ready = e.ready
      /\ a.inFlight = e.inFlight /\ a.path = e.path /\ a.want = e.want
      /\ a.call = c
  BY <1>4 DEF AppRecord
<1> HIDE DEF a
<1>6. app'[s] = a /\ \A r \in Slot : r # s => Same(r)
  BY <1>2 DEF IInv, TypeOK, Same
<1>7. Calls(s)
  BY <1>2, <1>3, <1>4, <1>5, <1>6 DEF Calls
<1>8. Gate(s, app[s].want)
  BY <1>4, <1>5, <1>6 DEF Gate
<1> QED
  BY <1>2, <1>4, <1>5, <1>6, <1>7, <1>8 DEF c

(* Asking to exit, and returning *)
Exits(s) ==
  /\ proc'[s] = proc[s] /\ story'[s] = story[s] /\ app[s].task = "running"
  /\ \/ app[s].call = "idle" /\ app'[s].call = "exited" /\ app'[s].exitFlag
     \/ /\ app'[s].call = app[s].call /\ app'[s].exitFlag = app[s].exitFlag
        /\ app'[s].exitValue = app[s].exitValue

LEMMA AppEndEffect ==
  ASSUME IInv, NEW s \in Slot, NEW status, AppExit(s, status) \/ AppReturn(s, status)
  PROVE  /\ \A r \in Slot : r # s => Same(r)
         /\ Exits(s) /\ SameStory(s)
<1>1. app[s] \in AppRecord /\ proc' = proc /\ story' = story /\ app[s].task = "running"
  BY Records DEF AppExit, AppReturn, table, CanCall
<1>2. CASE AppExit(s, status)
  <2> DEFINE a == [app[s] EXCEPT !.exitValue = status, !.exitFlag = TRUE, !.call = "exited"]
  <2>1. app' = [app EXCEPT ![s] = a] /\ app[s].call = "idle"
    BY <1>1, <1>2 DEF AppExit, CanCall, IInv, TypeOK, AppRecord
  <2>2. /\ a.exitFlag /\ a.call = "exited"
        /\ a.ready = app[s].ready /\ a.execStatus = app[s].execStatus
        /\ a.inFlight = app[s].inFlight /\ a.path = app[s].path
        /\ a.want = app[s].want /\ a.spawned = app[s].spawned
    BY <1>1 DEF AppRecord
  <2> HIDE DEF a
  <2>3. app'[s] = a /\ \A r \in Slot : r # s => Same(r)
    BY <1>1, <2>1 DEF IInv, TypeOK, Same
  <2> QED
    BY <1>1, <2>1, <2>2, <2>3 DEF Exits, SameStory
<1>3. CASE AppReturn(s, status)
  <2> DEFINE a == [app[s] EXCEPT !.task = "returned", !.returned = status]
  <2>1. app' = [app EXCEPT ![s] = a]
    BY <1>1, <1>3 DEF AppReturn, IInv, TypeOK, AppRecord
  <2>2. /\ a.exitFlag = app[s].exitFlag /\ a.call = app[s].call
        /\ a.exitValue = app[s].exitValue
        /\ a.ready = app[s].ready /\ a.execStatus = app[s].execStatus
        /\ a.inFlight = app[s].inFlight /\ a.path = app[s].path
        /\ a.want = app[s].want /\ a.spawned = app[s].spawned
    BY <1>1 DEF AppRecord
  <2> HIDE DEF a
  <2>3. app'[s] = a /\ \A r \in Slot : r # s => Same(r)
    BY <1>1, <2>1 DEF IInv, TypeOK, Same
  <2> QED
    BY <1>1, <2>2, <2>3 DEF Exits, SameStory
<1> QED
  BY <1>2, <1>3

-----------------------------------------------------------------------------
(* How processes end *)

LEMMA EndingsInit == Init => Endings
BY DEF Init, Endings, Unended

LEMMA BootEndings == IInv /\ Endings /\ Boot => Endings' /\ UnloadsTruly
<1> SUFFICES ASSUME IInv, Boot PROVE Endings' /\ UnloadsTruly
  OBVIOUS
<1>1. /\ phase = "boot" /\ proc = [s \in Slot |-> FreeProcess]
      /\ app = [s \in Slot |-> FreeApp] /\ rt = "idle" /\ rt' = "idle" /\ app' = app
  BY DEF IInv, BootClean, Boot, LaunchRoot, LaunchRootFails
<1>2. UnloadsTruly
  BY <1>1 DEF UnloadsTruly, Unloads
<1>3. Unended'
  BY <1>1 DEF Unended
<1>4. CASE LaunchRoot
  <2>1. PICK d : proc' = [proc EXCEPT ![d] = NewProcess(0, -1)]
    BY <1>4 DEF LaunchRoot
  <2>2. ASSUME NEW s \in Slot, proc'[s].state # "free" PROVE EndOf(s)'
    <3>1. proc'[s] = NewProcess(0, -1) /\ app'[s] = FreeApp
      BY <1>1, <2>1, <2>2 DEF FreeProcess
    <3> QED
      BY <3>1 DEF EndOf, NewProcess, FreeProcess, FreeApp
  <2> QED
    BY <1>2, <1>3, <2>2 DEF Endings
<1>5. CASE LaunchRootFails
  BY <1>2, <1>3, <1>5 DEF LaunchRootFails, Endings
<1> QED
  BY <1>4, <1>5 DEF Boot

LEMMA ShutDownEndings == IInv /\ Endings /\ ShutDown => Endings' /\ UnloadsTruly
<1> SUFFICES ASSUME IInv, Endings, ShutDown PROVE Endings' /\ UnloadsTruly
  OBVIOUS
<1>1. rt' = "idle" /\ phase' # "up"
  BY DEF ShutDown, BeginShutdown, DestroyHighest, EndShutdown, IInv, UpdateContext
<1>2. phase = "up" => proc' = proc
  BY DEF ShutDown, BeginShutdown, DestroyHighest, EndShutdown, table
<1> QED
  BY <1>1, <1>2 DEF Endings, Unended, UnloadsTruly, Unloads

(* A step that leaves the records alone *)
LEMMA QuietEndings ==
  ASSUME IInv, Endings, UNCHANGED <<proc, app, phase>>, Unended'
  PROVE  Endings' /\ UnloadsTruly
BY EndingsNext DEF SameEnd

LEMMA BeginUpdateEndings == IInv /\ Endings /\ BeginUpdate => Endings' /\ UnloadsTruly
<1> SUFFICES ASSUME IInv, Endings, BeginUpdate PROVE Endings' /\ UnloadsTruly
  OBVIOUS
<1>1. fg \in Slot /\ phase = "up" /\ proc[fg].state # "free"
  BY UpSlots DEF IInv, BeginUpdate, Live
<1>2. EndOf(fg)
  BY <1>1 DEF Endings
<1>3. /\ ctx' = fg /\ fg' = fg /\ proc' = proc /\ app' = app /\ phase' = phase
      /\ \/ rt' = "take" /\ proc[fg].state = "running" /\ ~proc[fg].exitRequested
         \/ rt' = "tail"
  BY DEF BeginUpdate, table
<1>4. Unended'
  BY <1>2, <1>3 DEF Unended, EndOf
<1> QED
  BY <1>3, <1>4, QuietEndings

LEMMA TakeChildStatusEndings == IInv /\ Endings /\ TakeChildStatus => Endings' /\ UnloadsTruly
<1> SUFFICES ASSUME IInv, Endings, TakeChildStatus PROVE Endings' /\ UnloadsTruly
  OBVIOUS
<1>1. ctx \in Slot /\ rt = "take" /\ rt' = "exec" /\ ctx' = ctx /\ phase' = phase
  BY UpdateRecord DEF TakeChildStatus
<1>2. \A s \in Slot : SameEnd(s)
  BY TakeEffect, SameAll
<1>3. Unended'
  BY <1>1, <1>2 DEF Endings, Unended, SameEnd
<1> QED
  BY <1>1, <1>2, <1>3, EndingsNext

LEMMA NoRequestEndings ==
  IInv /\ Endings /\ (NoExecRequest \/ NoExit) => Endings' /\ UnloadsTruly
<1> SUFFICES ASSUME IInv, Endings, NoExecRequest \/ NoExit PROVE Endings' /\ UnloadsTruly
  OBVIOUS
<1>1. UNCHANGED <<proc, app, phase, ctx>> /\ rt \in {"exec", "exit"} /\ rt' \in {"exit", "step"}
  BY DEF NoExecRequest, NoExit, table
<1>2. Unended'
  BY <1>1 DEF Endings, Unended
<1> QED
  BY <1>1, <1>2, QuietEndings

LEMMA LaunchRejectedEndings == IInv /\ Endings /\ LaunchRejected => Endings' /\ UnloadsTruly
<1> SUFFICES ASSUME IInv, Endings, LaunchRejected PROVE Endings' /\ UnloadsTruly
  OBVIOUS
<1>1. ctx \in Slot /\ rt = "exec" /\ rt' = "exit" /\ UNCHANGED <<proc, ctx, phase>>
  BY UpdateRecord DEF LaunchRejected, Unlaunched, table
<1>2. PICK result : Unlaunched(result)
  BY DEF LaunchRejected
<1>3. \A s \in Slot : SameEnd(s)
  BY <1>1, <1>2, UnlaunchedEffect DEF SameEnd
<1>4. Unended'
  BY <1>1 DEF Endings, Unended
<1> QED
  BY <1>1, <1>3, <1>4, EndingsNext

LEMMA LaunchFailsEndings ==
  ASSUME IInv, Endings, NEW presented \in BOOLEAN, LaunchFails(presented)
  PROVE  Endings' /\ UnloadsTruly
<1>1. /\ ctx \in Slot /\ phase = "up" /\ rt = "exec" /\ rt' = "exit" /\ UNCHANGED <<ctx, phase>>
      /\ proc[ctx].state = "running" /\ Unlaunched(StartFailed)
  BY UpdateRecord DEF LaunchFails, CanLaunch, Unlaunched, IInv, UpdateContext
<1>2. EndOf(ctx) /\ proc[ctx].cause = "none" /\ ~proc[ctx].exitRequested
  BY <1>1 DEF Endings, Unended
<1>3. ASSUME NEW s \in Slot, s # ctx PROVE SameEnd(s)
  BY <1>1, <1>3, LaunchFailsEffect, UnlaunchedEffect DEF SameEnd
<1>4. /\ proc'[ctx].cause = "none" /\ proc'[ctx].state \in {"running", "panicked"}
      /\ proc'[ctx].exitRequested => proc'[ctx].exitStatus = Failure
      /\ app'[ctx].exitFlag = app[ctx].exitFlag /\ app'[ctx].call = app[ctx].call
  BY <1>1, <1>2, LaunchFailsEffect, UnlaunchedEffect
<1>5. EndKept(ctx)
  BY <1>1, <1>2, <1>4 DEF EndKept, EndOf, Unloads
<1>6. Unended'
  BY <1>1, <1>4 DEF Unended
<1> QED
  BY <1>1, <1>3, <1>5, <1>6, EndingsNext

LEMMA LaunchChildEndings == IInv /\ Endings /\ LaunchChild => Endings' /\ UnloadsTruly
<1> SUFFICES ASSUME IInv, Endings, LaunchChild PROVE Endings' /\ UnloadsTruly
  OBVIOUS
<1>1. /\ ctx \in Slot /\ phase = "up" /\ rt = "exec" /\ rt' = "tail" /\ UNCHANGED <<ctx, phase>>
  BY UpdateRecord DEF LaunchChild, CanLaunch
<1>2. PICK d \in Slot : /\ Blocks(ctx) /\ Starts(d)
                        /\ \A s \in Slot : s # ctx /\ s # d => Same(s)
  BY LaunchChildEffect
<1>3. EndOf(ctx) /\ proc[ctx].cause = "none" /\ ~proc[ctx].exitRequested
  BY <1>1, <1>2 DEF Endings, Unended, Blocks
<1>4. EndKept(ctx)
  BY <1>1, <1>2, <1>3 DEF EndKept, EndOf, Unloads, Blocks
<1>5. EndKept(d)
  BY <1>2 DEF EndKept, EndOf, Unloads, Starts, NewProcess, FreeProcess, FreeApp
<1>6. Unended'
  BY <1>1, <1>2 DEF Unended, Blocks
<1> QED
  BY <1>1, <1>2, <1>4, <1>5, <1>6, SameAll, EndingsNext

LEMMA TakeExitEndings == IInv /\ Endings /\ TakeExit => Endings' /\ UnloadsTruly
<1> SUFFICES ASSUME IInv, Endings, TakeExit PROVE Endings' /\ UnloadsTruly
  OBVIOUS
<1>1. /\ ctx \in Slot /\ phase = "up" /\ rt = "exit" /\ rt' = "tail" /\ ctx = fg
      /\ UNCHANGED <<ctx, fg, phase>> /\ proc[ctx].state \in {"running", "panicked"}
  BY UpdateRecord, UpSlots DEF TakeExit, IInv, UpdateContext
<1>2. EndOf(ctx) /\ proc[ctx].cause = "none"
  BY <1>1 DEF Endings, Unended
<1>3. EndKept(ctx)
  BY <1>1, <1>2, TakeExitEffect DEF EndKept, EndOf, Unloads
<1>4. Unended'
  BY <1>1 DEF Unended
<1> QED
  BY <1>1, <1>3, <1>4, TakeExitEffect, SameAll, EndingsNext

LEMMA StepEndings == IInv /\ Endings /\ Step => Endings' /\ UnloadsTruly
<1> SUFFICES ASSUME IInv, Endings, Step PROVE Endings' /\ UnloadsTruly
  OBVIOUS
<1>1. /\ ctx \in Slot /\ phase = "up" /\ rt = "step" /\ ctx = fg
      /\ UNCHANGED <<ctx, fg, phase>> /\ proc[ctx].state \in {"running", "panicked"}
      /\ \/ rt' = "returned" /\ app[ctx].task = "returned"
         \/ rt' = "tail"
  BY UpdateRecord, UpSlots DEF Step, table, IInv, UpdateContext
<1>2. EndOf(ctx) /\ proc[ctx].cause = "none"
  BY <1>1 DEF Endings, Unended
<1>3. ASSUME NEW s \in Slot
      PROVE  SameEnd(s) \/ EndKept(s)
  <2>1. CASE Same(s)
    BY <2>1, SameAll
  <2>2. CASE ~Same(s)
    BY <1>2, <2>2, StepEffect DEF EndKept, EndOf, Unloads
  <2> QED
    BY <2>1, <2>2
<1>4. Unended'
  BY <1>1, <1>2, StepEffect DEF Unended, Same
<1> QED
  BY <1>1, <1>3, <1>4, EndingsNext

(* kernel_process_fail, with the status of its cause *)
LEMMA FailEndings ==
  ASSUME IInv, Endings, phase = "up", phase' = phase, app' = app,
         NEW cause, NEW status, Fail(cause, status), Unended', cause \notin {"none", "exit"},
         cause = "fault" => status = FaultStatus,
         cause = "return" => /\ app[fg].call # "exited" /\ app[fg].task = "returned"
                             /\ status = app[fg].returned
  PROVE  Endings' /\ UnloadsTruly
<1>0. \A s \in Slot : Failing(s, cause, status)
  BY FailEffect
<1>1. fg \in Slot /\ proc[fg].state # "free"
  BY UpSlots DEF IInv, Live
<1>2. EndOf(fg)
  BY <1>1 DEF Endings
<1>3. ASSUME NEW s \in Slot
      PROVE  SameEnd(s) \/ EndKept(s)
  <2>1. CASE s = fg
    <3>1. /\ proc'[s].state = proc[s].state /\ proc[s].state # "blocked"
          /\ proc'[s].cause = cause /\ proc'[s].exitRequested = TRUE
          /\ proc'[s].exitStatus = status
      BY <1>0, <2>1 DEF Failing
    <3>2. EndOf(s)'
      <4>1. EndOf(s) /\ app'[s] = app[s]
        BY <1>2, <2>1
      <4> QED
        BY <2>1, <3>1, <4>1 DEF EndOf
    <3>3. Unloads(s)
      BY <3>1 DEF Unloads
    <3> QED
      BY <3>2, <3>3 DEF EndKept
  <2>2. CASE s # fg
    BY <1>0, <2>2 DEF Failing, SameEnd
  <2> QED
    BY <2>1, <2>2
<1> QED
  BY <1>3, EndingsNext

LEMMA StepFaultsEndings == IInv /\ Endings /\ StepFaults => Endings' /\ UnloadsTruly
<1> SUFFICES ASSUME IInv, Endings, StepFaults PROVE Endings' /\ UnloadsTruly
  OBVIOUS
<1>1. /\ phase = "up" /\ phase' = phase /\ app' = app /\ Fail("fault", FaultStatus)
      /\ ctx = fg /\ ctx' = ctx /\ fg' = fg /\ rt' = "tail"
  BY UpdateRecord DEF StepFaults, Fail, IInv, UpdateContext
<1>2. Unended'
  BY <1>1 DEF Unended
<1> QED
  BY <1>1, <1>2, FailEndings

LEMMA ReturnedEndings == IInv /\ Endings /\ Returned => Endings' /\ UnloadsTruly
<1> SUFFICES ASSUME IInv, Endings, Returned PROVE Endings' /\ UnloadsTruly
  OBVIOUS
<1>1. /\ ctx \in Slot /\ phase = "up" /\ UNCHANGED <<app, ctx, phase>> /\ rt = "returned"
      /\ ctx = fg /\ fg' = fg /\ rt' = "tail" /\ proc[fg].state # "free"
  BY UpdateRecord, UpSlots DEF Returned, Fail, table, IInv, UpdateContext, Live
<1>2. Unended'
  BY <1>1 DEF Unended
<1>3. EndOf(fg) /\ proc[fg].cause = "none" /\ app[fg].task = "returned"
  BY <1>1 DEF Endings, Unended
<1>4. CASE app[ctx].exitFlag
  BY <1>1, <1>2, <1>4, QuietEndings DEF Returned, table
<1>5. CASE ~app[ctx].exitFlag
  <2>1. Fail("return", app[fg].returned) /\ app[fg].call # "exited"
    BY <1>1, <1>3, <1>5 DEF Returned, EndOf
  <2> QED
    BY <1>1, <1>2, <1>3, <2>1, FailEndings
<1> QED
  BY <1>4, <1>5

LEMMA ForceTerminateEndings ==
  ASSUME IInv, Endings, NEW status, ForceTerminate(status)
  PROVE  Endings' /\ UnloadsTruly
<1>1. /\ phase = "up" /\ phase' = phase /\ app' = app /\ Fail("forced", status)
      /\ rt' = "idle"
  BY DEF ForceTerminate
<1>2. Unended'
  BY <1>1 DEF Unended
<1> QED
  BY <1>1, <1>2, FailEndings

LEMMA TailEndings == IInv /\ Endings /\ Tail => Endings' /\ UnloadsTruly
<1> SUFFICES ASSUME IInv, Endings, Tail PROVE Endings' /\ UnloadsTruly
  OBVIOUS
<1>1. phase = "up" /\ rt = "tail" /\ rt' = "idle" /\ ctx \in Slot /\ phase' = phase
      /\ fg \in Slot /\ proc[fg].state \in {"running", "panicked"}
  BY UpdateRecord, UpSlots DEF Tail, FinishForeground, IInv
<1>2. Unended'
  BY <1>1 DEF Unended
<1>3. EndOf(fg)
  BY <1>1 DEF Endings
<1>4. CASE ~proc[ctx].exitRequested
  BY <1>1, <1>2, <1>4, QuietEndings DEF Tail, table
<1>5. CASE proc[ctx].exitRequested /\ proc[fg].id = 0
  <2>1. proc' = [proc EXCEPT ![fg] = Panicked(@)] /\ UNCHANGED <<app, story>>
    BY <1>5 DEF Tail
  <2>2. ASSUME NEW s \in Slot, s = fg PROVE EndKept(s)
    <3>1. /\ proc'[s].state = "panicked" /\ proc'[s].exitRequested = FALSE
          /\ proc'[s].cause = proc[s].cause
          /\ proc'[s].exitStatus = proc[s].exitStatus /\ app'[s] = app[s]
      BY <1>1, <2>1, <2>2, PanicEffect
    <3>2. EndOf(s)
      BY <1>3, <2>2
    <3>3. EndOf(s)'
      BY <3>1, <3>2 DEF EndOf
    <3> QED
      BY <3>1, <3>3 DEF EndKept, Unloads
  <2> QED
    BY <1>1, <1>2, <2>1, <2>2, PanicEffect, SameAll, EndingsNext
<1>6. CASE proc[ctx].exitRequested /\ proc[fg].id # 0
  <2>1. PICK presented \in BOOLEAN : FinishForeground(presented)
    BY <1>6 DEF Tail
  <2>2. PICK k \in Slot : /\ Resumes(k) /\ proc'[fg].state = "free" /\ app'[fg] = FreeApp
                          /\ \A s \in Slot : s # k /\ s # fg => Same(s)
    BY <1>1, <1>6, <2>1, FinishEffect
  <2>3. proc[fg].exitRequested
    <3>1. proc[ctx].state # "blocked"
      BY <1>1, <1>6 DEF Endings, EndOf
    <3> QED
      BY <1>1, <1>6, <3>1 DEF Endings, Unended
  <2>4. EndKept(fg)
    BY <1>3, <2>2, <2>3 DEF EndKept, Unloads, EndOf
  <2>5. EndOf(k) /\ ~proc[k].exitRequested /\ proc[k].cause = "none"
    BY <1>1, <2>2 DEF Endings, EndOf, Resumes
  <2>6. EndKept(k)
    BY <2>2, <2>5 DEF EndKept, EndOf, Unloads, Resumes
  <2> QED
    BY <1>1, <1>2, <2>2, <2>4, <2>6, SameAll, EndingsNext
<1> QED
  BY <1>4, <1>5, <1>6

(* A program's call: who had not asked to exit still has not. *)
LEMMA CallsEnd ==
  ASSUME NEW s \in Slot, EndOf(s), Calls(s)
  PROVE  EndKept(s)
BY DEF EndOf, Calls, EndKept, Unloads

LEMMA ExitsEnd ==
  ASSUME NEW s \in Slot, EndOf(s), Exits(s)
  PROVE  EndKept(s)
BY DEF EndOf, Exits, EndKept, Unloads

LEMMA AppStepEndings ==
  ASSUME IInv, Endings, NEW s \in Slot, AppStep(s)
  PROVE  Endings' /\ UnloadsTruly
<1>1. UNCHANGED <<proc, rt, ctx, phase, fg>> /\ proc[s].state # "free" /\ app[s].task = "running"
  BY DEF AppStep, AppExec, AppSpawn, AppWait, AppExit, AppReturn, table, CanCall
<1>2. (\A r \in Slot : r # s => Same(r)) /\ (Calls(s) \/ Exits(s))
  BY AppExecEffect, AppSpawnEffect, AppWaitEffect, AppEndEffect DEF AppStep
<1>3. phase = "up" => EndKept(s)
  BY <1>1, <1>2, CallsEnd, ExitsEnd DEF Endings
<1>4. Unended'
  <2>1. rt = "returned" => ctx \in Slot /\ ctx # s
    BY <1>1 DEF Endings, Unended, IInv, UpdateContext
  <2>2. rt = "returned" => app'[ctx] = app[ctx]
    BY <1>2, <2>1 DEF Same
  <2> QED
    BY <1>1, <2>2 DEF Endings, Unended
<1> QED
  BY <1>1, <1>2, <1>3, <1>4, SameAll, EndingsNext

LEMMA EndingsStep == IInv /\ Endings /\ [Next]_vars => Endings' /\ [UnloadsTruly]_vars
<1> SUFFICES ASSUME IInv, Endings, [Next]_vars PROVE Endings' /\ [UnloadsTruly]_vars
  OBVIOUS
<1>1. CASE UpdateStep
  BY <1>1, TakeChildStatusEndings, NoRequestEndings, LaunchRejectedEndings, LaunchFailsEndings,
     LaunchChildEndings, TakeExitEndings, StepEndings, StepFaultsEndings, ReturnedEndings,
     TailEndings DEF UpdateStep, LaunchStep
<1>2. CASE UNCHANGED vars
  BY <1>2 DEF vars, Endings, Unended, EndOf
<1> QED
  BY <1>1, <1>2, BootEndings, ShutDownEndings, BeginUpdateEndings, ForceTerminateEndings,
     AppStepEndings DEF Next, Stopped

(* The body of EndsAsItEnded is what a step shows of the processes it unloads. *)
THEOREM EndingsAreTrue == Spec => EndsAsItEnded
<1>1. Init => IInv /\ Endings
  BY InitInv, EndingsInit
<1>2. IInv /\ Endings /\ [Next]_vars => (IInv /\ Endings)'
  BY NextInv, EndingsStep
<1>3. IInv /\ Endings /\ [Next]_vars => [UnloadsTruly]_vars
  BY EndingsStep
<1>4. [][UnloadsTruly]_vars => EndsAsItEnded
  BY DEF UnloadsTruly, Unloads, EndsAsItEnded
<1> QED
  BY <1>1, <1>2, <1>3, <1>4, PTL DEF Spec

-----------------------------------------------------------------------------
(* What calls return *)

LEMMA StoriesInit == Init => Stories
<1> SUFFICES ASSUME Init PROVE Stories
  OBVIOUS
<1>1. \A s \in Slot : app[s] = FreeApp /\ phase # "up"
  BY DEF Init
<1> QED
  BY <1>1 DEF Stories, AnswerOf, CallOf, FreeApp

LEMMA BootStories == IInv /\ Stories /\ Boot => Stories' /\ AnswersTruly
<1> SUFFICES ASSUME IInv, Boot PROVE Stories' /\ AnswersTruly
  OBVIOUS
<1>1. /\ proc = [s \in Slot |-> FreeProcess] /\ app = [s \in Slot |-> FreeApp] /\ app' = app
  BY DEF IInv, BootClean, Boot, LaunchRoot, LaunchRootFails
<1>2. \A s \in Slot : app[s] = FreeApp /\ app'[s] = FreeApp
  BY <1>1
<1>3. \A s \in Slot : (AnswerOf(s) /\ CallOf(s))' /\ AnswersTo(s)
  BY <1>2 DEF AnswerOf, CallOf, FreeApp, AnswersTo
<1>4. ASSUME NEW s \in Slot, phase' = "up", proc'[s].state # "free" PROVE ChildOf(s)'
  <2>1. PICK d : proc' = [proc EXCEPT ![d] = NewProcess(0, -1)]
    BY <1>4 DEF Boot, LaunchRoot, LaunchRootFails
  <2>2. proc'[s] = NewProcess(0, -1)
    BY <1>1, <1>4, <2>1 DEF FreeProcess
  <2> QED
    BY <2>2 DEF ChildOf, NewProcess, FreeProcess
<1> QED
  BY <1>3, <1>4 DEF Stories, AnswersTruly

(* A slot that is given free records *)
LEMMA FreedStory ==
  ASSUME NEW s, app'[s] = FreeApp, proc'[s].state = "free"
  PROVE  StoryKept(s)
BY DEF StoryKept, AnswerOf, CallOf, AnswersTo, FreeApp

LEMMA QuietStories ==
  ASSUME Stories, UNCHANGED <<proc, app, story>>, phase' = "up" => phase = "up"
  PROVE  Stories' /\ AnswersTruly
BY StoriesNext DEF SameStory

LEMMA ShutDownStories == IInv /\ Stories /\ ShutDown => Stories' /\ AnswersTruly
<1> SUFFICES ASSUME IInv, Stories, ShutDown PROVE Stories' /\ AnswersTruly
  OBVIOUS
<1>1. CASE BeginShutdown \/ EndShutdown
  BY <1>1, QuietStories DEF BeginShutdown, EndShutdown, table
<1>2. CASE DestroyHighest
  <2>1. PICK d : /\ proc' = [proc EXCEPT ![d] = FreeProcess] /\ app' = [app EXCEPT ![d] = FreeApp]
                 /\ story' = [story EXCEPT ![d] = NoStory] /\ phase' = phase
    BY <1>2 DEF DestroyHighest
  <2>2. ASSUME NEW s \in Slot PROVE SameStory(s) \/ StoryKept(s)
    <3>1. CASE s = d
      BY <2>1, <3>1, FreedStory DEF IInv, TypeOK, FreeProcess
    <3>2. CASE s # d
      BY <2>1, <3>2, SameAll DEF IInv, TypeOK, Same
    <3> QED
      BY <3>1, <3>2
  <2> QED
    BY <2>1, <2>2, StoriesNext
<1> QED
  BY <1>1, <1>2 DEF ShutDown

(* The exec of a slot, wherever it is *)
LEMMA PlacedExec ==
  ASSUME IInv, phase = "up", NEW s \in Slot, proc[s].state # "free"
  PROVE  ExecPlaced(s)
BY ExecPlacedEverywhere, LiveSlot DEF IInv

LEMMA TakeChildStatusStories == IInv /\ Stories /\ TakeChildStatus => Stories' /\ AnswersTruly
<1> SUFFICES ASSUME IInv, Stories, TakeChildStatus PROVE Stories' /\ AnswersTruly
  OBVIOUS
<1>1. ctx \in Slot /\ phase = "up" /\ phase' = phase /\ proc[ctx].state = "running"
  BY UpdateRecord DEF TakeChildStatus, IInv, UpdateContext
<1>2. ExecPlaced(ctx) /\ AnswerOf(ctx) /\ CallOf(ctx) /\ ChildOf(ctx)
  BY <1>1, PlacedExec DEF Stories
<1>3. ASSUME NEW s \in Slot, ~Same(s) PROVE StoryKept(s)
  <2>1. /\ s = ctx /\ proc[s].childValid /\ SameEnd(s) /\ story'[s] = story[s]
        /\ ~proc'[s].childValid
        /\ app'[s].ready = TRUE /\ app'[s].execStatus = proc[s].childStatus
        /\ app'[s].inFlight = app[s].inFlight /\ app'[s].path = app[s].path
        /\ app'[s].want = app[s].want /\ app'[s].spawned = app[s].spawned
    BY <1>3, TakeEffect
  <2>2. app[s].inFlight /\ app'[s].call = app[s].call /\ proc'[s].state = "running"
    BY <1>1, <1>2, <2>1 DEF ExecPlaced, SameEnd
  <2>3. AnswerOf(s)' /\ CallOf(s)'
    BY <1>2, <2>1, <2>2 DEF AnswerOf, CallOf, ChildOf
  <2>4. ChildOf(s)' /\ AnswersTo(s)
    BY <2>1, <2>2 DEF ChildOf, AnswersTo
  <2> QED
    BY <2>3, <2>4 DEF StoryKept
<1> QED
  BY <1>1, <1>3, SameAll, StoriesNext

(* elf_update answers a request it could not serve. *)
LEMMA UnlaunchedStory ==
  ASSUME IInv, Stories, phase = "up", ctx \in Slot, proc[ctx].state # "free",
         app[ctx].execRequested, NEW result, Unlaunched(result),
         proc'[ctx].state \notin {"free", "blocked"}, ~proc'[ctx].childValid,
         NEW s \in Slot, s = ctx
  PROVE  StoryKept(s)
<1>1. ExecPlaced(s) /\ CallOf(s) /\ app[s].execRequested
  BY PlacedExec DEF Stories
<1>2. /\ app'[s].call = app[s].call
      /\ app'[s].inFlight = app[s].inFlight /\ app'[s].path = app[s].path
      /\ app'[s].want = app[s].want /\ app'[s].spawned = app[s].spawned
      /\ app'[s].ready = TRUE
      /\ story'[s] = [program |-> app[s].path, ended |-> TRUE,
                      status |-> app'[s].execStatus]
  BY UnlaunchedEffect
<1>3. proc'[s].state \notin {"free", "blocked"} /\ ~proc'[s].childValid
  OBVIOUS
<1>4. AnswerOf(s)' /\ CallOf(s)'
  BY <1>1, <1>2, <1>3 DEF ExecPlaced, AnswerOf, CallOf
<1>5. ChildOf(s)' /\ AnswersTo(s)
  BY <1>2, <1>3 DEF ChildOf, AnswersTo
<1> QED
  BY <1>4, <1>5 DEF StoryKept

LEMMA LaunchRejectedStories == IInv /\ Stories /\ LaunchRejected => Stories' /\ AnswersTruly
<1> SUFFICES ASSUME IInv, Stories, LaunchRejected PROVE Stories' /\ AnswersTruly
  OBVIOUS
<1>1. /\ ctx \in Slot /\ phase = "up" /\ UNCHANGED <<proc, phase>> /\ app[ctx].execRequested
      /\ proc[ctx].state = "running"
  BY UpdateRecord DEF LaunchRejected, table, IInv, UpdateContext
<1>2. PICK result : Unlaunched(result)
  BY DEF LaunchRejected
<1>3. ~proc[ctx].childValid
  BY <1>1, PlacedExec DEF ExecPlaced
<1>4. ASSUME NEW s \in Slot, s = ctx PROVE StoryKept(s)
  BY <1>1, <1>2, <1>3, <1>4, UnlaunchedStory
<1>5. \A s \in Slot : s # ctx => Same(s)
  BY <1>1, <1>2, UnlaunchedEffect DEF Same
<1> QED
  BY <1>1, <1>4, <1>5, SameAll, StoriesNext

LEMMA LaunchFailsStories ==
  ASSUME IInv, Stories, NEW presented \in BOOLEAN, LaunchFails(presented)
  PROVE  Stories' /\ AnswersTruly
<1>1. /\ ctx \in Slot /\ phase = "up" /\ phase' = phase /\ app[ctx].execRequested
      /\ proc[ctx].state = "running" /\ Unlaunched(StartFailed)
  BY UpdateRecord DEF LaunchFails, CanLaunch, IInv, UpdateContext
<1>2. proc'[ctx].state \notin {"free", "blocked"} /\ ~proc'[ctx].childValid
  BY <1>1, LaunchFailsEffect
<1>3. ASSUME NEW s \in Slot, s = ctx PROVE StoryKept(s)
  BY <1>1, <1>2, <1>3, UnlaunchedStory
<1>4. \A s \in Slot : s # ctx => Same(s)
  BY <1>1, LaunchFailsEffect, UnlaunchedEffect DEF Same
<1> QED
  BY <1>1, <1>3, <1>4, SameAll, StoriesNext

LEMMA LaunchChildStories == IInv /\ Stories /\ LaunchChild => Stories' /\ AnswersTruly
<1> SUFFICES ASSUME IInv, Stories, LaunchChild PROVE Stories' /\ AnswersTruly
  OBVIOUS
<1>1. ctx \in Slot /\ phase = "up" /\ phase' = phase /\ app[ctx].execRequested
  BY UpdateRecord DEF LaunchChild, CanLaunch
<1>2. PICK d \in Slot : /\ Blocks(ctx) /\ Starts(d)
                        /\ \A s \in Slot : s # ctx /\ s # d => Same(s)
  BY LaunchChildEffect
<1>3. ExecPlaced(ctx) /\ CallOf(ctx)
  BY <1>1, <1>2, PlacedExec DEF Stories, Blocks
<1>4. ASSUME NEW s \in Slot, s = ctx PROVE StoryKept(s)
  <2>1. Blocks(s) /\ ExecPlaced(s) /\ CallOf(s) /\ app[s].execRequested
    BY <1>1, <1>2, <1>3, <1>4
  <2>2. AnswerOf(s)' /\ CallOf(s)' /\ AnswersTo(s)
    BY <2>1 DEF Blocks, AnswerOf, CallOf, AnswersTo, ExecPlaced
  <2>3. ChildOf(s)'
    BY <2>1 DEF Blocks, ChildOf, ExecPlaced
  <2> QED
    BY <2>2, <2>3 DEF StoryKept
<1>5. StoryKept(d)
  <2>1. ~app[d].ready
    BY <1>2 DEF Stories, AnswerOf, Starts
  <2>2. app'[d] = FreeApp /\ proc'[d].state = "running" /\ ~proc'[d].childValid
    BY <1>2 DEF Starts, NewProcess, FreeProcess
  <2> QED
    BY <2>1, <2>2 DEF StoryKept, AnswerOf, CallOf, ChildOf, AnswersTo, FreeApp
<1> QED
  BY <1>1, <1>2, <1>4, <1>5, SameAll, StoriesNext

LEMMA FailStories ==
  ASSUME IInv, Stories, phase = "up", UNCHANGED <<phase, app, story>>,
         NEW cause, NEW status, Fail(cause, status)
  PROVE  Stories' /\ AnswersTruly
<1>1. \A s \in Slot : Failing(s, cause, status)
  BY FailEffect
<1>2. \A s \in Slot : SameStory(s)
  BY <1>1 DEF Failing, SameStory
<1> QED
  BY <1>2, StoriesNext

LEMMA TailStories == IInv /\ Stories /\ Tail => Stories' /\ AnswersTruly
<1> SUFFICES ASSUME IInv, Stories, Tail PROVE Stories' /\ AnswersTruly
  OBVIOUS
<1>1. phase = "up" /\ phase' = phase
  BY UpdateRecord DEF Tail, FinishForeground
<1>2. CASE ~proc[ctx].exitRequested
  BY <1>1, <1>2, QuietStories DEF Tail, table
<1>3. CASE proc[ctx].exitRequested /\ proc[fg].id = 0
  <2>1. proc' = [proc EXCEPT ![fg] = Panicked(@)] /\ UNCHANGED <<app, story>>
    BY <1>3 DEF Tail
  <2> QED
    BY <1>1, <2>1, PanicEffect, StoriesNext
<1>4. CASE proc[ctx].exitRequested /\ proc[fg].id # 0
  <2>1. PICK presented \in BOOLEAN : FinishForeground(presented)
    BY <1>4 DEF Tail
  <2>2. PICK k \in Slot : /\ Resumes(k) /\ proc'[fg].state = "free" /\ app'[fg] = FreeApp
                          /\ \A s \in Slot : s # k /\ s # fg => Same(s)
    BY <1>1, <1>4, <2>1, FinishEffect
  <2>3. ExecPlaced(k) /\ AnswerOf(k) /\ CallOf(k) /\ ChildOf(k)
    BY <1>1, <2>2, PlacedExec DEF Stories, Resumes
  <2>4. StoryKept(k)
    BY <2>2, <2>3 DEF StoryKept, AnswerOf, CallOf, ChildOf, AnswersTo, ExecPlaced, Resumes
  <2> QED
    BY <1>1, <2>2, <2>4, FreedStory, SameAll, StoriesNext
<1> QED
  BY <1>2, <1>3, <1>4

LEMMA StepStories ==
  ASSUME IInv, Stories,
         BeginUpdate \/ NoExecRequest \/ NoExit \/ TakeExit \/ Step \/ StepFaults \/ Returned
  PROVE  Stories' /\ AnswersTruly
<1>1. phase = "up" /\ phase' = phase
  BY UpdateRecord DEF BeginUpdate, NoExecRequest, NoExit, TakeExit, Step, StepFaults, Returned
<1>2. CASE BeginUpdate \/ NoExecRequest \/ NoExit
  BY <1>1, <1>2, QuietStories DEF BeginUpdate, NoExecRequest, NoExit, table
<1>3. CASE TakeExit
  BY <1>1, <1>3, TakeExitEffect, SameAll, StoriesNext
<1>4. CASE Step
  BY <1>1, <1>4, StepEffect, SameAll, StoriesNext
<1>5. CASE StepFaults
  BY <1>1, <1>5, FailStories DEF StepFaults
<1>6. CASE Returned /\ app[ctx].exitFlag
  BY <1>1, <1>6, QuietStories DEF Returned, table
<1>7. CASE Returned /\ ~app[ctx].exitFlag
  BY <1>1, <1>7, FailStories DEF Returned
<1> QED
  BY <1>2, <1>3, <1>4, <1>5, <1>6, <1>7

LEMMA ForceTerminateStories ==
  ASSUME IInv, Stories, NEW status, ForceTerminate(status)
  PROVE  Stories' /\ AnswersTruly
BY FailStories DEF ForceTerminate

(* A process that has an answer to take is not blocked, so nothing is above it. *)
LEMMA AnsweredInForeground ==
  ASSUME IInv, phase = "up", NEW s \in Slot, proc[s].state # "free", app[s].ready
  PROVE  fg = s
<1>1. s \in Live(proc) /\ proc[s].state # "blocked"
  BY LiveSlot, PlacedExec DEF ExecPlaced
<1>2. depth \in 1 .. Capacity /\ Capacity \in Nat /\ fg = depth - 1
  BY UpSlots DEF IInv
<1>3. s \in 0 .. depth - 1 /\ ~(s < depth - 1)
  BY <1>1 DEF IInv, ForegroundChain
<1> QED
  BY <1>2, <1>3

(* A call that hands over an answer has asked for the program the answer is of:
   one made while a request is in flight continues it. *)
LEMMA GateStory ==
  ASSUME IInv, Stories, NEW s \in Slot, NEW p \in Programs, Calls(s), Gate(s, p),
         proc[s].state # "free", app'[s].want = p,
         app[s].inFlight => p = app[s].want,
         ~app[s].ready => app'[s].call \in {"exec", "wait"} \/ app'[s].spawned
  PROVE  StoryKept(s)
<1>1. AnswerOf(s) /\ CallOf(s) /\ (phase = "up" => ExecPlaced(s) /\ ChildOf(s))
  BY PlacedExec DEF Stories
<1>2. AnswerOf(s)' /\ CallOf(s)'
  BY <1>1 DEF Gate, Calls, AnswerOf, CallOf
<1>3. phase = "up" => ChildOf(s)'
  BY <1>1 DEF Gate, Calls, ChildOf, ExecPlaced
<1>4. AnswersTo(s)
  BY <1>1, AnsweredInForeground DEF Gate, Calls, AnswersTo, AnswerOf, CallOf
<1> QED
  BY <1>2, <1>3, <1>4 DEF StoryKept

LEMMA AppExecStories ==
  ASSUME ~Overlap, IInv, Stories, NEW s \in Slot, NEW p \in Programs, AppExec(s, p)
  PROVE  Stories' /\ AnswersTruly
<1>1. /\ \A r \in Slot : r # s => Same(r)
      /\ Calls(s) /\ Gate(s, p) /\ app'[s].want = p
      /\ app[s].call = "exec" => p = app[s].want
      /\ app[s].call # "exec" => ~app[s].spawned
      /\ app'[s].call = IF app[s].ready THEN "idle" ELSE "exec"
      /\ app[s].call \in {"idle", "exec"} /\ proc[s].state # "free" /\ phase' = phase
  BY AppExecEffect DEF AppExec
<1>2. CallOf(s)
  BY DEF Stories
<1>3. app[s].inFlight => p = app[s].want
  BY <1>1, <1>2 DEF CallOf
<1>4. StoryKept(s)
  BY <1>1, <1>3, GateStory
<1> QED
  BY <1>1, <1>4, SameAll, StoriesNext

LEMMA AppSpawnStories ==
  ASSUME ~Overlap, IInv, Stories, NEW s \in Slot, NEW p \in Programs, AppSpawn(s, p)
  PROVE  Stories' /\ AnswersTruly
<1>1. /\ \A r \in Slot : r # s => Same(r)
      /\ Calls(s) /\ Gate(s, p) /\ app'[s].want = p
      /\ app[s].call = "idle" /\ ~app[s].spawned /\ (~app[s].ready => app'[s].spawned)
      /\ proc[s].state # "free" /\ phase' = phase
  BY AppSpawnEffect DEF AppSpawn
<1>2. ~app[s].inFlight
  BY <1>1 DEF Stories, CallOf
<1>3. StoryKept(s)
  BY <1>1, <1>2, GateStory
<1> QED
  BY <1>1, <1>3, SameAll, StoriesNext

LEMMA AppStepStories ==
  ASSUME ~Overlap, IInv, Stories, NEW s \in Slot, AppStep(s)
  PROVE  Stories' /\ AnswersTruly
<1>1. CASE AppWait(s)
  <2>1. /\ \A r \in Slot : r # s => Same(r)
        /\ Calls(s) /\ Gate(s, app[s].want) /\ app'[s].want = app[s].want
        /\ app'[s].call = IF app[s].ready THEN "idle" ELSE "wait"
        /\ proc[s].state # "free" /\ phase' = phase /\ app[s].spawned
    BY <1>1, AppWaitEffect DEF AppWait
  <2>2. app[s].want \in Programs
    BY <2>1 DEF Stories, CallOf
  <2>3. StoryKept(s)
    BY <2>1, <2>2, GateStory
  <2> QED
    BY <2>1, <2>3, SameAll, StoriesNext
<1>2. ASSUME NEW status \in Statuses, AppExit(s, status) \/ AppReturn(s, status)
      PROVE  Stories' /\ AnswersTruly
  <2>1. phase' = phase
    BY <1>2 DEF AppExit, AppReturn
  <2> QED
    BY <1>2, <2>1, AppEndEffect, SameAll, StoriesNext
<1> QED
  BY <1>1, <1>2, AppExecStories, AppSpawnStories DEF AppStep

LEMMA StoriesStep ==
  ASSUME ~Overlap, IInv, Stories, [Next]_vars
  PROVE  Stories' /\ [AnswersTruly]_vars
<1>1. CASE UpdateStep
  BY <1>1, TakeChildStatusStories, LaunchRejectedStories, LaunchFailsStories,
     LaunchChildStories, StepStories, TailStories DEF UpdateStep, LaunchStep
<1>2. CASE UNCHANGED vars
  BY <1>2, QuietStories DEF vars
<1> QED
  BY <1>1, <1>2, BootStories, ShutDownStories, StepStories, ForceTerminateStories,
     AppStepStories DEF Next, Stopped

(* ExecReturnsChildStatus: when no program overlaps a spawn with an exec, the status
   that a call returns is how the program it named ended. *)
THEOREM AnswersAreTrue ==
  ASSUME ~Overlap
  PROVE  Spec => ExecReturnsChildStatus
<1>1. Init => IInv /\ Stories
  BY InitInv, StoriesInit
<1>2. IInv /\ Stories /\ [Next]_vars => (IInv /\ Stories)' /\ [AnswersTruly]_vars
  BY NextInv, StoriesStep
<1>3. [][AnswersTruly]_vars => ExecReturnsChildStatus
  BY DEF AnswersTruly, AnswersTo, ExecReturnsChildStatus
<1> QED
  BY <1>1, <1>2, <1>3, PTL DEF Spec

-----------------------------------------------------------------------------
(* Refinement: what each step does to the calls of ExecCall. *)

Carried == Exec!Next \/ UNCHANGED Exec!exchange

(* Where it says nothing of slot s *)
SameCall(s) ==
  /\ CallAt(s)' = CallAt(s)
  /\ proc'[s].state = "free" <=> proc[s].state = "free"

LEMMA CallFrame ==
  ASSUME NEW s \in Slot, SameStory(s), phase' = phase
  PROVE  SameCall(s)
BY DEF SameStory, SameCall, CallAt

(* A call that is not in flight, as in a slot that was given free records *)
LEMMA NoCall ==
  ASSUME NEW s
  PROVE  /\ phase # "up" \/ ~app[s].inFlight => CallAt(s) = Exec!Idle
         /\ phase' # "up" \/ ~app'[s].inFlight => CallAt(s)' = Exec!Idle
BY DEF CallAt, Exec!Idle

LEMMA Stutters ==
  ASSUME phase' = phase, \A s \in Slot : SameCall(s)
  PROVE  Carried
<1>1. Live(proc)' = Live(proc)
  BY DEF SameCall, Live
<1>2. [s \in Slot |-> CallAt(s)]' = [s \in Slot |-> CallAt(s)]
  BY DEF SameCall
<1> QED
  BY <1>1, <1>2 DEF Carried, Exec!exchange

(* While the system is not up nothing is served. *)
LEMMA NotServed ==
  ASSUME phase # "up", phase' # "up", phase' = phase \/ {phase, phase'} \subseteq {"stopping", "down"}
  PROVE  Carried
<1>1. [s \in Slot |-> CallAt(s)]' = [s \in Slot |-> CallAt(s)]
  BY NoCall
<1> QED
  BY <1>1 DEF Carried, Exec!exchange

(* What a step does to the call of slot c alone *)
OneCall(c) ==
  /\ phase = "up" /\ phase' = "up"
  /\ \A s \in Slot : s # c => SameCall(s)
  /\ proc[c].state # "free" /\ proc'[c].state # "free"

LEMMA OneCallMoves ==
  ASSUME NEW c \in Slot, OneCall(c), NEW v, CallAt(c)' = v
  PROVE  /\ [s \in Slot |-> CallAt(s)]' = [[s \in Slot |-> CallAt(s)] EXCEPT ![c] = v]
         /\ Live(proc)' = Live(proc) /\ c \in Live(proc)
<1>1. Live(proc)' = Live(proc) /\ c \in Live(proc)
  BY DEF OneCall, SameCall, Live
<1>2. \A s \in Slot : s # c => CallAt(s)' = CallAt(s)
  BY DEF OneCall, SameCall
<1> QED
  BY <1>1, <1>2

LEMMA Asks ==
  ASSUME NEW c \in Slot, OneCall(c), NEW p \in Programs,
         CallAt(c) = Exec!Idle, CallAt(c)' = Exec!Asked(p)
  PROVE  Carried
<1>1. /\ [s \in Slot |-> CallAt(s)]' = [[s \in Slot |-> CallAt(s)] EXCEPT ![c] = Exec!Asked(p)]
      /\ Live(proc)' = Live(proc) /\ c \in Live(proc)
  BY OneCallMoves
<1>2. Exec!Ask(c, p)
  BY <1>1 DEF Exec!Ask, OneCall
<1> QED
  BY <1>2 DEF Carried, Exec!Next

LEMMA Refuses ==
  ASSUME NEW c \in Slot, OneCall(c), NEW result \in {InvalidResult, StartFailed}, NEW p,
         CallAt(c) = Exec!Asked(p), CallAt(c)' = Exec!Answered(p, -(100 + result))
  PROVE  Carried
<1> DEFINE v == -(100 + result)
<1>1. v \in {-(100 + r) : r \in {InvalidResult, StartFailed}}
  OBVIOUS
<1> HIDE DEF v
<1>2. /\ [s \in Slot |-> CallAt(s)]' = [[s \in Slot |-> CallAt(s)] EXCEPT ![c] = Exec!Answered(p, v)]
      /\ Live(proc)' = Live(proc)
  BY OneCallMoves DEF v
<1>3. CallAt(c).at = "asked" /\ CallAt(c).program = p
  BY DEF Exec!Asked
<1>4. Exec!Refuse(c)
  BY <1>1, <1>2, <1>3 DEF Exec!Refuse, OneCall
<1> QED
  BY <1>4 DEF Carried, Exec!Next

LEMMA Returns ==
  ASSUME NEW c \in Slot, OneCall(c), NEW p, NEW v,
         CallAt(c) = Exec!Answered(p, v), CallAt(c)' = Exec!Idle
  PROVE  Carried
<1>1. /\ [s \in Slot |-> CallAt(s)]' = [[s \in Slot |-> CallAt(s)] EXCEPT ![c] = Exec!Idle]
      /\ Live(proc)' = Live(proc)
  BY OneCallMoves
<1>2. CallAt(c).at = "answered"
  BY DEF Exec!Answered
<1>3. Exec!Return(c)
  BY <1>1, <1>2 DEF Exec!Return, OneCall
<1> QED
  BY <1>3 DEF Carried, Exec!Next

(* What a step does to a caller c and its child d, one of which is loaded in it or
   unloaded *)
TwoCalls(c, d) ==
  /\ phase = "up" /\ phase' = "up" /\ d # c
  /\ \A s \in Slot : s # c /\ s # d => SameCall(s)
  /\ proc[c].state # "free" /\ proc'[c].state # "free"

LEMMA TwoCallsMove ==
  ASSUME NEW c \in Slot, NEW d \in Slot, TwoCalls(c, d), NEW v, CallAt(c)' = v,
         CallAt(d)' = Exec!Idle
  PROVE  /\ [s \in Slot |-> CallAt(s)]'
              = [[s \in Slot |-> CallAt(s)] EXCEPT ![c] = v, ![d] = Exec!Idle]
         /\ proc[d].state = "free" /\ proc'[d].state # "free" =>
              d \notin Live(proc) /\ Live(proc)' = Live(proc) \cup {d}
         /\ proc[d].state # "free" /\ proc'[d].state = "free" =>
              d \in Live(proc) /\ Live(proc)' = Live(proc) \ {d}
<1>1. \A s \in Slot : s # c /\ s # d => CallAt(s)' = CallAt(s)
  BY DEF TwoCalls, SameCall
<1>2. \A s \in Slot : s # d => (proc'[s].state = "free" <=> proc[s].state = "free")
  BY DEF TwoCalls, SameCall
<1> QED
  BY <1>1, <1>2 DEF TwoCalls, Live

LEMMA Begins ==
  ASSUME NEW c \in Slot, NEW d \in Slot, TwoCalls(c, d), NEW p,
         CallAt(c) = Exec!Asked(p), CallAt(c)' = Exec!Running(p, d),
         CallAt(d) = Exec!Idle, CallAt(d)' = Exec!Idle,
         proc[d].state = "free", proc'[d].state # "free"
  PROVE  Carried
<1>1. /\ [s \in Slot |-> CallAt(s)]' = [[s \in Slot |-> CallAt(s)] EXCEPT ![c] = Exec!Running(p, d)]
      /\ d \notin Live(proc) /\ Live(proc)' = Live(proc) \cup {d}
  <2>1. /\ [s \in Slot |-> CallAt(s)]'
              = [[s \in Slot |-> CallAt(s)] EXCEPT ![c] = Exec!Running(p, d), ![d] = Exec!Idle]
        /\ d \notin Live(proc) /\ Live(proc)' = Live(proc) \cup {d}
    BY TwoCallsMove
  <2> QED
    BY <2>1 DEF TwoCalls
<1>2. CallAt(c).at = "asked" /\ CallAt(c).program = p
  BY DEF Exec!Asked
<1>3. Exec!Start(c, d)
  BY <1>1, <1>2 DEF Exec!Start, TwoCalls
<1> QED
  BY <1>3 DEF Carried, Exec!Next

LEMMA Finishes ==
  ASSUME NEW c \in Slot, NEW d \in Slot, TwoCalls(c, d), NEW p,
         CallAt(c) = Exec!Running(p, d), CallAt(d)' = Exec!Idle,
         CallAt(c)' = Exec!Answered(p, proc[d].exitStatus),
         proc[d].state # "free", proc'[d].state = "free"
  PROVE  Carried
<1> DEFINE v == proc[d].exitStatus
<1>1. /\ [s \in Slot |-> CallAt(s)]'
           = [[s \in Slot |-> CallAt(s)] EXCEPT ![c] = Exec!Answered(p, v), ![d] = Exec!Idle]
      /\ d \in Live(proc) /\ Live(proc)' = Live(proc) \ {d}
  BY TwoCallsMove
<1>2. CallAt(c).at = "running" /\ CallAt(c).program = p /\ CallAt(c).child = d
  BY DEF Exec!Running
<1>3. [s \in Slot |-> proc[s].exitStatus][d] = v
  OBVIOUS
<1>4. Exec!Finish(c, d)
  BY <1>1, <1>2, <1>3 DEF Exec!Finish, TwoCalls
<1> QED
  BY <1>4 DEF Carried, Exec!Next

LEMMA ExecInit == Init => Exec!Init
<1> SUFFICES ASSUME Init PROVE Exec!Init
  OBVIOUS
<1>1. phase = "boot"
  BY DEF Init
<1>2. [s \in Slot |-> CallAt(s)] = [s \in Slot |-> Exec!Idle]
  BY <1>1, NoCall
<1> QED
  BY <1>1, <1>2 DEF Exec!Init

LEMMA BootCarried == IInv /\ Boot => Carried
<1> SUFFICES ASSUME IInv, Boot PROVE Carried
  OBVIOUS
<1>1. /\ phase = "boot" /\ proc = [s \in Slot |-> FreeProcess]
      /\ \A s \in Slot : ~app[s].inFlight /\ ~app'[s].inFlight
  <2>1. phase = "boot" /\ app' = app
    BY DEF Boot, LaunchRoot, LaunchRootFails
  <2> QED
    BY <2>1 DEF IInv, BootClean, FreeApp
<1>2. [s \in Slot |-> CallAt(s)]' = [s \in Slot |-> Exec!Idle]
  BY <1>1, NoCall
<1>3. [s \in Slot |-> CallAt(s)] = [s \in Slot |-> Exec!Idle]
  BY <1>1, NoCall
<1>4. CASE LaunchRootFails
  <2>1. phase' = "down"
    BY <1>4 DEF LaunchRootFails
  <2>2. Exec!Close
    BY <1>1, <1>2, <2>1 DEF Exec!Close
  <2> QED
    BY <2>2 DEF Carried, Exec!Next
<1>5. CASE LaunchRoot
  <2>1. free_process_slot \in Slot
    <3>1. 0 \in 0 .. Capacity - 1 /\ 0 \in Slot /\ Live(proc) = 0 .. 0 - 1
      BY <1>1, CapacityAssumption DEF Live, FreeProcess, Slot
    <3> QED
      BY <3>1, FirstFreeSlot
  <2>2. PICK d \in Slot : proc' = [proc EXCEPT ![d] = NewProcess(0, -1)] /\ phase' = "up"
    BY <1>5, <2>1 DEF LaunchRoot
  <2>3. NewProcess(0, -1).state = "running"
    BY DEF NewProcess, FreeProcess
  <2>4. Live(proc)' = {d}
    BY <1>1, <2>2, <2>3 DEF Live, FreeProcess
  <2>5. (phase \in {"stopping", "down"}) = FALSE /\ (phase' \in {"stopping", "down"}) = FALSE
    BY <1>1, <2>2
  <2>6. [s \in Slot |-> CallAt(s)]' = [s \in Slot |-> CallAt(s)]
    BY <1>2, <1>3
  <2>7. Exec!Boot(d)
    BY <1>1, <2>2, <2>4, <2>5, <2>6 DEF Exec!Boot
  <2> QED
    BY <2>7 DEF Carried, Exec!Next
<1> QED
  BY <1>4, <1>5 DEF Boot

LEMMA ShutDownCarried == ShutDown => Carried
<1> SUFFICES ASSUME ShutDown PROVE Carried
  OBVIOUS
<1>1. CASE BeginShutdown
  <2>1. phase' = "stopping"
    BY <1>1 DEF BeginShutdown
  <2>2. [s \in Slot |-> CallAt(s)]' = [s \in Slot |-> Exec!Idle]
    BY <2>1, NoCall
  <2>3. Exec!Close
    BY <2>1, <2>2 DEF Exec!Close
  <2> QED
    BY <2>3 DEF Carried, Exec!Next
<1>2. CASE DestroyHighest \/ EndShutdown
  BY <1>2, NotServed DEF DestroyHighest, EndShutdown
<1> QED
  BY <1>1, <1>2 DEF ShutDown

(* The steps of an update that launch nothing, end nothing and answer no request *)
LEMMA QuietCarried ==
  ASSUME IInv,
         \/ BeginUpdate \/ NoExecRequest \/ NoExit \/ TakeExit \/ Step \/ StepFaults \/ Returned
         \/ \E status : ForceTerminate(status)
         \/ UNCHANGED vars
  PROVE  Carried
<1>1. phase' = phase
  BY DEF BeginUpdate, NoExecRequest, NoExit, TakeExit, Step, StepFaults, Returned,
         ForceTerminate, vars
<1>2. CASE UNCHANGED <<proc, app, story>>
  BY <1>1, <1>2, CallFrame, Stutters DEF SameStory
<1>3. CASE \E cause, status : phase = "up" /\ Fail(cause, status) /\ UNCHANGED <<app, story>>
  <2>1. PICK cause, status : Fail(cause, status)
    BY <1>3
  <2>2. \A s \in Slot : Failing(s, cause, status)
    BY <1>3, <2>1, FailEffect
  <2>3. \A s \in Slot : SameStory(s)
    BY <1>3, <2>2 DEF Failing, SameStory
  <2> QED
    BY <1>1, <2>3, CallFrame, Stutters
<1>4. CASE TakeExit
  BY <1>1, <1>4, TakeExitEffect, SameAll, CallFrame, Stutters
<1>5. CASE Step
  BY <1>1, <1>5, StepEffect, SameAll, CallFrame, Stutters
<1>6. CASE BeginUpdate \/ NoExecRequest \/ NoExit \/ UNCHANGED vars
  BY <1>2, <1>6 DEF BeginUpdate, NoExecRequest, NoExit, table, vars
<1>7. CASE StepFaults \/ Returned \/ \E status : ForceTerminate(status)
  <2>1. phase = "up"
    BY <1>7, UpdateRecord DEF StepFaults, Returned, ForceTerminate
  <2> QED
    BY <1>2, <1>3, <1>7, <2>1 DEF StepFaults, Returned, ForceTerminate, table
<1> QED
  BY <1>4, <1>5, <1>6, <1>7

(* A call that is in flight, as the records place it *)
LEMMA CallPlaced ==
  ASSUME NEW s, phase = "up", app[s].inFlight, ExecPlaced(s)
  PROVE  /\ app[s].execRequested => CallAt(s) = Exec!Asked(app[s].want)
         /\ proc[s].state = "blocked" => CallAt(s) = Exec!Running(app[s].want, s + 1)
         /\ app[s].ready => CallAt(s) = Exec!Answered(app[s].want, app[s].execStatus)
BY DEF CallAt, ExecPlaced, Exec!Asked, Exec!Running, Exec!Answered

LEMMA TakeChildStatusCarried == IInv /\ TakeChildStatus => Carried
<1> SUFFICES ASSUME IInv, TakeChildStatus PROVE Carried
  OBVIOUS
<1>1. ctx \in Slot /\ phase = "up" /\ phase' = phase /\ proc[ctx].state = "running"
  BY UpdateRecord DEF TakeChildStatus, IInv, UpdateContext
<1>2. ASSUME NEW s \in Slot PROVE SameCall(s)
  <2>1. CASE Same(s)
    BY <1>1, <2>1, SameAll, CallFrame
  <2>2. CASE ~Same(s)
    <3>1. /\ s = ctx /\ proc[s].childValid /\ SameEnd(s)
          /\ ~proc'[s].childValid
          /\ app'[s].ready = TRUE /\ app'[s].execStatus = proc[s].childStatus
          /\ app'[s].inFlight = app[s].inFlight /\ app'[s].want = app[s].want
      BY <2>2, TakeEffect
    <3>2. ExecPlaced(s) /\ proc[s].state = "running" /\ proc'[s].state = "running"
      BY <1>1, <3>1, PlacedExec DEF SameEnd
    <3> QED
      BY <1>1, <3>1, <3>2 DEF ExecPlaced, SameCall, CallAt
  <2> QED
    BY <2>1, <2>2
<1> QED
  BY <1>1, <1>2, Stutters

(* elf_update answers a request it could not serve. *)
LEMMA UnlaunchedCarried ==
  ASSUME IInv, phase = "up", phase' = phase, ctx \in Slot, proc[ctx].state # "free",
         app[ctx].execRequested, NEW result \in {InvalidResult, StartFailed},
         Unlaunched(result),
         proc'[ctx].state \notin {"free", "blocked"},
         \A s \in Slot : s # ctx => SameCall(s)
  PROVE  Carried
<1>1. ASSUME NEW s \in Slot, s = ctx PROVE Carried
  <2>1. ExecPlaced(s) /\ app[s].inFlight /\ app[s].execRequested
    BY <1>1, PlacedExec DEF ExecPlaced
  <2>2. CallAt(s) = Exec!Asked(app[s].want)
    BY <2>1, CallPlaced
  <2>3. /\ app'[s].inFlight = app[s].inFlight /\ app'[s].want = app[s].want
        /\ app'[s].ready = TRUE /\ app'[s].execStatus = -(100 + result)
        /\ proc'[s].state # "blocked" /\ proc'[s].state # "free" /\ proc[s].state # "free"
    BY <1>1, UnlaunchedEffect
  <2>4. CallAt(s)' = Exec!Answered(app[s].want, -(100 + result))
    BY <2>1, <2>3 DEF CallAt, Exec!Answered
  <2>5. OneCall(s)
    BY <1>1, <2>3 DEF OneCall
  <2> QED
    BY <2>2, <2>4, <2>5, Refuses
<1> QED
  BY <1>1

LEMMA LaunchRejectedCarried == IInv /\ LaunchRejected => Carried
<1> SUFFICES ASSUME IInv, LaunchRejected PROVE Carried
  OBVIOUS
<1>1. /\ ctx \in Slot /\ phase = "up" /\ UNCHANGED <<proc, phase>> /\ app[ctx].execRequested
      /\ proc[ctx].state = "running"
  BY UpdateRecord DEF LaunchRejected, table, IInv, UpdateContext
<1>2. PICK result \in {InvalidResult, StartFailed} : Unlaunched(result)
  BY DEF LaunchRejected
<1>3. \A s \in Slot : s # ctx => Same(s)
  BY <1>1, <1>2, UnlaunchedEffect DEF Same
<1>4. \A s \in Slot : s # ctx => SameCall(s)
  BY <1>1, <1>3, SameAll, CallFrame
<1> QED
  BY <1>1, <1>2, <1>4, UnlaunchedCarried

LEMMA LaunchFailsCarried ==
  ASSUME IInv, NEW presented \in BOOLEAN, LaunchFails(presented)
  PROVE  Carried
<1>1. /\ ctx \in Slot /\ phase = "up" /\ phase' = phase /\ app[ctx].execRequested
      /\ proc[ctx].state = "running" /\ Unlaunched(StartFailed)
  BY UpdateRecord DEF LaunchFails, CanLaunch, IInv, UpdateContext
<1>2. proc'[ctx].state \notin {"free", "blocked"}
  BY <1>1, LaunchFailsEffect
<1>3. \A s \in Slot : s # ctx => Same(s)
  BY <1>1, LaunchFailsEffect, UnlaunchedEffect DEF Same
<1>4. \A s \in Slot : s # ctx => SameCall(s)
  BY <1>1, <1>3, SameAll, CallFrame
<1> QED
  BY <1>1, <1>2, <1>4, UnlaunchedCarried

LEMMA LaunchChildCarried == IInv /\ Stories /\ LaunchChild => Carried
<1> SUFFICES ASSUME IInv, Stories, LaunchChild PROVE Carried
  OBVIOUS
<1>1. ctx \in Slot /\ phase = "up" /\ phase' = phase /\ app[ctx].execRequested
  BY UpdateRecord DEF LaunchChild, CanLaunch
<1>2. PICK d \in Slot : /\ Blocks(ctx) /\ Starts(d) /\ d = ctx + 1
                        /\ \A s \in Slot : s # ctx /\ s # d => Same(s)
  BY LaunchChildEffect
<1>3. ASSUME NEW c \in Slot, c = ctx PROVE Carried
  <2>1. Blocks(c) /\ ExecPlaced(c) /\ app[c].inFlight /\ app[c].execRequested /\ d = c + 1
    <3>1. Blocks(c) /\ d = c + 1 /\ app[c].execRequested
      BY <1>1, <1>2, <1>3
    <3>2. ExecPlaced(c)
      BY <1>1, <3>1, PlacedExec DEF Blocks
    <3> QED
      BY <3>1, <3>2 DEF ExecPlaced
  <2>2. CallAt(c) = Exec!Asked(app[c].want)
    BY <1>1, <2>1, CallPlaced
  <2>3. CallAt(c)' = Exec!Running(app[c].want, d)
    BY <1>1, <2>1 DEF Blocks, CallAt, Exec!Running
  <2>4. proc[d].state = "free" /\ proc'[d].state # "free" /\ ~app[d].inFlight /\ ~app'[d].inFlight
    <3>1. AnswerOf(d) /\ Starts(d)
      BY <1>2 DEF Stories
    <3> QED
      BY <3>1 DEF AnswerOf, Starts, FreeApp, NewProcess, FreeProcess
  <2>5. CallAt(d) = Exec!Idle /\ CallAt(d)' = Exec!Idle
    BY <2>4, NoCall
  <2>6. TwoCalls(c, d)
    <3>1. \A s \in Slot : s # c /\ s # d => SameCall(s)
      BY <1>1, <1>2, <1>3, SameAll, CallFrame
    <3> QED
      BY <1>1, <2>1, <2>4, <3>1 DEF TwoCalls, Blocks
  <2> QED
    BY <2>2, <2>3, <2>4, <2>5, <2>6, Begins
<1> QED
  BY <1>1, <1>3

LEMMA TailCarried == IInv /\ Stories /\ Tail => Carried
<1> SUFFICES ASSUME IInv, Stories, Tail PROVE Carried
  OBVIOUS
<1>1. phase = "up" /\ phase' = phase /\ fg \in Slot /\ proc[fg].state # "free"
  BY UpdateRecord, LiveSlot DEF Tail, FinishForeground
<1>2. CASE ~proc[ctx].exitRequested
  <2>1. UNCHANGED <<proc, app, story>>
    BY <1>2 DEF Tail, table
  <2> QED
    BY <1>1, <2>1, CallFrame, Stutters DEF SameStory
<1>3. CASE proc[ctx].exitRequested /\ proc[fg].id = 0
  <2>1. proc' = [proc EXCEPT ![fg] = Panicked(@)] /\ UNCHANGED <<app, story>>
    BY <1>3 DEF Tail
  <2>2. \A s \in Slot : SameStory(s)
    BY <1>1, <2>1, PanicEffect
  <2> QED
    BY <1>1, <2>2, CallFrame, Stutters
<1>4. CASE proc[ctx].exitRequested /\ proc[fg].id # 0
  <2>1. PICK presented \in BOOLEAN : FinishForeground(presented)
    BY <1>4 DEF Tail
  <2>2. PICK k \in Slot : /\ Resumes(k) /\ proc'[fg].state = "free" /\ app'[fg] = FreeApp
                          /\ fg = k + 1 /\ proc'[k].childStatus = proc[fg].exitStatus
                          /\ \A s \in Slot : s # k /\ s # fg => Same(s)
    BY <1>1, <1>4, <2>1, FinishEffect
  <2>3. ASSUME NEW d \in Slot, d = fg PROVE Carried
    <3>1. ExecPlaced(k) /\ app[k].inFlight /\ ~app[k].ready
      <4>1. ExecPlaced(k)
        BY <1>1, <2>2, PlacedExec DEF Resumes
      <4> QED
        BY <2>2, <4>1 DEF ExecPlaced, Resumes
    <3>2. CallAt(k) = Exec!Running(app[k].want, d)
      BY <1>1, <2>2, <2>3, <3>1, CallPlaced DEF Resumes
    <3>3. CallAt(k)' = Exec!Answered(app[k].want, proc[d].exitStatus)
      BY <1>1, <2>2, <2>3, <3>1 DEF Resumes, CallAt, Exec!Answered
    <3>4. proc[d].state # "free" /\ proc'[d].state = "free" /\ ~app'[d].inFlight
      BY <1>1, <2>2, <2>3 DEF FreeApp
    <3>5. CallAt(d)' = Exec!Idle
      BY <3>4, NoCall
    <3>6. TwoCalls(k, d)
      <4>1. \A s \in Slot : s # k /\ s # d => SameCall(s)
        BY <1>1, <2>2, <2>3, SameAll, CallFrame
      <4>2. d # k
        BY <2>2, <2>3, <3>4 DEF Resumes
      <4> QED
        BY <1>1, <2>2, <4>1, <4>2 DEF TwoCalls, Resumes
    <3> QED
      BY <3>2, <3>3, <3>4, <3>5, <3>6, Finishes
  <2> QED
    BY <1>1, <2>3
<1> QED
  BY <1>2, <1>3, <1>4

(* A turn at the gate begins a call, goes on with it, or ends it. *)
LEMMA GateCarried ==
  ASSUME IInv, Stories, phase' = phase, NEW s \in Slot, NEW p \in Programs,
         Calls(s), Gate(s, p), \A r \in Slot : r # s => Same(r),
         proc[s].state # "free", app'[s].want = p, app[s].inFlight => p = app[s].want
  PROVE  Carried
<1>1. \A r \in Slot : r # s => SameCall(r)
  BY SameAll, CallFrame
<1>2. CASE phase # "up"
  BY <1>2, NotServed
<1>3. CASE phase = "up"
  <2>1. OneCall(s) /\ ExecPlaced(s)
    BY <1>1, <1>3, PlacedExec DEF OneCall, Calls
  <2>2. CASE app[s].ready
    <3>1. app[s].inFlight /\ ~app'[s].inFlight
      BY <2>1, <2>2 DEF ExecPlaced, Gate
    <3>2. CallAt(s) = Exec!Answered(app[s].want, app[s].execStatus) /\ CallAt(s)' = Exec!Idle
      BY <1>3, <2>1, <2>2, <3>1, CallPlaced, NoCall
    <3> QED
      BY <2>1, <3>2, Returns
  <2>3. CASE ~app[s].inFlight
    <3>1. /\ ~app[s].ready /\ proc[s].state # "blocked" /\ ~proc[s].childValid
          /\ app'[s].inFlight /\ ~app'[s].ready
      BY <2>1, <2>3 DEF ExecPlaced, Gate
    <3>2. CallAt(s) = Exec!Idle
      BY <2>3, NoCall
    <3>3. CallAt(s)' = Exec!Asked(p)
      BY <1>3, <3>1 DEF Calls, CallAt, Exec!Asked
    <3> QED
      BY <2>1, <3>2, <3>3, Asks
  <2>4. CASE app[s].inFlight /\ ~app[s].ready
    <3>1. SameCall(s)
      BY <1>3, <2>4 DEF SameCall, CallAt, Gate, Calls
    <3> QED
      BY <1>1, <3>1, Stutters
  <2> QED
    BY <2>2, <2>3, <2>4
<1> QED
  BY <1>2, <1>3

LEMMA AppStepCarried ==
  ASSUME ~Overlap, IInv, Stories, NEW s \in Slot, AppStep(s)
  PROVE  Carried
<1>1. CASE AppWait(s)
  <2>1. /\ \A r \in Slot : r # s => Same(r)
        /\ Calls(s) /\ Gate(s, app[s].want) /\ app'[s].want = app[s].want
        /\ proc[s].state # "free" /\ phase' = phase /\ app[s].spawned
    BY <1>1, AppWaitEffect DEF AppWait
  <2>2. app[s].want \in Programs
    BY <2>1 DEF Stories, CallOf
  <2> QED
    BY <2>1, <2>2, GateCarried
<1>2. ASSUME NEW p \in Programs, AppExec(s, p)
      PROVE  Carried
  <2>1. /\ \A r \in Slot : r # s => Same(r)
        /\ Calls(s) /\ Gate(s, p) /\ app'[s].want = p
        /\ app[s].call = "exec" => p = app[s].want
        /\ app[s].call # "exec" => ~app[s].spawned
        /\ app[s].call \in {"idle", "exec"} /\ proc[s].state # "free" /\ phase' = phase
    BY <1>2, AppExecEffect DEF AppExec
  <2>2. app[s].inFlight => p = app[s].want
    BY <2>1 DEF Stories, CallOf
  <2> QED
    BY <2>1, <2>2, GateCarried
<1>3. ASSUME NEW p \in Programs, AppSpawn(s, p)
      PROVE  Carried
  <2>1. /\ \A r \in Slot : r # s => Same(r)
        /\ Calls(s) /\ Gate(s, p) /\ app'[s].want = p
        /\ app[s].call = "idle" /\ ~app[s].spawned
        /\ proc[s].state # "free" /\ phase' = phase
    BY <1>3, AppSpawnEffect DEF AppSpawn
  <2>2. ~app[s].inFlight
    BY <2>1 DEF Stories, CallOf
  <2> QED
    BY <2>1, <2>2, GateCarried
<1>4. ASSUME NEW status \in Statuses, AppExit(s, status) \/ AppReturn(s, status)
      PROVE  Carried
  <2>1. phase' = phase
    BY <1>4 DEF AppExit, AppReturn
  <2> QED
    BY <1>4, <2>1, AppEndEffect, SameAll, CallFrame, Stutters
<1> QED
  BY <1>1, <1>2, <1>3, <1>4 DEF AppStep

LEMMA CarriedStep ==
  ASSUME ~Overlap, IInv, Stories, [Next]_vars
  PROVE  Carried
<1>1. CASE UpdateStep
  BY <1>1, TakeChildStatusCarried, LaunchRejectedCarried, LaunchFailsCarried,
     LaunchChildCarried, QuietCarried, TailCarried DEF UpdateStep, LaunchStep
<1> QED
  BY <1>1, BootCarried, ShutDownCarried, QuietCarried, AppStepCarried DEF Next, Stopped

(* The process table, the loader and the gate implement ExecCall, as long as no
   program calls tabos_exec between a spawn and its wait: a call is about one
   program, its child is unloaded in the step that answers it, and the answer is
   the exit status the child had. *)
THEOREM ProcessImplementsExecCall ==
  ASSUME ~Overlap
  PROVE  Spec => Exec!Spec
<1>1. Init => IInv /\ Stories
  BY InitInv, StoriesInit
<1>2. IInv /\ Stories /\ [Next]_vars => (IInv /\ Stories)' /\ Carried
  BY NextInv, StoriesStep, CarriedStep
<1>3. Carried => [Exec!Next]_(Exec!exchange)
  BY DEF Carried
<1> QED
  BY <1>1, <1>2, <1>3, ExecInit, PTL DEF Spec, Exec!Spec

(* StatusesAreTrue: what a process is unloaded with, what a call returns, and the
   way it goes *)
THEOREM StatusesTold ==
  ASSUME ~Overlap
  PROVE  Spec => StatusesAreTrue
BY EndingsAreTrue, AnswersAreTrue, ProcessImplementsExecCall DEF StatusesAreTrue
=============================================================================
