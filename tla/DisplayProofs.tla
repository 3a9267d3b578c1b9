---------------------------- MODULE DisplayProofs ----------------------------
(***************************************************************************)
(* Proofs about Display, for any regions, colours, commands, capacity and  *)
(* number of failures, with every coincidence the model permits: no two of *)
(* the program's thread, the display worker and the terminal are in the    *)
(* driver, which has no lock of its own, but for an open that meets a      *)
(* presentation of the terminal; and no bitmap is read after its program   *)
(* has been freed. Until there has been such a meeting every frame the     *)
(* panel is given is the whole picture, and nothing writes to the buffer   *)
(* that is scanned, unless the last refresh ended between the drain of old *)
(* signals and the choice of a frame.                                      *)
(***************************************************************************)
EXTENDS Display, SequenceTheorems, TLAPS

(* The types the argument needs *)
Places ==
  /\ pc \in [Actor -> AppAt \cup WorkerAt \cup TermAt]
  /\ pc["app"] \in AppAt /\ pc["worker"] \in WorkerAt /\ pc["term"] \in TermAt
  /\ fencing \in [Actor -> BOOLEAN]
  /\ work \in BOOLEAN /\ notified \in BOOLEAN /\ done \in BOOLEAN /\ console \in BOOLEAN
  /\ queue \in Seq(Command)

(* Graphics are open from SuspendTerminal to RestoreTerminal; outside, the
   console lock says who presents the terminal. *)
Sharing ==
  /\ holder = "term" <=> pc["term"] # "rest"
  /\ holder = "app" <=> ~console /\ pc["app"] \in {"draw", "choose", "wait"}
  /\ console => pc["app"] \notin {"none", "begin", "lock", "draw"}
  /\ ~console => pc["app"] \in {"none", "begin", "lock", "draw", "choose", "wait"}

(* The program's thread leaves a point where it waits for a refresh only when
   it has had it. *)
StaysAtFence == fencing["app"] => AtFence("app")

(* A frame is finished, and graphics are closed, with no command left. *)
Drained ==
  /\ pc["app"] \in AppAt \ {"idle", "drain", "reap"} => queue = <<>>
  /\ pc["app"] = "drain" => queue # <<>>

(* Nothing is staged while graphics are closed. *)
Unstaged == ~console \/ pc["app"] = "release" => staged = NoBlit

(* A program that has been freed has no thread in a gate. *)
Loaded == pc["app"] # "none" => source # None

(* While the worker has a frame the program's thread is at a place where it would
   join it, or away from the driver, and the terminal is at rest. *)
Joined ==
  /\ work <=> notified \/ done \/ pc["worker"] # "rest"
  /\ ~(notified /\ done) /\ (notified \/ done => pc["worker"] = "rest")
  /\ work => console /\ ~fencing["app"] /\ pc["term"] = "rest"
             /\ pc["app"] \notin {"lock", "finish", "choose", "wait", "release", "draw"}
  /\ console => pc["term"] = "rest"

IInv == Places /\ Sharing /\ Joined /\ StaysAtFence /\ Drained /\ Unstaged /\ Loaded

USE DisplayAssumption DEF Actor, AppAt, WorkerAt, TermAt

-----------------------------------------------------------------------------
LEMMA InitInv == Init => IInv
<1> SUFFICES ASSUME Init PROVE IInv
  OBVIOUS
<1> USE DEF Init
<1>1. /\ pc["app"] = "none" /\ pc["worker"] = "rest" /\ pc["term"] = "rest"
      /\ ~fencing["app"]
  OBVIOUS
<1>2. pc \in [Actor -> AppAt \cup WorkerAt \cup TermAt]
  OBVIOUS
<1>3. fencing \in [Actor -> BOOLEAN]
  OBVIOUS
<1>4. queue \in Seq(Command)
  OBVIOUS
<1>5. Places
  BY <1>1, <1>2, <1>3, <1>4 DEF Places
<1> QED
  BY <1>1, <1>5 DEF IInv, Sharing, Joined, StaysAtFence, Drained, Unstaged, Loaded

(* What is left of a queue when a command is taken *)
LEMMA TailOfQueue ==
  ASSUME NEW q \in Seq(Command), q # <<>>
  PROVE  /\ Tail(q) \in Seq(Command)
         /\ Len(q) = 1 => Tail(q) = <<>>
         /\ Len(q) # 1 => Tail(q) # <<>>
<1>1. Len(q) \in Nat \ {0}
  BY EmptySeq
<1>2. Tail(q) \in Seq(Command) /\ Len(Tail(q)) = Len(q) - 1
  BY <1>1
<1>3. Len(q) = 1 => Len(Tail(q)) = 0
  BY <1>2
<1>4. Len(q) # 1 => Len(Tail(q)) # 0
  BY <1>1, <1>2
<1> QED
  BY <1>2, <1>3, <1>4, EmptySeq

(* A command is taken from the queue, and the thread goes on to the next one,
   to the overlay, or out of the gate. *)
LEMMA ContinueMoves ==
  ASSUME queue \in Seq(Command), queue # <<>>, Continue
  PROVE  /\ queue' \in Seq(Command)
         /\ \E at \in {"idle", "drain", "cover"} :
              /\ pc' = [pc EXCEPT !["app"] = at]
              /\ at = "drain" => queue' # <<>>
              /\ at = "cover" => queue' = <<>>
  BY TailOfQueue DEF Continue, Idle, Goto

(* That happens with the worker at rest and no refresh waited for, ... *)
LEMMA CommandInv ==
  ASSUME IInv, Executes("app"), staged = NoBlit, Continue, ~fencing["app"],
         UNCHANGED <<work, notified, done, fencing, holder, console, source>>
  PROVE  IInv'
<1> USE DEF IInv, Executes
<1>1. PICK at \in {"idle", "drain", "cover"} :
        /\ pc' = [pc EXCEPT !["app"] = at]
        /\ queue' \in Seq(Command)
        /\ at = "drain" => queue' # <<>>
        /\ at = "cover" => queue' = <<>>
  BY ContinueMoves DEF Drained, Places
<1>2. Places' /\ console
  BY <1>1 DEF Places, Sharing
<1> QED
  BY <1>1, <1>2 DEF Places, Sharing, Joined, StaysAtFence, Drained, Unstaged, Loaded

(* ... when a command is executed, at once or by the worker later, ... *)
LEMMA ExecuteInv ==
  ASSUME IInv, platform_graphics_fill \/ stage_native_blit \/ platform_graphics_blit
  PROVE  IInv'
<1>1. /\ Executes("app") /\ staged = NoBlit /\ Continue
      /\ UNCHANGED <<work, notified, done, fencing, holder, console, source>>
  BY DEF platform_graphics_fill, stage_native_blit, platform_graphics_blit, Executed, job, lock,
         scanout
<1>2. ~fencing["app"]
  BY DEF platform_graphics_fill, stage_native_blit, platform_graphics_blit, IInv, StaysAtFence,
         AtFence, Deferred, Executes, Covers, Reaps, Finishes, Fenced
<1> QED
  BY <1>1, <1>2, CommandInv

(* ... or when the worker that is joined has failed, and the command is lost. *)
LEMMA JoinInv ==
  ASSUME IInv, wait_render_worker
  PROVE  IInv'
<1> USE DEF IInv, wait_render_worker
<1>1. /\ work /\ ~work' /\ ~done' /\ pc["worker"] = "rest" /\ ~notified
      /\ console /\ ~fencing["app"] /\ pc["term"] = "rest"
      /\ UNCHANGED <<notified, fencing, holder, console, staged, source>>
  BY DEF Joined, scanout, stage, lock
<1>2. /\ queue' \in Seq(Command)
      /\ \E at \in {"idle", "drain", "cover", "reap", "leave"} :
           /\ pc' = [pc EXCEPT !["app"] = at]
           /\ at = "drain" => queue' # <<>>
           /\ at \in {"cover", "leave"} => queue' = <<>>
  <2>1. pc' = pc => pc' = [pc EXCEPT !["app"] = pc["app"]]
    BY DEF Places
  <2>2. CASE pc["app"] = "drain" /\ ~succeeded
    BY <2>2, ContinueMoves DEF Places, Drained
  <2>3. CASE ~(pc["app"] = "drain" /\ ~succeeded)
    BY <2>1, <2>3 DEF Places, Drained, Return, Idle, Goto
  <2> QED
    BY <2>2, <2>3
<1>3. Places'
  BY <1>1, <1>2 DEF Places
<1> QED
  BY <1>1, <1>2, <1>3 DEF Places, Sharing, Joined, StaysAtFence, Drained, Unstaged, Loaded

-----------------------------------------------------------------------------
(* What does not move the program's thread *)
LEMMA AppRestsInv ==
  ASSUME IInv, Refresh \/ Repaint \/ Load \/ console_update
  PROVE  IInv'
<1> USE DEF IInv, Places, Sharing, Joined, StaysAtFence, Drained, Unstaged, Loaded, AtFence,
        Deferred, Executes, Covers, Reaps, Finishes, Handed
<1>1. CASE Refresh
  BY <1>1 DEF Refresh, scanout, stage, job, program, lock
<1>2. CASE Repaint
  BY <1>2 DEF Repaint, scanout, stage, job, lock
<1>3. CASE Load
  BY <1>3 DEF Load, scanout, stage, job, lock
<1>4. CASE console_update
  BY <1>4 DEF console_update, Goto, scanout, stage, job, program
<1> QED
  BY <1>1, <1>2, <1>3, <1>4

(* The worker takes a job, or says that it is done: then the program's thread
   is not waiting for the panel, and the worker holds the job. *)
LEMMA WorkerInv ==
  ASSUME IInv, render_worker \/ GiveDone
  PROVE  IInv'
<1> USE DEF IInv, render_worker, GiveDone, Goto
<1>1. /\ pc' \in {[pc EXCEPT !["worker"] = "finish"], [pc EXCEPT !["worker"] = "rest"]}
      /\ UNCHANGED <<fencing, work, holder, console, queue, staged, source>>
  BY DEF scanout, stage, program, lock
<1>2. work /\ ~fencing["app"]
  BY DEF Joined
<1>3. notified' \in BOOLEAN /\ done' \in BOOLEAN
  BY Zenon DEF Places
<1>4. Places'
  BY <1>1, <1>3 DEF Places
<1>5. Joined'
  BY <1>1, <1>2, <1>4 DEF Joined, Places
<1> QED
  BY <1>1, <1>2, <1>4, <1>5 DEF Places, Sharing, StaysAtFence, Drained, Unstaged, Loaded

(* The program queues a command. *)
LEMMA EnqueueInv == IInv /\ elf_graphics_enqueue => IInv'
<1> SUFFICES ASSUME IInv, elf_graphics_enqueue PROVE IInv'
  OBVIOUS
<1>1. PICK c \in Command : queue' = Append(queue, c)
  BY DEF elf_graphics_enqueue, Command
<1>2. /\ pc["app"] = "idle"
      /\ UNCHANGED <<work, notified, done, pc, fencing, holder, console, staged, source>>
  BY DEF elf_graphics_enqueue, scanout, stage, job, lock
<1>3. queue' \in Seq(Command)
  BY <1>1 DEF IInv, Places
<1>4. Places' /\ Joined'
  BY <1>2, <1>3 DEF IInv, Places, Joined
<1> QED
  BY <1>2, <1>4 DEF IInv, Sharing, StaysAtFence, AtFence, Executes, Covers, Reaps, Finishes,
     Drained, Unstaged, Loaded

(* Graphics are opened, ... *)
LEMMA OpenInv ==
  ASSUME IInv, OpenGraphics \/ platform_graphics_begin \/ SuspendTerminal
  PROVE  IInv'
<1> USE DEF IInv, Places, Sharing, Joined, StaysAtFence, Drained, Unstaged, Loaded, AtFence,
        Deferred, Executes, Covers, Reaps, Finishes, Handed, Goto, Fenced
<1>1. CASE OpenGraphics
  BY <1>1 DEF OpenGraphics, scanout, stage, job, program, lock
<1>2. CASE platform_graphics_begin
  BY <1>2 DEF platform_graphics_begin, scanout, stage, job, program, lock
<1>3. CASE SuspendTerminal
  BY <1>3 DEF SuspendTerminal, scanout, stage, job, program, lock
<1> QED
  BY <1>1, <1>2, <1>3

(* ... closed, and the program is freed. *)
LEMMA CloseInv ==
  ASSUME IInv, elf_release_resources \/ platform_graphics_end \/ RestoreTerminal \/ Unload
  PROVE  IInv'
<1> USE DEF IInv, Places, Sharing, Joined, StaysAtFence, Drained, Unstaged, Loaded, AtFence,
        Deferred, Executes, Covers, Reaps, Finishes, Handed, Goto, Fenced
<1>1. CASE elf_release_resources
  BY <1>1 DEF elf_release_resources, scanout, stage, job, program, lock
<1>2. CASE platform_graphics_end
  BY <1>2 DEF platform_graphics_end, scanout, stage, job, program, lock
<1>3. CASE RestoreTerminal
  BY <1>3 DEF RestoreTerminal, scanout, stage, job, program, lock
<1>4. CASE Unload
  BY <1>4 DEF Unload, scanout, stage, job, program, lock
<1> QED
  BY <1>1, <1>2, <1>3, <1>4

(* A gate begins ... *)
LEMMA CallInv ==
  ASSUME IInv, elf_graphics_capabilities \/ MakeRoom \/ elf_graphics_wait
  PROVE  IInv'
<1> USE DEF IInv, Places, Sharing, Joined, StaysAtFence, Drained, Unstaged, Loaded, AtFence,
        Deferred, Executes, Covers, Reaps, Finishes, Handed, Goto, Fenced
<1>1. CASE elf_graphics_capabilities
  BY <1>1 DEF elf_graphics_capabilities, scanout, stage, job, program, lock
<1>2. CASE MakeRoom
  BY <1>2 DEF MakeRoom, scanout, stage, job, program, lock
<1>3. CASE elf_graphics_wait
  BY <1>3 DEF elf_graphics_wait, scanout, stage, job, program, lock
<1> QED
  BY <1>1, <1>2, <1>3

(* ... and goes on. *)
LEMMA GateInv ==
  ASSUME IInv, platform_graphics_overlay \/ platform_graphics_submit \/ Reaped
  PROVE  IInv'
<1> USE DEF IInv, Places, Sharing, Joined, StaysAtFence, Drained, Unstaged, Loaded, AtFence,
        Deferred, Executes, Covers, Reaps, Finishes, Handed, Goto, Fenced
<1>1. CASE platform_graphics_overlay
  BY <1>1 DEF platform_graphics_overlay, Return, Idle, scanout, stage, job, program, lock
<1>2. CASE platform_graphics_submit
  BY <1>2 DEF platform_graphics_submit, Return, Idle, scanout, stage, job, program, lock
<1>3. CASE Reaped
  BY <1>3 DEF Reaped, Return, Idle, scanout, stage, job, program, lock
<1> QED
  BY <1>1, <1>2, <1>3

LEMMA FinishInv ==
  ASSUME NEW g \in {"present", "submit", "borrow", "close"}, IInv, Finish(g)
  PROVE  IInv'
<1> USE DEF IInv, Places, Sharing, Joined
<1>1. /\ pc["app"] = "idle"
      /\ pc' = [pc EXCEPT !["app"] = IF queue = <<>> THEN "cover" ELSE "drain"]
      /\ UNCHANGED <<work, notified, done, fencing, holder, console, queue, staged, source>>
  BY DEF Finish, Goto, scanout, stage, job, lock
<1>2. ~fencing["app"]
  BY <1>1 DEF StaysAtFence, AtFence, Executes, Covers, Reaps, Finishes
<1> QED
  BY <1>1, <1>2 DEF StaysAtFence, Drained, Unstaged, Loaded

(* Whoever draws waits for a refresh and has it, draws what is staged, hands a
   frame or the terminal to the panel, and sees it shown. *)
LEMMA DriverInv ==
  ASSUME NEW a \in Actor, IInv,
         \/ Fence(a) \/ tab5_display_scanout_finish(a) \/ FinishStaged(a)
         \/ submit_native_frame(a) \/ platform_display_present(a) \/ FrameShown(a)
  PROVE  IInv'
<1> USE DEF IInv, Places, Sharing, Joined, StaysAtFence, Drained, Unstaged, Loaded, AtFence,
        Deferred, Executes, Covers, Reaps, Finishes, Handed, Goto, Fenced
<1>1. CASE Fence(a)
  BY <1>1 DEF Fence, stage, job, program, lock
<1>2. CASE tab5_display_scanout_finish(a)
  BY <1>2 DEF tab5_display_scanout_finish, stage, job, program, lock
<1>3. CASE FinishStaged(a)
  BY <1>3 DEF FinishStaged, scanout, job, program, lock
<1>4. CASE submit_native_frame(a)
  BY <1>4 DEF submit_native_frame, scanout, stage, job, program, lock
<1>5. CASE platform_display_present(a)
  BY <1>5 DEF platform_display_present, scanout, stage, job, program, lock
<1>6. CASE FrameShown(a)
  BY <1>6 DEF FrameShown, Finished, Return, Idle, scanout, stage
<1> QED
  BY <1>1, <1>2, <1>3, <1>4, <1>5, <1>6

(* The frame is over for whoever finished it. When the program's thread did,
   it was waiting for no refresh. *)
LEMMA FinishedInv ==
  ASSUME NEW a \in Actor, NEW success \in BOOLEAN, IInv, Finished(a, success),
         pc[a] \in {"finish", "choose"}, pc[a] = "finish" => console,
         a = "app" => ~fencing["app"],
         UNCHANGED <<work, notified, done, fencing, console, queue, source, staged>>
  PROVE  IInv'
<1> USE DEF IInv, Places, Sharing, Joined, Drained, Unstaged, Loaded, Goto
<1>1. CASE a = "worker"
  <2>1. pc' = [pc EXCEPT !["worker"] = "give"] /\ holder' = holder
    BY <1>1 DEF Finished
  <2>2. ~fencing["app"]
    BY <1>1
  <2> QED
    BY <1>1, <2>1, <2>2 DEF StaysAtFence
<1>2. CASE a = "term"
  <2>1. pc' = [pc EXCEPT !["term"] = "rest"] /\ holder' = "free"
    BY <1>2 DEF Finished
  <2>2. ~console /\ holder = "term"
    BY <1>2
  <2>3. AtFence("app") => AtFence("app")'
    BY <2>1, <2>2 DEF AtFence, Executes, Covers, Reaps, Finishes
  <2> QED
    BY <1>2, <2>1, <2>2, <2>3 DEF StaysAtFence
<1>3. CASE a = "app" /\ console
  <2>1. /\ \E at \in {"idle", "leave"} : pc' = [pc EXCEPT !["app"] = at]
        /\ holder' = holder
    BY <1>3 DEF Finished, Return, Idle
  <2> QED
    BY <1>3, <2>1 DEF StaysAtFence
<1>4. CASE a = "app" /\ ~console
  <2>1. pc' = [pc EXCEPT !["app"] = "none"] /\ holder' = "free"
    BY <1>4 DEF Finished
  <2> QED
    BY <1>4, <2>1 DEF StaysAtFence
<1> QED
  BY <1>1, <1>2, <1>3, <1>4

LEMMA RepeatFrameInv ==
  ASSUME NEW a \in Actor, IInv, RepeatFrame(a)
  PROVE  IInv'
<1>1. /\ Finished(a, TRUE) /\ pc[a] = "finish"
      /\ UNCHANGED <<work, notified, done, fencing, console, queue, source, staged>>
  BY DEF RepeatFrame, Finishes, scanout, stage
<1>2. console
  BY <1>1 DEF IInv, Places, Sharing, Joined
<1>3. a = "app" => ~fencing["app"]
  BY <1>1 DEF RepeatFrame, IInv, StaysAtFence, AtFence, Executes, Covers, Reaps, Finishes
<1> QED
  BY <1>1, <1>2, <1>3, FinishedInv

LEMMA RefuseFrameInv ==
  ASSUME NEW a \in Actor, IInv, RefuseFrame(a)
  PROVE  IInv'
<1>1. /\ Finished(a, FALSE) /\ pc[a] = "choose"
      /\ UNCHANGED <<work, notified, done, fencing, console, queue, source, staged>>
  BY DEF RefuseFrame, scanout, stage
<1>2. a = "app" => ~fencing["app"]
  BY <1>1 DEF IInv, StaysAtFence, AtFence, Executes, Covers, Reaps, Finishes
<1> QED
  BY <1>1, <1>2, FinishedInv

LEMMA ChooseFrameInv ==
  ASSUME NEW a \in Actor, IInv, ChooseFrame(a)
  PROVE  IInv'
<1>1. /\ pc[a] = "choose"
      /\ UNCHANGED <<work, notified, done, fencing, console, queue, source, staged>>
  BY DEF ChooseFrame, stage
<1>2. a = "app" => ~fencing["app"]
  BY <1>1 DEF IInv, StaysAtFence, AtFence, Executes, Covers, Reaps, Finishes
<1>3. CASE Waits(a)
  <2>1. pc' = [pc EXCEPT ![a] = "wait"] /\ holder' = holder /\ a # "worker"
    BY <1>3 DEF ChooseFrame, Waits, Goto
  <2>2. CASE a = "app"
    BY <1>1, <1>2, <2>1, <2>2 DEF IInv, Places, Sharing, Joined, StaysAtFence, Drained,
       Unstaged, Loaded
  <2>3. CASE a = "term"
    <3>1. ~console /\ pc["app"] \notin {"leave", "drain", "cover", "reap", "finish"}
      BY <1>1, <2>3 DEF IInv, Sharing, Joined
    <3>2. AtFence("app") => AtFence("app")'
      BY <2>1, <2>3, <3>1 DEF IInv, Places, AtFence, Executes, Covers, Reaps, Finishes
    <3> QED
      BY <1>1, <2>1, <2>3, <3>1, <3>2 DEF IInv, Places, Sharing, Joined, StaysAtFence,
         Drained, Unstaged, Loaded
  <2> QED
    BY <2>1, <2>2, <2>3
<1>4. CASE ~Waits(a)
  BY <1>1, <1>2, <1>4, FinishedInv DEF ChooseFrame
<1> QED
  BY <1>3, <1>4

-----------------------------------------------------------------------------
(* A step of somebody who draws *)
LEMMA DrawsInv == \A a \in Actor : IInv /\ (Draws(a) \/ RefuseFrame(a)) => IInv'
  BY DriverInv, RepeatFrameInv, ChooseFrameInv, RefuseFrameInv DEF Draws

LEMMA StepInv == IInv /\ [Next]_vars => IInv'
<1> SUFFICES ASSUME IInv, [Next]_vars PROVE IInv'
  OBVIOUS
<1>1. CASE Refresh \/ console_update
  BY <1>1, AppRestsInv
<1>2. CASE \E a \in Actor : Draws(a) \/ RefuseFrame(a)
  BY <1>2, DrawsInv
<1>3. CASE render_worker \/ GiveDone
  BY <1>3, WorkerInv
<1>4. CASE Proceeds
  BY <1>4, JoinInv, OpenInv, ExecuteInv, GateInv, CloseInv DEF Proceeds
<1>5. CASE Calls
  BY <1>5, OpenInv, CallInv, EnqueueInv, FinishInv, CloseInv, AppRestsInv DEF Calls
<1>6. CASE UNCHANGED vars
  BY <1>6 DEF vars, IInv, Places, Sharing, Joined, StaysAtFence, AtFence, Deferred, Executes,
     Covers, Reaps, Finishes, Handed, Drained, Unstaged, Loaded, panel, scanout, stage, job,
     program, lock
<1> QED
  BY <1>1, <1>2, <1>3, <1>4, <1>5, <1>6 DEF Next

THEOREM Invariance == Spec => []IInv
<1>1. Init => IInv
  BY InitInv
<1>2. IInv /\ [Next]_vars => IInv'
  BY StepInv
<1> QED
  BY <1>1, <1>2, PTL DEF Spec

(* No two of the program's thread, the worker and the terminal are in the driver
   at once, but for an open that meets a presentation of the terminal; the completion
   of a frame handed to the worker is joined exactly once (wait_render_worker,
   console_set_graphics_active). *)
THEOREM DrawersTakeTurns == Spec => []OneDrawer
<1>1. ASSUME IInv
      PROVE  OneDrawer
  <2> USE <1>1 DEF IInv, Places
  <2>1. AtDriver("worker") => ~AtDriver("app") /\ ~AtDriver("term")
    BY DEF AtDriver, Joined, Sharing
  <2>2. AtDriver("app") /\ AtDriver("term") => pc["app"] = "begin"
    BY DEF AtDriver, Joined, Sharing
  <2> QED
    BY <2>1, <2>2 DEF OneDrawer, Joined
<1> QED
  BY <1>1, Invariance, PTL

(* No staged or queued blit refers to the memory of a program that has been
   freed: graphics are closed before, and a close leaves neither. *)
THEOREM GuestMemoryIsThere == Spec => []GuestMemoryOutlivesReaders
<1>1. IInv => GuestMemoryOutlivesReaders
  BY DEF IInv, Loaded, Unstaged, Drained, Sharing, Places, GuestMemoryOutlivesReaders, NoBlit
<1> QED
  BY <1>1, Invariance, PTL

-----------------------------------------------------------------------------
(* No pixel of the buffer being scanned is written, as long as no open has met a
   presentation of the terminal, and the last refresh has not ended between the drain
   of old signals and the choice of a new frame. *)

(* The types that drawing needs *)
Typed ==
  /\ front \in Buffer /\ pending \in BOOLEAN /\ draw \in Drawing
  /\ staged \in Staged /\ source \in Colour \cup {None}

(* The terminal is not presented while an open is in the driver. *)
OpensAlone == pc["term"] # "rest" => pc["app"] # "begin"

(* Nobody leaves a point where it waits for a refresh before it has had it. *)
AllStay == \A a \in Actor : fencing[a] => pending /\ AtFence(a)

(* A frame is chosen when none is pending. With no frame pending the panel driver
   has the front buffer, with one it has been given the other. The panel scans it,
   in the latter case once a signal has been given, unless the last refresh ended
   early; no signal precedes the choice but that of such a refresh. *)
PanelFollows ==
  /\ early \in BOOLEAN
  /\ \A a \in Actor : pc[a] = "choose" => ~pending /\ (vsync => early)
  /\ chosen = IF pending THEN Back ELSE front
  /\ ~early /\ (pending => vsync) => scanning = chosen

ScanInv == IInv /\ Typed /\ OpensAlone /\ AllStay /\ PanelFollows

HIDE DisplayAssumption
USE DEF Buffer, Back

-----------------------------------------------------------------------------
(* What a drawing operation leaves alone *)
OnlyBack(d, e) == e \in Drawing /\ e.pixels[front] = d.pixels[front]

LEMMA DrawingParts ==
  ASSUME NEW d \in Drawing
  PROVE  /\ d.pixels \in [Buffer -> Picture] /\ d.saved \in [Buffer -> Pixel \cup {None}]
         /\ d.prepared \in BOOLEAN /\ d.dirty \in BOOLEAN /\ d.clear \in Colour \cup {None}
  BY DEF Drawing

LEMMA PaintBack ==
  ASSUME front \in Buffer, NEW d \in Drawing, NEW area, NEW colour \in Pixel
  PROVE  OnlyBack(d, Paint(d, area, colour))
<1> DEFINE picture == [r \in Region |-> IF r \in area THEN colour ELSE d.pixels[Back][r]]
<1>1. picture \in Picture
  BY DrawingParts DEF Picture
<1>2. Paint(d, area, colour) =
        [d EXCEPT !.pixels = [d.pixels EXCEPT ![Back] = picture], !.dirty = TRUE]
  BY DEF Paint, Drawing
<1>3. [d.pixels EXCEPT ![Back] = picture] \in [Buffer -> Picture]
  BY <1>1, DrawingParts
<1>4. Paint(d, area, colour) \in Drawing
  BY <1>2, <1>3, DrawingParts DEF Drawing
<1>5. Paint(d, area, colour).pixels[front] = d.pixels[front]
  BY <1>2, <1>3, DrawingParts DEF Drawing
<1> QED
  BY <1>4, <1>5 DEF OnlyBack

(* The picture on the front buffer, with the overlay taken off again *)
LEMMA UncoveredIsPicture ==
  ASSUME front \in Buffer, NEW d \in Drawing
  PROVE  Uncovered(d) \in Picture
<1>1. d.pixels[front] \in Picture /\ d.saved[front] \in Pixel \cup {None}
  BY DrawingParts
<1>2. d.saved[front] # None =>
        [d.pixels[front] EXCEPT ![Status] = d.saved[front]] \in Picture
  BY <1>1 DEF Picture
<1> QED
  BY <1>1, <1>2 DEF Uncovered

LEMMA PrepareBack ==
  ASSUME front \in Buffer, NEW d \in Drawing, NEW replaces \in BOOLEAN
  PROVE  OnlyBack(d, prepare_direct_back_buffer(d, replaces))
<1> DEFINE picture == IF replaces THEN d.pixels[Back] ELSE Uncovered(d)
           e == [d EXCEPT !.prepared = TRUE, !.saved = [d.saved EXCEPT ![Back] = None],
                          !.pixels = [d.pixels EXCEPT ![Back] = picture]]
<1>1. picture \in Picture
  BY UncoveredIsPicture, DrawingParts
<1>2. [d.pixels EXCEPT ![Back] = picture] \in [Buffer -> Picture]
  BY <1>1, DrawingParts
<1>3. [d.saved EXCEPT ![Back] = None] \in [Buffer -> Pixel \cup {None}]
  BY DrawingParts
<1>4. prepare_direct_back_buffer(d, replaces) = IF d.prepared THEN d ELSE e
  BY DEF prepare_direct_back_buffer, Drawing
<1>5. e \in Drawing
  BY <1>2, <1>3, DrawingParts DEF Drawing
<1>6. e.pixels[front] = d.pixels[front]
  BY <1>2, <1>3, DrawingParts DEF Drawing
<1> QED
  BY <1>4, <1>5, <1>6 DEF OnlyBack

LEMMA FlushBack ==
  ASSUME front \in Buffer, NEW d \in Drawing, NEW covered
  PROVE  OnlyBack(d, flush_direct_clear(d, covered))
<1>1. CASE d.clear = None
  BY <1>1 DEF flush_direct_clear, OnlyBack
<1>2. CASE d.clear # None
  <2> DEFINE p == prepare_direct_back_buffer(d, TRUE)
             q == [p EXCEPT !.clear = None]
  <2>1. OnlyBack(d, p)
    BY PrepareBack
  <2>2. q \in Drawing /\ q.pixels = p.pixels
    BY <2>1 DEF OnlyBack, Drawing
  <2>3. d.clear \in Pixel
    BY <1>2, DrawingParts DEF Pixel
  <2>4. OnlyBack(q, Paint(q, Region \ covered, d.clear))
    BY <2>2, <2>3, PaintBack
  <2>5. flush_direct_clear(d, covered) = Paint(q, Region \ covered, d.clear)
    BY <1>2 DEF flush_direct_clear
  <2> QED
    BY <2>1, <2>2, <2>4, <2>5 DEF OnlyBack
<1> QED
  BY <1>1, <1>2

LEMMA FillBack ==
  ASSUME front \in Buffer, NEW d \in Drawing, NEW area, NEW colour \in Colour
  PROVE  OnlyBack(d, graphics_fill_impl(d, area, colour))
<1>1. CASE area = Region
  BY <1>1, DrawingParts DEF graphics_fill_impl, OnlyBack, Drawing
<1>2. CASE area # Region
  <2> DEFINE p == flush_direct_clear(d, {})
             q == prepare_direct_back_buffer(p, FALSE)
  <2>1. OnlyBack(d, p)
    BY FlushBack
  <2>2. OnlyBack(p, q)
    BY <2>1, PrepareBack DEF OnlyBack
  <2>3. OnlyBack(q, Paint(q, area, colour))
    BY <2>2, PaintBack DEF OnlyBack, Pixel
  <2> QED
    BY <1>2, <2>1, <2>2, <2>3 DEF graphics_fill_impl, OnlyBack
<1> QED
  BY <1>1, <1>2

LEMMA BlitBack ==
  ASSUME front \in Buffer, NEW d \in Drawing, NEW area, NEW colour \in Colour,
         NEW accelerated
  PROVE  OnlyBack(d, native_blit(d, area, colour, accelerated))
<1> DEFINE p == flush_direct_clear(d, IF accelerated THEN area ELSE {})
           q == prepare_direct_back_buffer(p, FALSE)
<1>1. OnlyBack(d, p)
  BY FlushBack
<1>2. OnlyBack(p, q)
  BY <1>1, PrepareBack DEF OnlyBack
<1>3. OnlyBack(q, Paint(q, area, colour))
  BY <1>2, PaintBack DEF OnlyBack, Pixel
<1> QED
  BY <1>1, <1>2, <1>3 DEF native_blit, OnlyBack

LEMMA BackPicture ==
  ASSUME front \in Buffer, NEW d \in Drawing
  PROVE  d.pixels[Back] \in Picture /\ d.pixels[Back][Status] \in Pixel
<1>1. d.pixels[Back] \in Picture
  BY DrawingParts
<1> QED
  BY <1>1, DisplayAssumption DEF Picture

(* The back buffer gets a mark where the overlay is, or what it covered. *)
LEMMA StatusBack ==
  ASSUME front \in Buffer, NEW d \in Drawing, NEW pixel \in Pixel, NEW keep \in Pixel \cup {None},
         NEW e,
         e = [d EXCEPT !.saved = [d.saved EXCEPT ![Back] = keep],
                       !.pixels = [d.pixels EXCEPT ![Back] = [@ EXCEPT ![Status] = pixel]]]
  PROVE  OnlyBack(d, e)
<1>0. d.pixels[Back] \in Picture
  BY BackPicture
<1>1. [d.pixels[Back] EXCEPT ![Status] = pixel] \in Picture
  BY <1>0 DEF Picture
<1>2. [d.pixels EXCEPT ![Back] = [@ EXCEPT ![Status] = pixel]] \in [Buffer -> Picture]
  BY <1>1, DrawingParts
<1>3. [d.saved EXCEPT ![Back] = keep] \in [Buffer -> Pixel \cup {None}]
  BY DrawingParts
<1>4. e \in Drawing
  BY <1>2, <1>3, DrawingParts DEF Drawing
<1>5. e.pixels[front] = d.pixels[front]
  BY <1>2, <1>3, DrawingParts DEF Drawing
<1> QED
  BY <1>4, <1>5 DEF OnlyBack

LEMMA OverlayBack ==
  ASSUME front \in Buffer, NEW d \in Drawing, NEW visible \in BOOLEAN
  PROVE  OnlyBack(d, graphics_overlay_impl(d, visible))
<1> DEFINE p == flush_direct_clear(d, {})
           q == prepare_direct_back_buffer(p, FALSE)
<1>1. OnlyBack(d, p)
  BY FlushBack
<1>2. OnlyBack(p, q)
  BY <1>1, PrepareBack DEF OnlyBack
<1>3. CASE visible
  <2>0. q \in Drawing
    BY <1>2 DEF OnlyBack
  <2> HIDE DEF q
  <2>1. q.pixels[Back][Status] \in Pixel
    BY <2>0, BackPicture
  <2> USE DEF q
  <2>b. Mark \in Pixel
    BY DEF Pixel
  <2> DEFINE r == [q EXCEPT !.saved = [q.saved EXCEPT ![Back] = q.pixels[Back][Status]],
                            !.pixels = [q.pixels EXCEPT ![Back] = [@ EXCEPT ![Status] = Mark]]]
  <2>2. OnlyBack(q, r)
    BY <2>0, <2>1, <2>b, StatusBack
  <2>3. graphics_overlay_impl(d, visible) = [r EXCEPT !.dirty = TRUE]
    BY <1>2, <1>3 DEF graphics_overlay_impl, OnlyBack, Drawing
  <2>4. OnlyBack(r, [r EXCEPT !.dirty = TRUE])
    BY <2>2, DrawingParts DEF OnlyBack, Drawing
  <2> QED
    BY <1>1, <1>2, <2>2, <2>3, <2>4 DEF OnlyBack
<1>4. CASE ~visible
  <2>1. OnlyBack(q, [q EXCEPT !.dirty = TRUE])
    BY <1>2, DrawingParts DEF OnlyBack, Drawing
  <2> QED
    BY <1>1, <1>2, <1>4, <2>1 DEF graphics_overlay_impl, OnlyBack
<1> QED
  BY <1>3, <1>4

LEMMA UncoverBack ==
  ASSUME front \in Buffer, NEW d \in Drawing
  PROVE  OnlyBack(d, uncover(d))
<1>1. CASE d.saved[Back] = None
  BY <1>1 DEF uncover, OnlyBack
<1>2. CASE d.saved[Back] # None
  <2>1. d.saved[Back] \in Pixel
    BY <1>2, DrawingParts
  <2> DEFINE e == [d EXCEPT !.saved = [d.saved EXCEPT ![Back] = None],
                            !.pixels = [d.pixels EXCEPT ![Back] =
                                          [@ EXCEPT ![Status] = d.saved[Back]]]]
  <2>2. OnlyBack(d, e)
    BY <2>1, StatusBack
  <2>3. uncover(d) = e
    BY <1>2 DEF uncover, Drawing
  <2> QED
    BY <2>2, <2>3
<1> QED
  BY <1>1, <1>2

-----------------------------------------------------------------------------
(* Whoever is about to wait for the panel, to draw or to hand it a frame *)
Busy(a) == AtFence(a) \/ pc[a] \in {"finish", "choose"}

LEMMA OneIsBusy ==
  ASSUME IInv, OpensAlone, NEW a \in Actor, NEW b \in Actor, Busy(a), Busy(b)
  PROVE  a = b
<1> USE DEF IInv, Places, Busy, AtFence, Executes, Covers, Reaps, Finishes
<1>1. Busy("worker") => work
  BY DEF Joined
<1>2. Busy("worker") => ~Busy("app") /\ ~Busy("term")
  BY <1>1 DEF Joined, Sharing
<1>3. Busy("term") => ~Busy("app")
  BY DEF Joined, Sharing, OpensAlone
<1> QED
  BY <1>2, <1>3

LEMMA NobodyWaits ==
  ASSUME ScanInv, ~pending
  PROVE  \A a \in Actor : ~fencing[a]
  BY DEF ScanInv, AllStay

(* With the worker joined and the terminal left alone, nobody waits for the
   panel but the program's thread. *)
LEMMA OnlyAppWaits ==
  ASSUME ScanInv, ~work, ~AtFence("app"), console \/ holder # "term"
  PROVE  \A a \in Actor : ~fencing[a]
<1> USE DEF ScanInv, IInv, AllStay, AtFence, Executes, Covers, Reaps, Finishes
<1>1. pc["worker"] = "rest" /\ pc["term"] = "rest"
  BY DEF Joined, Sharing, Places
<1> QED
  BY <1>1

(* Outside its gates the program's thread does not disturb those who wait. *)
LEMMA OthersStay ==
  ASSUME ScanInv, pc["app"] \in {"none", "idle"},
         UNCHANGED <<fencing, pending, draw, staged>>,
         pc'["worker"] = pc["worker"], pc'["term"] = pc["term"]
  PROVE  AllStay'
<1> USE DEF ScanInv, IInv, Places, AllStay, AtFence, Executes, Covers, Reaps, Finishes, Handed
<1>1. ~fencing["app"]
  OBVIOUS
<1>2. fencing["worker"] => AtFence("worker")'
  OBVIOUS
<1>3. fencing["term"] => AtFence("term")'
  OBVIOUS
<1> QED
  BY <1>1, <1>2, <1>3

(* The panel notices only refreshes, waits for one, and frames handed to it. *)
LEMMA PanelStays ==
  ASSUME Typed, PanelFollows, UNCHANGED <<panel, front, pending>>,
         \A a \in Actor : pc'[a] = "choose" => pc[a] = "choose"
  PROVE  PanelFollows'
  BY DEF Typed, PanelFollows, panel

-----------------------------------------------------------------------------
(* What a step keeps, and what it draws *)
Kept == Typed' /\ OpensAlone' /\ AllStay' /\ PanelFollows'
DrawsBack == draw'.pixels # draw.pixels => ~pending /\ draw'.pixels[front] = draw.pixels[front]

(* A step of the program's thread, or of the worker, that draws nothing and
   leaves the panel alone, at a time when nobody waits for it *)
LEMMA StillStep ==
  ASSUME ScanInv, \A a \in Actor : ~fencing[a],
         UNCHANGED <<panel, scanout>>, draw' \in Drawing, draw'.pixels = draw.pixels,
         staged' \in Staged, source' = source,
         OpensAlone',
         \A a \in Actor : pc'[a] = "choose" => pc[a] = "choose"
  PROVE  Kept /\ DrawsBack
<1>1. Typed'
  BY DEF ScanInv, Typed, scanout
<1>2. AllStay'
  BY DEF AllStay, scanout
<1>3. PanelFollows'
  BY PanelStays DEF ScanInv, scanout
<1> QED
  BY <1>1, <1>2, <1>3 DEF Kept, DrawsBack

(* A step that draws, with no frame pending *)
LEMMA DrawStep ==
  ASSUME ScanInv, ~pending, UNCHANGED <<chosen, scanning, early, scanout>>, OnlyBack(draw, draw'),
         staged' \in Staged, source' = source, OpensAlone',
         \/ UNCHANGED vsync /\ \A a \in Actor : pc'[a] = "choose" => pc[a] = "choose"
         \/ ~vsync'
  PROVE  Kept /\ DrawsBack
<1>1. Typed'
  BY DEF ScanInv, Typed, OnlyBack, scanout
<1>2. AllStay'
  BY NobodyWaits DEF AllStay, scanout
<1>3. PanelFollows'
  BY DEF ScanInv, Typed, PanelFollows, scanout
<1> QED
  BY <1>1, <1>2, <1>3 DEF Kept, DrawsBack, OnlyBack

-----------------------------------------------------------------------------
(* The panel, and those who wait for it *)
LEMMA RefreshKept ==
  ASSUME ScanInv, Refresh
  PROVE  Kept /\ DrawsBack
<1> USE DEF ScanInv, Refresh
<1>1. UNCHANGED <<chosen, front, pending, fencing, draw, staged, source, pc, work, queue,
                  goal, ppa>>
  BY DEF panel, scanout, stage, job, program, lock
<1>2. Typed' /\ OpensAlone'
  BY <1>1 DEF Typed, OpensAlone
<1>3. AllStay'
  BY <1>1 DEF AllStay, AtFence, Deferred, Executes, Covers, Reaps, Finishes, Handed
<1>4. PanelFollows'
  BY <1>1 DEF PanelFollows
<1> QED
  BY <1>1, <1>2, <1>3, <1>4 DEF Kept, DrawsBack

LEMMA FenceKept ==
  ASSUME NEW a \in Actor, ScanInv, Fence(a)
  PROVE  Kept /\ DrawsBack
<1> USE DEF ScanInv, Fence
<1>1. UNCHANGED <<panel, front, pending, draw, staged, source, pc, work, queue, goal, ppa>>
  BY DEF stage, job, program, lock
<1>2. Typed' /\ OpensAlone'
  BY <1>1 DEF Typed, OpensAlone
<1>3. AllStay'
  BY <1>1 DEF AllStay, AtFence, Deferred, Executes, Covers, Reaps, Finishes, Handed, IInv, Places
<1>4. PanelFollows'
  BY <1>1, PanelStays
<1> QED
  BY <1>1, <1>2, <1>3, <1>4 DEF Kept, DrawsBack

LEMMA FinishKept ==
  ASSUME NEW a \in Actor, ScanInv, tab5_display_scanout_finish(a)
  PROVE  Kept /\ DrawsBack
<1> USE DEF ScanInv, tab5_display_scanout_finish
<1>1. UNCHANGED <<chosen, scanning, early, draw, staged, source, pc>> /\ front' = Back /\ pending' = FALSE
      /\ ~vsync'
  BY DEF stage, program
<1>2. Typed' /\ OpensAlone'
  <2>1. front' \in Buffer
    BY <1>1 DEF Typed
  <2> QED
    BY <1>1, <2>1, Zenon DEF Typed, OpensAlone
<1>3. \A b \in Actor : fencing[b] => b = a
  BY OneIsBusy DEF AllStay, Busy
<1>4. AllStay'
  BY <1>3 DEF AllStay, IInv, Places
<1>5. PanelFollows'
  BY <1>1 DEF PanelFollows, AllStay, Typed
<1> QED
  BY <1>1, <1>2, <1>4, <1>5 DEF Kept, DrawsBack

-----------------------------------------------------------------------------
(* A frame is handed to the panel ... *)
LEMMA SubmitKept ==
  ASSUME NEW a \in Actor, ScanInv, submit_native_frame(a)
  PROVE  Kept /\ DrawsBack
<1> USE DEF ScanInv, submit_native_frame, Typed
<1>1. OnlyBack(draw, draw')
  BY DEF OnlyBack
<1>2. /\ ~pending /\ ~vsync' /\ pc' = [pc EXCEPT ![a] = "choose"]
      /\ staged' = staged /\ source' = source /\ UNCHANGED <<chosen, scanning, early, scanout>>
  BY DEF Fenced, Goto, stage, program
<1>3. pc[a] = "finish"
  BY DEF Finishes
<1>4. OpensAlone'
  BY <1>2, <1>3 DEF OpensAlone, IInv, Places
<1> QED
  BY <1>1, <1>2, <1>4, DrawStep

LEMMA PresentKept ==
  ASSUME NEW a \in Actor, ScanInv, platform_display_present(a)
  PROVE  Kept /\ DrawsBack
<1> USE DEF ScanInv, platform_display_present, Typed
<1>1. OnlyBack(draw, draw')
  <2> DEFINE e == [draw EXCEPT !.pixels = [draw.pixels EXCEPT ![Back] = Terminal],
                               !.saved = [draw.saved EXCEPT ![Back] = None]]
  <2>1. Terminal \in Picture
    BY DEF Terminal, Picture, Pixel
  <2>2. [draw.pixels EXCEPT ![Back] = Terminal] \in [Buffer -> Picture]
    BY <2>1, DrawingParts
  <2>3. [draw.saved EXCEPT ![Back] = None] \in [Buffer -> Pixel \cup {None}]
    BY DrawingParts
  <2>4. e \in Drawing
    BY <2>2, <2>3, DrawingParts DEF Drawing
  <2>5. e.pixels[front] = draw.pixels[front]
    BY <2>2, <2>3, DrawingParts DEF Drawing
  <2>6. draw' = e
    BY DEF Drawing
  <2> QED
    BY <2>4, <2>5, <2>6 DEF OnlyBack
<1>2. /\ ~pending /\ ~vsync' /\ pc' = [pc EXCEPT ![a] = "choose"]
      /\ staged' = staged /\ source' = source /\ UNCHANGED <<chosen, scanning, early, scanout>>
  BY DEF Fenced, Goto, stage, program
<1>3. OpensAlone'
  BY <1>2 DEF OpensAlone, IInv, Places
<1> QED
  BY <1>1, <1>2, <1>3, DrawStep

(* ... which takes it, ... *)
LEMMA FinishedMoves ==
  ASSUME NEW a \in Actor, NEW success \in BOOLEAN, IInv, Finished(a, success)
  PROVE  \E at \in {"give", "leave", "idle", "none", "rest"} :
           pc' = [pc EXCEPT ![a] = at] /\ (a = "term" => at = "rest")
  BY DEF Finished, Return, Idle, Goto, IInv, Places, Sharing

LEMMA FinishedOpensAlone ==
  ASSUME NEW a \in Actor, NEW success \in BOOLEAN, ScanInv, Finished(a, success)
  PROVE  OpensAlone'
<1>1. PICK at \in {"give", "leave", "idle", "none", "rest"} :
        pc' = [pc EXCEPT ![a] = at] /\ (a = "term" => at = "rest")
  BY FinishedMoves DEF ScanInv
<1> QED
  BY <1>1 DEF ScanInv, OpensAlone, IInv, Places

LEMMA ChooseKept ==
  ASSUME NEW a \in Actor, ScanInv, ChooseFrame(a)
  PROVE  Kept /\ DrawsBack
<1> USE DEF ScanInv, ChooseFrame
<1>1. /\ pc[a] = "choose" /\ ~pending
      /\ chosen' = Back /\ pending' = TRUE
      /\ UNCHANGED <<front, vsync, early, scanning, fencing, staged, source>>
  BY DEF PanelFollows, stage
<1>2. draw' \in Drawing /\ draw'.pixels = draw.pixels
  BY DrawingParts DEF Drawing, Typed
<1>3. /\ \E at \in AppAt \cup WorkerAt \cup TermAt :
           pc' = [pc EXCEPT ![a] = at] /\ at # "choose"
      /\ OpensAlone'
  <2>1. CASE Waits(a)
    BY <2>1 DEF Goto, OpensAlone, Waits, IInv, Places
  <2>2. CASE ~Waits(a)
    BY <2>2, FinishedMoves, FinishedOpensAlone
  <2> QED
    BY <2>1, <2>2
<1>4. \A b \in Actor : pc'[b] # "choose"
  BY <1>1, <1>3, OneIsBusy DEF Busy, IInv, Places
<1>5. Typed'
  BY <1>1, <1>2 DEF Typed
<1>6. AllStay'
  BY <1>1, NobodyWaits DEF AllStay
<1>7. PanelFollows'
  BY <1>1, <1>4 DEF PanelFollows
<1> QED
  BY <1>2, <1>3, <1>5, <1>6, <1>7 DEF Kept, DrawsBack

(* ... or refuses it, ... *)
LEMMA RefuseKept ==
  ASSUME NEW a \in Actor, ScanInv, RefuseFrame(a)
  PROVE  Kept /\ DrawsBack
<1> USE DEF ScanInv, RefuseFrame
<1>1. /\ pc[a] = "choose" /\ ~pending /\ staged' = staged /\ source' = source
      /\ UNCHANGED <<chosen, scanning, early, vsync, scanout>>
  BY DEF PanelFollows, stage, panel
<1>2. OnlyBack(draw, draw')
  BY UncoverBack DEF OnlyBack, Typed
<1>3. OpensAlone'
  BY FinishedOpensAlone
<1>4. \A b \in Actor : pc'[b] = "choose" => pc[b] = "choose"
  BY FinishedMoves DEF IInv, Places
<1> QED
  BY <1>1, <1>2, <1>3, <1>4, DrawStep DEF Typed

(* ... or which goes on with the last one. *)
LEMMA RepeatKept ==
  ASSUME NEW a \in Actor, ScanInv, RepeatFrame(a)
  PROVE  Kept /\ DrawsBack
<1> USE DEF ScanInv, RepeatFrame
<1>1. /\ pc[a] = "finish" /\ ~AtFence(a)
      /\ UNCHANGED <<chosen, scanning, early, front, pending, fencing, draw, staged, source>>
      /\ (vsync' => vsync)
  BY DEF Finishes, AtFence, Executes, Covers, Reaps, scanout, stage
<1>2. \A b \in Actor : ~fencing[b]
  BY <1>1, OneIsBusy DEF AllStay, Busy
<1>3. OpensAlone'
  BY FinishedOpensAlone
<1>4. \A b \in Actor : pc'[b] = "choose" => pc[b] = "choose"
  BY FinishedMoves DEF IInv, Places
<1>5. Typed'
  BY <1>1 DEF Typed
<1>6. AllStay'
  BY <1>1, <1>2 DEF AllStay
<1>7. PanelFollows'
  BY <1>1, <1>4 DEF PanelFollows
<1> QED
  BY <1>1, <1>3, <1>5, <1>6, <1>7 DEF Kept, DrawsBack

LEMMA ShownKept ==
  ASSUME NEW a \in Actor, ScanInv, FrameShown(a)
  PROVE  Kept /\ DrawsBack
<1> USE DEF ScanInv, FrameShown
<1>1. /\ ~pending /\ UNCHANGED <<chosen, scanning, early, vsync, scanout, staged, source>>
  BY DEF Fenced, stage, panel
<1>2. OnlyBack(draw, draw')
  BY DrawingParts DEF OnlyBack, Drawing, Typed
<1>3. OpensAlone'
  BY FinishedOpensAlone
<1>4. \A b \in Actor : pc'[b] = "choose" => pc[b] = "choose"
  BY FinishedMoves DEF IInv, Places
<1> QED
  BY <1>1, <1>2, <1>3, <1>4, DrawStep DEF Typed

-----------------------------------------------------------------------------
(* A gate of the program's thread moves it alone. *)
LEMMA AppOpensAlone ==
  ASSUME ScanInv, NEW at \in AppAt, pc' = [pc EXCEPT !["app"] = at],
         at = "begin" => pc["term"] = "rest"
  PROVE  /\ OpensAlone'
         /\ at # "choose" => \A a \in Actor : pc'[a] = "choose" => pc[a] = "choose"
  BY DEF ScanInv, OpensAlone, IInv, Places

LEMMA StagedDrawing ==
  ASSUME Typed, source # None
  PROVE  OnlyBack(draw, finish_staged_drawing)
<1> DEFINE blitted == IF staged = NoBlit THEN draw
                      ELSE native_blit(draw, staged.area, Bitmap, ppa)
<1>1. OnlyBack(draw, blitted)
  <2>1. staged # NoBlit => Bitmap \in Colour
    BY DEF Bitmap, Typed, Staged
  <2> QED
    BY <2>1, BlitBack DEF OnlyBack, Typed
<1>2. OnlyBack(blitted, graphics_overlay_impl(blitted, cover = "show"))
  BY <1>1, OverlayBack DEF OnlyBack, Typed
<1>3. finish_staged_drawing =
        IF cover = "none" THEN blitted ELSE graphics_overlay_impl(blitted, cover = "show")
  BY DEF finish_staged_drawing
<1> HIDE DEF blitted
<1> QED
  BY <1>1, <1>2, <1>3 DEF OnlyBack

LEMMA FinishStagedKept ==
  ASSUME NEW a \in Actor, ScanInv, FinishStaged(a)
  PROVE  Kept /\ DrawsBack
<1> USE DEF ScanInv, FinishStaged
<1>1. /\ ~pending /\ pc' = pc /\ source' = source /\ staged' = NoBlit
      /\ UNCHANGED <<chosen, scanning, early, vsync, scanout>>
  BY DEF Fenced, program, panel
<1>2. source # None
  BY DEF IInv, Loaded, Joined, Sharing, Places, Executes, Reaps, Finishes
<1>3. OnlyBack(draw, draw')
  BY <1>2, StagedDrawing
<1>4. OpensAlone' /\ staged' \in Staged
  BY <1>1 DEF OpensAlone, Staged
<1> QED
  BY <1>1, <1>3, <1>4, DrawStep

(* The oldest command, and where the thread is after it *)
LEMMA HeadIsCommand ==
  ASSUME ScanInv, Executes("app")
  PROVE  Head(queue) \in Command /\ queue # <<>> /\ source \in Colour /\ ~work
  BY EmptySeq DEF ScanInv, Typed, IInv, Places, Drained, Loaded, Executes

LEMMA ContinueOpensAlone ==
  ASSUME ScanInv, Executes("app"), Continue
  PROVE  /\ OpensAlone'
         /\ \A a \in Actor : pc'[a] = "choose" => pc[a] = "choose"
<1>1. queue \in Seq(Command) /\ queue # <<>>
  BY HeadIsCommand DEF ScanInv, IInv, Places
<1>2. PICK at \in {"idle", "drain", "cover"} : pc' = [pc EXCEPT !["app"] = at]
  BY <1>1, ContinueMoves
<1> QED
  BY <1>2, AppOpensAlone

LEMMA FillKept ==
  ASSUME ScanInv, platform_graphics_fill
  PROVE  Kept /\ DrawsBack
<1> USE DEF ScanInv, platform_graphics_fill
<1> DEFINE c == Head(queue)
<1>1. /\ c \in Command /\ c.type = "fill" /\ ~work
      /\ staged' = staged /\ source' = source /\ UNCHANGED <<panel, scanout>>
  BY HeadIsCommand DEF stage
<1>2. c.colour \in Colour
  BY <1>1 DEF Command
<1>3. OnlyBack(draw, draw')
  BY <1>2, FillBack DEF Typed
<1>4. OpensAlone' /\ \A a \in Actor : pc'[a] = "choose" => pc[a] = "choose"
  BY ContinueOpensAlone DEF Executed
<1>5. CASE c.area = Region
  <2>1. draw' \in Drawing /\ draw'.pixels = draw.pixels
    BY <1>3, <1>5 DEF graphics_fill_impl, OnlyBack, Typed, Drawing
  <2>2. ~AtFence("app") /\ console
    BY <1>1, <1>5 DEF AtFence, Executes, Covers, Reaps, Finishes, Deferred, IInv, Sharing
  <2>3. \A a \in Actor : ~fencing[a]
    BY <1>1, <2>2, OnlyAppWaits
  <2> QED
    BY <1>1, <1>4, <2>1, <2>3, StillStep DEF Typed
<1>6. CASE c.area # Region
  BY <1>1, <1>3, <1>4, <1>6, DrawStep DEF Fenced, Typed, panel
<1> QED
  BY <1>5, <1>6

LEMMA BlitKept ==
  ASSUME ScanInv, platform_graphics_blit
  PROVE  Kept /\ DrawsBack
<1> USE DEF ScanInv, platform_graphics_blit
<1>1. /\ source \in Colour /\ ~pending
      /\ staged' = staged /\ source' = source /\ UNCHANGED <<chosen, scanning, early, vsync, scanout>>
  BY HeadIsCommand DEF stage, panel, Fenced
<1>2. OnlyBack(draw, draw')
  BY <1>1, BlitBack DEF Typed
<1>3. OpensAlone' /\ \A a \in Actor : pc'[a] = "choose" => pc[a] = "choose"
  BY ContinueOpensAlone DEF Executed
<1> QED
  BY <1>1, <1>2, <1>3, DrawStep DEF Typed

LEMMA StageKept ==
  ASSUME ScanInv, stage_native_blit
  PROVE  Kept /\ DrawsBack
<1> USE DEF ScanInv, stage_native_blit
<1> DEFINE c == Head(queue)
<1>1. /\ c \in Command /\ c.type = "blit" /\ source \in Colour /\ ~work
      /\ draw' = draw /\ source' = source /\ UNCHANGED <<panel, scanout>>
  BY HeadIsCommand
<1>2. staged' \in Staged
  <2>1. c.area \in SUBSET Region
    BY <1>1 DEF Command
  <2> QED
    BY <1>1, <2>1 DEF Staged
<1>3. OpensAlone' /\ \A a \in Actor : pc'[a] = "choose" => pc[a] = "choose"
  BY ContinueOpensAlone DEF Executed
<1>4. ~AtFence("app") /\ console
  BY <1>1 DEF AtFence, Executes, Covers, Reaps, Finishes, IInv, Sharing
<1>5. \A a \in Actor : ~fencing[a]
  BY <1>1, <1>4, OnlyAppWaits
<1> QED
  BY <1>1, <1>2, <1>3, <1>5, StillStep DEF Typed

(* The overlay is drawn, or kept for the worker. *)
LEMMA OverlayKept ==
  ASSUME ScanInv, platform_graphics_overlay
  PROVE  Kept /\ DrawsBack
<1> USE DEF ScanInv, platform_graphics_overlay
<1>1. PICK visible \in BOOLEAN :
        IF staged # NoBlit THEN draw' = draw
        ELSE Fenced("app") /\ draw' = graphics_overlay_impl(draw, visible)
  OBVIOUS
<1>2. /\ pc["app"] = "cover" /\ ~work /\ pc' = [pc EXCEPT !["app"] = "finish"]
      /\ staged' = staged /\ source' = source /\ UNCHANGED <<panel, scanout>>
  BY DEF Covers, Goto, program
<1>3. OpensAlone' /\ \A a \in Actor : pc'[a] = "choose" => pc[a] = "choose"
  BY <1>2, AppOpensAlone
<1>4. CASE staged # NoBlit
  <2>1. ~AtFence("app") /\ console
    BY <1>2, <1>4 DEF AtFence, Executes, Covers, Reaps, Finishes, IInv, Sharing
  <2>2. \A a \in Actor : ~fencing[a]
    BY <1>2, <2>1, OnlyAppWaits
  <2> QED
    BY <1>1, <1>2, <1>3, <1>4, <2>2, StillStep DEF Typed
<1>5. CASE staged = NoBlit
  BY <1>1, <1>2, <1>3, <1>5, OverlayBack, DrawStep DEF Fenced, Typed, panel
<1> QED
  BY <1>4, <1>5

(* Graphics begin and end with no frame pending. *)
LEMMA BeginKept ==
  ASSUME ScanInv, platform_graphics_begin
  PROVE  Kept /\ DrawsBack
<1> USE DEF ScanInv, platform_graphics_begin
<1>1. /\ ~pending /\ pc["app"] = "begin" /\ pc' = [pc EXCEPT !["app"] = "lock"]
      /\ staged' = staged /\ source' = source /\ UNCHANGED <<chosen, scanning, early, vsync, scanout>>
  BY DEF Fenced, Goto, stage, program, panel
<1>2. OnlyBack(draw, draw')
  BY DrawingParts DEF OnlyBack, Drawing, Typed
<1>3. OpensAlone' /\ \A a \in Actor : pc'[a] = "choose" => pc[a] = "choose"
  BY <1>1, AppOpensAlone DEF OpensAlone
<1> QED
  BY <1>1, <1>2, <1>3, DrawStep DEF Typed

LEMMA EndKept ==
  ASSUME ScanInv, platform_graphics_end
  PROVE  Kept /\ DrawsBack
<1> USE DEF ScanInv, platform_graphics_end
<1>1. /\ ~pending /\ pc["app"] = "leave" /\ pc' = [pc EXCEPT !["app"] = "release"]
      /\ staged' = NoBlit /\ source' = source /\ UNCHANGED <<chosen, scanning, early, vsync, scanout>>
  BY DEF Fenced, Goto, program, panel
<1>2. OnlyBack(draw, draw')
  BY DrawingParts DEF OnlyBack, Drawing, Typed
<1>3. OpensAlone' /\ \A a \in Actor : pc'[a] = "choose" => pc[a] = "choose"
  BY <1>1, AppOpensAlone
<1>4. staged' \in Staged
  BY <1>1 DEF Staged
<1> QED
  BY <1>1, <1>2, <1>3, <1>4, DrawStep

-----------------------------------------------------------------------------
(* The steps that neither draw nor touch the panel: somebody may wait for it
   while the program is in none of its gates, ... *)
LEMMA OutsideKept ==
  ASSUME ScanInv, UNCHANGED <<panel, scanout, draw, staged>>,
         pc["app"] \in {"none", "idle"}, NEW at \in AppAt \ {"choose", "begin", "lock"},
         pc' = [pc EXCEPT !["app"] = at], source' \in Colour \cup {None}
  PROVE  Kept /\ DrawsBack
<1>1. OpensAlone' /\ \A a \in Actor : pc'[a] = "choose" => pc[a] = "choose"
  BY AppOpensAlone
<1>2. Typed'
  BY DEF ScanInv, Typed, scanout
<1>3. AllStay'
  BY OthersStay DEF scanout, ScanInv, IInv, Places
<1>4. PanelFollows'
  BY <1>1, PanelStays DEF ScanInv, scanout
<1> QED
  BY <1>1, <1>2, <1>3, <1>4 DEF Kept, DrawsBack

LEMMA CallsKept ==
  ASSUME ScanInv,
         \/ elf_graphics_enqueue \/ MakeRoom \/ elf_graphics_wait \/ elf_release_resources
         \/ Repaint \/ Unload \/ Load
         \/ \E g \in {"present", "submit", "borrow", "close"} : Finish(g)
  PROVE  Kept /\ DrawsBack
<1> USE DEF ScanInv, IInv, Places, Typed
<1>0. pc = [pc EXCEPT !["app"] = pc["app"]]
  OBVIOUS
<1>1. CASE elf_graphics_enqueue
  BY <1>0, <1>1, OutsideKept DEF elf_graphics_enqueue, stage
<1>2. CASE MakeRoom \/ elf_graphics_wait \/ elf_release_resources
  BY <1>2, OutsideKept DEF MakeRoom, elf_graphics_wait, elf_release_resources, Goto, stage,
     program
<1>3. CASE Repaint \/ Unload \/ Load
  BY <1>0, <1>3, OutsideKept DEF Repaint, Unload, Load, stage
<1>4. CASE \E g \in {"present", "submit", "borrow", "close"} : Finish(g)
  BY <1>4, OutsideKept DEF Finish, Goto, stage
<1> QED
  BY <1>1, <1>2, <1>3, <1>4

(* ... and nobody does during the others. *)
LEMMA JoinKept ==
  ASSUME ScanInv, wait_render_worker \/ elf_graphics_capabilities
  PROVE  Kept /\ DrawsBack
<1> USE DEF ScanInv, IInv, Places
<1>1. /\ work /\ done /\ source' = source /\ staged' = staged /\ draw' = draw
      /\ UNCHANGED <<panel, scanout>>
  BY DEF wait_render_worker, elf_graphics_capabilities, stage, program
<1>2. \A a \in Actor : ~fencing[a]
  BY <1>1 DEF Joined, AllStay, AtFence, Executes, Covers, Reaps, Finishes
<1>3. \E at \in AppAt \ {"choose", "begin", "lock"} : pc' = [pc EXCEPT !["app"] = at]
  <2>1. pc["app"] \notin {"choose", "begin", "lock"}
    BY DEF wait_render_worker, elf_graphics_capabilities
  <2>2. pc' = pc => pc' = [pc EXCEPT !["app"] = pc["app"]]
    OBVIOUS
  <2>3. CASE wait_render_worker
    BY <2>1, <2>2, <2>3 DEF wait_render_worker, Continue, Return, Idle, Goto
  <2>4. CASE elf_graphics_capabilities
    BY <2>1, <2>2, <2>4 DEF elf_graphics_capabilities
  <2> QED
    BY <2>3, <2>4
<1>4. OpensAlone' /\ \A a \in Actor : pc'[a] = "choose" => pc[a] = "choose"
  BY <1>3, AppOpensAlone
<1> QED
  BY <1>1, <1>2, <1>4, StillStep DEF Typed

LEMMA OpenKept ==
  ASSUME ScanInv, ~met', OpenGraphics \/ SuspendTerminal
  PROVE  Kept /\ DrawsBack
<1> USE DEF ScanInv, IInv, Places
<1>1. /\ source' = source /\ staged' = staged /\ draw' = draw /\ UNCHANGED <<panel, scanout>>
      /\ pc["app"] \in {"none", "lock"} /\ holder # "term"
      /\ \E at \in {"begin", "idle"} : pc' = [pc EXCEPT !["app"] = at]
  BY DEF OpenGraphics, SuspendTerminal, Goto, stage, program
<1>2. ~work /\ pc["term"] = "rest" /\ ~AtFence("app")
  BY <1>1 DEF Joined, Sharing, AtFence, Executes, Covers, Reaps, Finishes
<1>3. \A a \in Actor : ~fencing[a]
  BY <1>1, <1>2, OnlyAppWaits
<1>4. OpensAlone' /\ \A a \in Actor : pc'[a] = "choose" => pc[a] = "choose"
  BY <1>1, <1>2, AppOpensAlone
<1> QED
  BY <1>1, <1>3, <1>4, StillStep DEF Typed

LEMMA GateKept ==
  ASSUME ScanInv, platform_graphics_submit \/ Reaped \/ RestoreTerminal
  PROVE  Kept /\ DrawsBack
<1> USE DEF ScanInv, IInv, Places
<1>1. /\ source' = source /\ staged' = staged /\ draw' = draw /\ UNCHANGED <<panel, scanout>>
      /\ pc["app"] \in {"finish", "reap", "release"} /\ (pc["app"] = "reap" => ~work)
      /\ \E at \in {"leave", "idle", "draw"} : pc' = [pc EXCEPT !["app"] = at]
  BY DEF platform_graphics_submit, Reaped, RestoreTerminal, Reaps, Return, Idle, Goto, stage,
     program
<1>2. ~work /\ console
  BY <1>1 DEF Joined, Sharing
<1>3. ~AtFence("app")
  BY <1>1 DEF platform_graphics_submit, Reaped, RestoreTerminal, AtFence, Executes, Covers,
     Reaps, Finishes
<1>4. \A a \in Actor : ~fencing[a]
  BY <1>2, <1>3, OnlyAppWaits
<1>5. OpensAlone' /\ \A a \in Actor : pc'[a] = "choose" => pc[a] = "choose"
  BY <1>1, AppOpensAlone
<1> QED
  BY <1>1, <1>4, <1>5, StillStep DEF Typed

LEMMA OthersKept ==
  ASSUME ScanInv, ~met', render_worker \/ GiveDone \/ console_update
  PROVE  Kept /\ DrawsBack
<1> USE DEF ScanInv, IInv, Places
<1>1. /\ source' = source /\ staged' = staged /\ draw' = draw /\ UNCHANGED <<panel, scanout>>
  BY DEF render_worker, GiveDone, console_update, stage, program
<1>2. \/ pc["app"] # "begin" /\ pc' = [pc EXCEPT !["term"] = "draw"]
      \/ \E at \in {"finish", "rest"} : pc' = [pc EXCEPT !["worker"] = at]
  BY DEF render_worker, GiveDone, console_update, Goto
<1>3. OpensAlone' /\ \A a \in Actor : pc'[a] = "choose" => pc[a] = "choose"
  BY <1>2 DEF OpensAlone
<1>4. \A a \in Actor : ~fencing[a]
  BY DEF render_worker, GiveDone, console_update, AllStay, Joined, Sharing,
     AtFence, Executes, Covers, Reaps, Finishes
<1> QED
  BY <1>1, <1>3, <1>4, StillStep DEF Typed

-----------------------------------------------------------------------------
LEMMA ScanInit == Init => ScanInv
<1> SUFFICES ASSUME Init PROVE ScanInv
  OBVIOUS
<1> USE DEF Init
<1>1. draw \in Drawing
  <2>1. Terminal \in Picture
    BY DEF Terminal, Picture, Pixel
  <2> QED
    BY <2>1 DEF Drawing
<1>2. Typed
  BY <1>1 DEF Typed, Staged
<1>3. OpensAlone /\ AllStay /\ PanelFollows
  BY DEF OpensAlone, AllStay, PanelFollows
<1> QED
  BY <1>2, <1>3, InitInv DEF ScanInv

LEMMA ScanStep ==
  ASSUME ScanInv, [Next]_vars, ~met'
  PROVE  ScanInv' /\ DrawsBack
<1>1. IInv'
  BY StepInv DEF ScanInv
<1>2. Kept /\ DrawsBack
  <2>1. CASE Refresh
    BY <2>1, RefreshKept
  <2>2. CASE \E a \in Actor : Draws(a) \/ RefuseFrame(a)
    BY <2>2, FenceKept, FinishKept, FinishStagedKept, RepeatKept, SubmitKept, ChooseKept,
       ShownKept, PresentKept, RefuseKept DEF Draws
  <2>3. CASE render_worker \/ GiveDone \/ console_update
    BY <2>3, OthersKept
  <2>4. CASE Proceeds
    BY <2>4, JoinKept, BeginKept, OpenKept, FillKept, StageKept, BlitKept, OverlayKept,
       GateKept, EndKept DEF Proceeds
  <2>5. CASE Calls
    BY <2>5, OpenKept, JoinKept, CallsKept DEF Calls
  <2>6. CASE UNCHANGED vars
    <3>1. UNCHANGED <<panel, scanout, draw, staged, source, pc, work, queue, goal, ppa>>
      BY <2>6 DEF vars, stage, job, program
    <3> QED
      BY <3>1 DEF ScanInv, Kept, DrawsBack, Typed, OpensAlone, AllStay, PanelFollows, AtFence,
         Deferred, Executes, Covers, Reaps, Finishes, Handed, panel, scanout
  <2> QED
    BY <2>1, <2>2, <2>3, <2>4, <2>5, <2>6 DEF Next
<1> QED
  BY <1>1, <1>2 DEF ScanInv, Kept

(* An open has met a presentation for ever, and when it does nothing is drawn. *)
LEMMA MeetingMoves ==
  ASSUME [Next]_vars, ~OpenGraphics, ~console_update
  PROVE  met' = met
<1> USE DEF lock
<1>1. CASE \E a \in Actor : Draws(a) \/ RefuseFrame(a)
  BY <1>1 DEF Draws, RefuseFrame, Fence, tab5_display_scanout_finish, FinishStaged, RepeatFrame,
     submit_native_frame, ChooseFrame, FrameShown, platform_display_present
<1>2. CASE Refresh \/ render_worker \/ GiveDone
  BY <1>2 DEF Refresh, render_worker, GiveDone
<1>3. CASE Proceeds
  BY <1>3 DEF Proceeds, wait_render_worker, platform_graphics_begin, SuspendTerminal,
     platform_graphics_fill, stage_native_blit, platform_graphics_blit,
     platform_graphics_overlay, platform_graphics_submit, Reaped, platform_graphics_end,
     RestoreTerminal
<1>4. CASE Calls
  BY <1>4 DEF Calls, elf_graphics_capabilities, elf_graphics_enqueue, MakeRoom,
     Finish, elf_graphics_wait, elf_release_resources, Repaint, Unload, Load
<1>5. CASE UNCHANGED vars
  BY <1>5 DEF vars
<1> QED
  BY <1>1, <1>2, <1>3, <1>4, <1>5 DEF Next

LEMMA MeetingStays ==
  ASSUME [Next]_vars
  PROVE  /\ met => met'
         /\ met' => met \/ UNCHANGED draw
<1>1. CASE OpenGraphics \/ console_update
  <2>1. draw' = draw /\ \E meets \in BOOLEAN : met' = (met \/ meets)
    BY <1>1 DEF OpenGraphics, console_update
  <2>2. met => met'
    BY <2>1, Zenon
  <2> QED
    BY <2>1, <2>2
<1>2. CASE ~OpenGraphics /\ ~console_update
  <2>1. met' = met
    BY <1>2, MeetingMoves
  <2> QED
    BY <2>1, Zenon
<1> QED
  BY <1>1, <1>2

(* Whatever is drawn, in a program's gate, by the worker, or for the terminal,
   goes into a buffer the panel is not scanning (display_completion.h: the back
   buffer becomes writable only when completion releases the front one), but for
   the two coincidences, in which it may not. *)
THEOREM ScannedIsNotWritten == Spec => BackIsNotScanned
<1>1. Init => met \/ ScanInv
  BY ScanInit
<1>2. (met \/ ScanInv) /\ [Next]_vars => (met \/ ScanInv)'
  BY ScanStep, MeetingStays
<1>3. (met \/ ScanInv) /\ [Next]_vars =>
        [\A b \in Buffer :
           draw'.pixels[b] # draw.pixels[b] => scanning # b \/ early \/ met]_vars
  <2> SUFFICES ASSUME ScanInv, [Next]_vars, NEW b \in Buffer, ~met, ~early,
                      draw'.pixels[b] # draw.pixels[b]
               PROVE  scanning # b
    OBVIOUS
  <2>1. ~pending /\ draw'.pixels[front] = draw.pixels[front]
    BY ScanStep, MeetingStays DEF DrawsBack
  <2> QED
    BY <2>1 DEF ScanInv, PanelFollows
<1> QED
  BY <1>1, <1>2, <1>3, PTL DEF Spec, BackIsNotScanned
-----------------------------------------------------------------------------
(* What is handed to the panel is whole. An overlay is kept with the blit it
   goes on, from the gate that asks for it until the frame is drawn. *)
Covering ==
  /\ notified => staged # NoBlit
  /\ cover # "none" => /\ staged # NoBlit /\ overlay = (cover = "show")
                       /\ pc["app"] = "finish" \/ notified \/ pc["worker"] = "finish"
  /\ staged # NoBlit /\ (pc["app"] = "finish" \/ pc["worker"] = "finish" \/ notified)
       => cover # "none"
  /\ pc["worker"] \in {"choose", "give"} \/ done \/ pc["app"] \in {"choose", "wait"}
       => staged = NoBlit

(* A submit that borrows the bitmap is a gate like the others. *)
Borrowing ==
  goal = "borrow" => console /\ pc["app"] \in {"drain", "cover", "finish", "choose", "wait"}

(* A bitmap that will be read where it is has been lent for as long as that. *)
Lending ==
  /\ lent \in {"no", "queued", "borrowed"}
  /\ staged.from = "guest" => lent = "borrowed"
  /\ goal = "borrow" => lent # "queued"
  /\ (\E i \in DOMAIN queue : queue[i].type = "blit") => lent # "no"

LEMMA CoveringStays ==
  ASSUME Covering, UNCHANGED <<staged, cover, overlay, notified, done>>,
         pc'["worker"] = pc["worker"],
         pc["app"] = "finish" <=> pc'["app"] = "finish",
         pc'["app"] \in {"choose", "wait"} => pc["app"] \in {"choose", "wait"}
  PROVE  Covering'
  BY DEF Covering

LEMMA CoveringMoves ==
  ASSUME ScanInv, Covering, Next
  PROVE  Covering'
<1> USE DEF ScanInv, IInv, Places
<1>1. CASE Refresh
  BY <1>1, CoveringStays DEF Refresh, stage, job, history
<1>2. ASSUME NEW a \in Actor, Fence(a) \/ tab5_display_scanout_finish(a)
      PROVE  Covering'
  BY <1>2, CoveringStays DEF Fence, tab5_display_scanout_finish, stage, job, history
<1>3. ASSUME NEW a \in Actor, FinishStaged(a)
      PROVE  Covering'
  <2>1. ~notified /\ notified' = notified
    BY <1>3 DEF FinishStaged, Executes, Reaps, Finishes, Joined, job
  <2> QED
    BY <1>3, <2>1 DEF FinishStaged, Covering
<1>4. ASSUME NEW a \in Actor, RepeatFrame(a)
      PROVE  Covering'
  <2>1. /\ staged = NoBlit /\ UNCHANGED <<staged, cover, notified>>
    BY <1>4 DEF RepeatFrame, stage, job
  <2> QED
    BY <2>1 DEF Covering
<1>5. ASSUME NEW a \in Actor, submit_native_frame(a)
      PROVE  Covering'
  <2>1. /\ staged = NoBlit /\ UNCHANGED <<staged, cover, notified>>
    BY <1>5 DEF submit_native_frame, stage, job
  <2> QED
    BY <2>1 DEF Covering
<1>6. ASSUME NEW a \in Actor, ChooseFrame(a) \/ RefuseFrame(a) \/ FrameShown(a)
      PROVE  Covering'
  <2>1. pc[a] \in {"choose", "wait"} /\ UNCHANGED <<staged, cover, notified>>
    BY <1>6 DEF ChooseFrame, RefuseFrame, FrameShown, stage
  <2>2. staged = NoBlit
    <3>1. CASE a = "term"
      BY <2>1, <3>1 DEF Joined, Unstaged
    <3> QED
      BY <2>1, <3>1 DEF Covering
  <2> QED
    BY <2>1, <2>2 DEF Covering
<1>7. ASSUME NEW a \in Actor, platform_display_present(a)
      PROVE  Covering'
  <2>1. staged = NoBlit
    BY <1>7 DEF platform_display_present, Sharing, Unstaged, Joined
  <2> QED
    BY <1>7, <2>1 DEF platform_display_present, Covering, stage, job
<1>8. CASE render_worker \/ GiveDone
  BY <1>8 DEF render_worker, GiveDone, Goto, Covering, Joined, stage, history
<1>9. CASE wait_render_worker \/ elf_graphics_capabilities
  <2>1. staged = NoBlit /\ UNCHANGED <<staged, cover, notified>>
    BY <1>9 DEF wait_render_worker, elf_graphics_capabilities, stage, Covering
  <2> QED
    BY <2>1 DEF Covering
<1>10. CASE platform_graphics_begin \/ SuspendTerminal \/ OpenGraphics \/ RestoreTerminal
  BY <1>10, CoveringStays DEF platform_graphics_begin, SuspendTerminal, OpenGraphics,
     RestoreTerminal, Goto, stage, job, history
<1>11. CASE platform_graphics_fill \/ stage_native_blit \/ platform_graphics_blit
  <2>1. /\ pc["app"] = "drain" /\ ~work /\ staged = NoBlit /\ UNCHANGED <<cover, overlay, job>>
        /\ Continue
    BY <1>11 DEF platform_graphics_fill, stage_native_blit, platform_graphics_blit, Executes,
       Executed, stage
  <2>2. pc'["app"] \in {"idle", "cover", "drain"} /\ pc'["worker"] = pc["worker"]
    BY <2>1 DEF Continue, Idle, Goto
  <2> QED
    BY <2>1, <2>2 DEF Covering, Joined, job
<1>12. CASE platform_graphics_overlay
  BY <1>12 DEF platform_graphics_overlay, Covers, Goto, Covering, Joined, job
<1>13. CASE platform_graphics_submit
  BY <1>13 DEF platform_graphics_submit, Handed, Return, Idle, Goto, Covering, Joined, stage, history
<1>14. CASE platform_graphics_end
  BY <1>14 DEF platform_graphics_end, Covering, Joined, job
<1>15. CASE Reaped
  BY <1>15, CoveringStays DEF Reaped, Reaps, Idle, Goto, stage, job, history
<1>16. CASE elf_graphics_enqueue \/ Repaint \/ Unload \/ Load
  BY <1>16, CoveringStays DEF elf_graphics_enqueue, Repaint, Unload, Load, stage, job, history
<1>17. CASE \/ MakeRoom \/ elf_graphics_wait \/ elf_release_resources
            \/ \E g \in {"present", "submit", "borrow", "close"} : Finish(g)
  BY <1>17, CoveringStays DEF MakeRoom, elf_graphics_wait, elf_release_resources, Finish, Goto,
     stage, job, history
<1>18. CASE console_update
  BY <1>18, CoveringStays DEF console_update, Goto, stage, job, history
<1> QED
  BY <1>1, <1>2, <1>3, <1>4, <1>5, <1>6, <1>7, <1>8, <1>9, <1>10, <1>11, <1>12, <1>13, <1>14,
     <1>15, <1>16, <1>17, <1>18 DEF Next, Draws, Proceeds, Calls

LEMMA BorrowingMoves ==
  ASSUME ScanInv, Borrowing, Next
  PROVE  Borrowing'
<1> USE DEF ScanInv, IInv, Places, Borrowing
<1>1. CASE Refresh
  BY <1>1 DEF Refresh, lock
<1>2. ASSUME NEW a \in Actor,
             \/ Fence(a) \/ tab5_display_scanout_finish(a) \/ submit_native_frame(a)
             \/ platform_display_present(a) \/ FinishStaged(a)
      PROVE  Borrowing'
  BY <1>2 DEF Fence, tab5_display_scanout_finish, submit_native_frame,
     platform_display_present, FinishStaged, Goto, lock
<1>3. ASSUME NEW a \in Actor,
             RepeatFrame(a) \/ ChooseFrame(a) \/ RefuseFrame(a) \/ FrameShown(a)
      PROVE  Borrowing'
  BY <1>3 DEF RepeatFrame, ChooseFrame, RefuseFrame, FrameShown, Finished, Return, Idle, Goto
<1>4. CASE \/ render_worker \/ GiveDone \/ elf_graphics_capabilities \/ console_update
           \/ platform_graphics_begin \/ SuspendTerminal \/ OpenGraphics \/ RestoreTerminal
           \/ platform_graphics_end \/ platform_graphics_overlay
  BY <1>4 DEF render_worker, GiveDone, elf_graphics_capabilities, console_update,
     platform_graphics_begin, SuspendTerminal, OpenGraphics, RestoreTerminal, Goto,
     platform_graphics_end, platform_graphics_overlay, Sharing, lock
<1>5. CASE wait_render_worker
  BY <1>5 DEF wait_render_worker, Continue, Return, Idle, Goto, lock
<1>6. CASE platform_graphics_fill \/ stage_native_blit \/ platform_graphics_blit
  BY <1>6 DEF platform_graphics_fill, stage_native_blit, platform_graphics_blit, Executed,
     Continue, Idle, Goto, lock
<1>7. CASE platform_graphics_submit \/ Reaped
  BY <1>7 DEF platform_graphics_submit, Reaped, Return, Idle, Goto, Handed
<1>8. CASE Calls
  BY <1>8 DEF Calls, OpenGraphics, elf_graphics_capabilities, elf_graphics_enqueue, MakeRoom,
     Finish, elf_graphics_wait, elf_release_resources, Repaint, Unload, Load, Goto, Sharing, lock
<1> QED
  BY <1>1, <1>2, <1>3, <1>4, <1>5, <1>6, <1>7, <1>8 DEF Next, Draws, Proceeds

LEMMA LendingStays ==
  ASSUME Lending, UNCHANGED <<staged, lent, goal, queue>>
  PROVE  Lending'
  BY DEF Lending

(* A gate returns when no blit is queued, and with nothing staged when it closes. *)
LEMMA LendingReturns ==
  ASSUME Lending, UNCHANGED <<staged, queue>>, queue = <<>>, NEW success, Return(success),
         goal = "close" /\ success => staged = NoBlit
  PROVE  Lending'
<1>1. ~\E i \in DOMAIN queue : queue[i].type = "blit"
  OBVIOUS
<1>2. CASE goal = "close" /\ success
  BY <1>1, <1>2 DEF Return, Lending, NoBlit
<1>3. CASE ~(goal = "close" /\ success)
  BY <1>1, <1>3 DEF Return, Idle, Lending
<1> QED
  BY <1>2, <1>3

(* A command is taken from the queue: the blits left in it were there. *)
LEMMA LendingContinues ==
  ASSUME Lending, queue \in Seq(Command), queue # <<>>, Continue, lent' = lent,
         staged'.from = "guest" => lent = "borrowed"
  PROVE  Lending'
<1>1. \A i \in DOMAIN queue' : \E k \in DOMAIN queue : queue'[i] = queue[k]
  <2>1. queue' = Tail(queue)
    BY DEF Continue
  <2> QED
    BY <2>1
<1>2. goal' = "borrow" => goal = "borrow"
  BY DEF Continue, Idle
<1> QED
  BY <1>1, <1>2 DEF Lending

LEMMA LendingMoves ==
  ASSUME ScanInv, Covering, Borrowing, Lending, Next
  PROVE  Lending'
<1> USE DEF ScanInv, IInv, Places
<1>1. CASE Refresh
  BY <1>1, LendingStays DEF Refresh, stage, program
<1>2. ASSUME NEW a \in Actor,
             \/ Fence(a) \/ tab5_display_scanout_finish(a) \/ submit_native_frame(a)
             \/ platform_display_present(a)
      PROVE  Lending'
  BY <1>2, LendingStays DEF Fence, tab5_display_scanout_finish, submit_native_frame,
     platform_display_present, stage, program
<1>3. ASSUME NEW a \in Actor, FinishStaged(a)
      PROVE  Lending'
  BY <1>3 DEF FinishStaged, Lending, NoBlit, program
<1>4. ASSUME NEW a \in Actor,
             RepeatFrame(a) \/ ChooseFrame(a) \/ RefuseFrame(a) \/ FrameShown(a)
      PROVE  Lending'
  <2>1. UNCHANGED <<staged, queue>>
    BY <1>4 DEF RepeatFrame, ChooseFrame, RefuseFrame, FrameShown, stage
  <2>2. CASE ChooseFrame(a) /\ Waits(a)
    BY <2>1, <2>2, LendingStays DEF ChooseFrame
  <2>3. CASE ~(ChooseFrame(a) /\ Waits(a))
    <3>1. PICK success \in BOOLEAN : Finished(a, success)
      BY <1>4, <2>3 DEF RepeatFrame, ChooseFrame, RefuseFrame, FrameShown
    <3>2. CASE a = "app" /\ console
      <4>1. pc["app"] \in {"finish", "choose", "wait"} /\ staged = NoBlit
        BY <1>4, <3>2 DEF RepeatFrame, ChooseFrame, RefuseFrame, FrameShown, Finishes, Covering
      <4>2. queue = <<>>
        BY <4>1 DEF Drained
      <4>3. Return(success)
        BY <3>1, <3>2 DEF Finished
      <4> QED
        BY <2>1, <4>1, <4>2, <4>3, LendingReturns
    <3>3. CASE ~(a = "app" /\ console)
      BY <2>1, <3>1, <3>3 DEF Finished, Lending
    <3> QED
      BY <3>2, <3>3
  <2> QED
    BY <2>2, <2>3
<1>5. CASE \/ render_worker \/ GiveDone \/ elf_graphics_capabilities \/ console_update
           \/ platform_graphics_begin \/ SuspendTerminal \/ OpenGraphics \/ RestoreTerminal
           \/ Repaint
  BY <1>5, LendingStays DEF render_worker, GiveDone, elf_graphics_capabilities, console_update,
     platform_graphics_begin, SuspendTerminal, OpenGraphics, RestoreTerminal, Repaint, stage,
     program
<1>6. CASE wait_render_worker
  <2>1. UNCHANGED <<staged>> /\ pc["app"] \in {"drain", "cover", "reap", "leave"}
    BY <1>6 DEF wait_render_worker, stage
  <2>2. CASE succeeded \/ pc["app"] = "leave"
    BY <1>6, <2>1, <2>2, LendingStays DEF wait_render_worker
  <2>3. CASE ~(succeeded \/ pc["app"] = "leave")
    <3>1. CASE pc["app"] = "drain"
      BY <1>6, <2>1, <2>3, <3>1, LendingContinues DEF wait_render_worker, Drained, Lending
    <3>2. CASE pc["app"] = "cover"
      <4>1. Return(FALSE) /\ UNCHANGED queue /\ queue = <<>>
        BY <1>6, <2>3, <3>2 DEF wait_render_worker, Drained
      <4> QED
        BY <2>1, <4>1, LendingReturns
    <3>3. CASE pc["app"] = "reap"
      BY <1>6, <2>1, <2>3, <3>3 DEF wait_render_worker, Idle, Lending
    <3> QED
      BY <2>1, <2>3, <3>1, <3>2, <3>3
  <2> QED
    BY <2>2, <2>3
<1>7. CASE platform_graphics_fill \/ stage_native_blit \/ platform_graphics_blit
  <2>1. queue # <<>> /\ Continue /\ lent' = lent /\ Executes("app")
    BY <1>7 DEF platform_graphics_fill, stage_native_blit, platform_graphics_blit, Executes,
       Executed, Drained
  <2>2. staged'.from = "guest" => lent = "borrowed"
    <3>1. CASE platform_graphics_fill \/ platform_graphics_blit
      BY <3>1 DEF platform_graphics_fill, platform_graphics_blit, Lending, stage
    <3>2. CASE stage_native_blit /\ goal = "borrow"
      <4>1. Head(queue).type = "blit" /\ Head(queue) = queue[1] /\ 1 \in DOMAIN queue
        BY <2>1, <3>2 DEF stage_native_blit
      <4>2. lent # "no" /\ lent # "queued"
        BY <3>2, <4>1 DEF Lending
      <4> QED
        BY <4>2 DEF Lending
    <3>3. CASE stage_native_blit /\ goal # "borrow"
      BY <3>3 DEF stage_native_blit
    <3> QED
      BY <1>7, <3>1, <3>2, <3>3
  <2> QED
    BY <2>1, <2>2, LendingContinues
<1>8. CASE platform_graphics_overlay
  BY <1>8, LendingStays DEF platform_graphics_overlay, program
<1>9. CASE platform_graphics_submit
  <2>1. /\ UNCHANGED <<staged, queue>> /\ Return(TRUE) /\ goal # "close" /\ queue = <<>>
    BY <1>9 DEF platform_graphics_submit, Handed, stage, Drained
  <2> QED
    BY <2>1, LendingReturns
<1>10. CASE platform_graphics_end
  BY <1>10 DEF platform_graphics_end, Lending, NoBlit, program
<1>11. CASE Reaped
  BY <1>11 DEF Reaped, Idle, Lending, NoBlit, stage
<1>12. CASE elf_graphics_enqueue
  <2>1. /\ UNCHANGED <<staged, goal>> /\ goal # "borrow"
        /\ lent' \in {"no", "queued", "borrowed"} /\ (lent = "borrowed" => lent' = "borrowed")
    BY <1>12 DEF elf_graphics_enqueue, stage, Borrowing, Lending
  <2>2. (\E i \in DOMAIN queue' : queue'[i].type = "blit") => lent' # "no"
    <3>1. CASE \E f \in Fills :
                 /\ queue' = Append(queue, [type |-> "fill", area |-> f.area, colour |-> f.colour])
                 /\ UNCHANGED lent
      <4>1. PICK c : queue' = Append(queue, c) /\ c.type = "fill" /\ UNCHANGED lent
        BY <3>1
      <4>2. \A i \in DOMAIN queue' : (i \in DOMAIN queue /\ queue'[i] = queue[i]) \/ queue'[i] = c
        BY <4>1
      <4> QED
        BY <4>1, <4>2 DEF Lending
    <3>2. CASE lent' # "no"
      BY <3>2
    <3> QED
      BY <1>12, <3>1, <3>2 DEF elf_graphics_enqueue
  <2> QED
    BY <2>1, <2>2 DEF Lending
<1>13. CASE MakeRoom \/ elf_graphics_wait
  BY <1>13 DEF MakeRoom, elf_graphics_wait, Lending, stage, program
<1>14. CASE elf_release_resources
  BY <1>14 DEF elf_release_resources, Lending, stage
<1>15. ASSUME NEW g \in {"present", "submit", "borrow", "close"}, Finish(g)
       PROVE  Lending'
  BY <1>15 DEF Finish, Lending, stage
<1>16. CASE Unload
  <2>1. staged = NoBlit /\ queue = <<>>
    BY <1>16 DEF Unload, Unstaged, Sharing, Drained
  <2> QED
    BY <1>16, <2>1 DEF Unload, Lending, NoBlit, stage
<1>17. CASE Load
  BY <1>17, LendingStays DEF Load, stage
<1> QED
  BY <1>1, <1>2, <1>3, <1>4, <1>5, <1>6, <1>7, <1>8, <1>9, <1>10, <1>11, <1>12, <1>13, <1>14,
     <1>15, <1>16, <1>17 DEF Next, Draws, Proceeds, Calls

-----------------------------------------------------------------------------
(* What the drawing operations draw. The picture drawn so far, with no frame
   pending, is the pending clear, or what is on the back buffer since the last
   frame, or that frame without its overlay. *)
Over(picture, area, colour) == [r \in Region |-> IF r \in area THEN colour ELSE picture[r]]
Flat(colour) == [r \in Region |-> colour]

Now(d) ==
  IF d.clear # None THEN Flat(d.clear)
  ELSE IF d.prepared THEN d.pixels[Back] ELSE Uncovered(d)

(* Something has been drawn when the driver says so; the overlay is drawn last. *)
Fit(d) ==
  /\ d.dirty <=> d.prepared \/ d.clear # None
  /\ d.prepared => d.saved[Back] = None

(* The frame of a picture is on the back buffer, with the overlay or without,
   and what the overlay covers is saved; or the picture is on the front one. *)
Composed(d, picture, visible) ==
  /\ d.clear = None /\ (d.dirty <=> d.prepared)
  /\ d.prepared => /\ d.pixels[Back] = Frame(picture, visible)
                   /\ d.saved[Back] = IF visible THEN picture[Status] ELSE None
  /\ ~d.prepared => d.pixels[front] = picture /\ ~visible /\ d.saved[front] = None

Painted(d, area, colour, e) ==
  /\ e \in Drawing /\ e.prepared = d.prepared /\ e.clear = d.clear /\ e.saved = d.saved
  /\ e.dirty = TRUE
  /\ e.pixels[Back] = Over(d.pixels[Back], area, colour)
  /\ e.pixels[front] = d.pixels[front]

LEMMA PaintDraws ==
  ASSUME front \in Buffer, NEW d \in Drawing, NEW area, NEW colour \in Pixel, NEW e,
         e = Paint(d, area, colour)
  PROVE  Painted(d, area, colour, e)
<1> DEFINE picture == Over(d.pixels[Back], area, colour)
           pixels == [d.pixels EXCEPT ![Back] = picture]
<1>1. e \in Drawing /\ e.pixels[front] = d.pixels[front]
  BY PaintBack DEF OnlyBack
<1>2. e = [d EXCEPT !.pixels = pixels, !.dirty = TRUE]
  BY DEF Paint, Over, Drawing
<1>3. pixels[Back] = picture
  BY DrawingParts
<1> HIDE DEF pixels, picture
<1>4. e.pixels = pixels /\ e.prepared = d.prepared /\ e.clear = d.clear /\ e.saved = d.saved
      /\ e.dirty = TRUE
  BY <1>2 DEF Drawing
<1> QED
  BY <1>1, <1>3, <1>4 DEF picture, Painted

LEMMA PrepareDraws ==
  ASSUME front \in Buffer, NEW d \in Drawing, NEW replaces \in BOOLEAN, NEW e,
         e = prepare_direct_back_buffer(d, replaces)
  PROVE  /\ e \in Drawing /\ e.prepared = TRUE /\ e.clear = d.clear /\ e.dirty = d.dirty
         /\ e.saved[front] = d.saved[front] /\ (Fit(d) => e.saved[Back] = None)
         /\ e.pixels[front] = d.pixels[front]
         /\ ~replaces /\ d.clear = None => e.pixels[Back] = Now(d)
<1>1. e \in Drawing /\ e.pixels[front] = d.pixels[front]
  BY PrepareBack DEF OnlyBack
<1>2. CASE d.prepared
  BY <1>1, <1>2, DrawingParts DEF prepare_direct_back_buffer, Fit, Now
<1>3. CASE ~d.prepared
  <2> DEFINE picture == IF replaces THEN d.pixels[Back] ELSE Uncovered(d)
             saved == [d.saved EXCEPT ![Back] = None]
             pixels == [d.pixels EXCEPT ![Back] = picture]
  <2>1. e = [d EXCEPT !.prepared = TRUE, !.saved = saved, !.pixels = pixels]
    BY <1>3 DEF prepare_direct_back_buffer, Drawing
  <2>2. saved[Back] = None /\ saved[front] = d.saved[front]
    BY DrawingParts
  <2>3. pixels[Back] = picture
    BY DrawingParts
  <2> HIDE DEF saved, pixels
  <2>4. e.pixels = pixels /\ e.prepared = TRUE /\ e.clear = d.clear /\ e.saved = saved
        /\ e.dirty = d.dirty
    BY <2>1 DEF Drawing
  <2> QED
    BY <1>1, <1>3, <2>2, <2>3, <2>4 DEF Now
<1> QED
  BY <1>2, <1>3

(* A clear is drawn around what is about to be covered. *)
LEMMA FlushDraws ==
  ASSUME front \in Buffer, NEW d \in Drawing, Fit(d), NEW covered, NEW e,
         e = flush_direct_clear(d, covered)
  PROVE  /\ e \in Drawing /\ e.clear = None /\ Fit(e) /\ e.saved[front] = d.saved[front]
         /\ e.pixels[front] = d.pixels[front]
         /\ d.clear = None => e = d
         /\ d.clear # None => /\ e.prepared
                              /\ \A r \in Region \ covered : e.pixels[Back][r] = d.clear
<1>1. CASE d.clear = None
  BY <1>1 DEF flush_direct_clear
<1>2. CASE d.clear # None
  <2> DEFINE p == prepare_direct_back_buffer(d, TRUE)
             q == [p EXCEPT !.clear = None]
  <2>1. /\ p \in Drawing /\ p.prepared = TRUE /\ p.saved[front] = d.saved[front]
        /\ p.saved[Back] = None /\ p.pixels[front] = d.pixels[front]
    BY PrepareDraws
  <2>2. e = Paint(q, Region \ covered, d.clear)
    BY <1>2 DEF flush_direct_clear
  <2> HIDE DEF p
  <2>3. /\ q \in Drawing /\ q.prepared = TRUE /\ q.saved = p.saved /\ q.pixels = p.pixels
        /\ q.clear = None
    BY <2>1 DEF Drawing
  <2>4. d.clear \in Pixel
    BY <1>2, DrawingParts DEF Pixel
  <2> HIDE DEF q
  <2>5. Painted(q, Region \ covered, d.clear, e)
    BY <2>2, <2>3, <2>4, PaintDraws
  <2>6. \A r \in Region \ covered : e.pixels[Back][r] = d.clear
    BY <2>5 DEF Over, Painted
  <2> QED
    BY <1>2, <2>1, <2>3, <2>5, <2>6 DEF Fit, Painted
<1> QED
  BY <1>1, <1>2

(* It is a picture indeed. *)
LEMMA NowIsPicture ==
  ASSUME front \in Buffer, NEW d \in Drawing
  PROVE  Now(d) \in Picture
<1>1. d.clear # None => d.clear \in Pixel
  BY DrawingParts DEF Pixel
<1> QED
  BY <1>1, BackPicture, UncoveredIsPicture DEF Now, Flat, Picture

(* With nothing about to be covered, a flush leaves the picture as it was. *)
LEMMA FlushKeepsPicture ==
  ASSUME front \in Buffer, NEW d \in Drawing, Fit(d), NEW e, e = flush_direct_clear(d, {})
  PROVE  Now(e) = Now(d)
<1>1. CASE d.clear = None
  BY <1>1, FlushDraws
<1>2. CASE d.clear # None
  <2>1. e \in Drawing /\ e.clear = None /\ e.prepared /\ \A r \in Region : e.pixels[Back][r] = d.clear
    BY <1>2, FlushDraws
  <2>2. e.pixels[Back] \in [Region -> Pixel]
    BY <2>1, BackPicture DEF Picture
  <2>3. e.pixels[Back] = Flat(d.clear)
    BY <2>1, <2>2 DEF Flat
  <2> QED
    BY <1>2, <2>1, <2>3 DEF Now
<1> QED
  BY <1>1, <1>2

(* A fill of the whole picture is deferred, another one is drawn. *)
LEMMA FillDraws ==
  ASSUME front \in Buffer, NEW d \in Drawing, Fit(d), NEW area \in SUBSET Region,
         NEW colour \in Colour, NEW e, e = graphics_fill_impl(d, area, colour)
  PROVE  Fit(e) /\ Now(e) = Over(Now(d), area, colour)
<1>0. colour # None /\ colour \in Pixel
  BY DisplayAssumption DEF Pixel
<1>1. CASE area = Region
  <2>1. e = [d EXCEPT !.clear = colour, !.dirty = TRUE]
    BY <1>1 DEF graphics_fill_impl
  <2>2. e.clear = colour /\ e.dirty = TRUE /\ e.prepared = d.prepared /\ e.saved = d.saved
    BY <2>1 DEF Drawing
  <2>3. Now(e) = Flat(colour) /\ Fit(e)
    BY <1>0, <2>2 DEF Now, Fit
  <2> QED
    BY <1>1, <2>3 DEF Over, Flat
<1>2. CASE area # Region
  <2> DEFINE p == flush_direct_clear(d, {})
             q == prepare_direct_back_buffer(p, FALSE)
  <2>1. p \in Drawing /\ p.clear = None /\ Fit(p)
    BY FlushDraws
  <2>2. Now(p) = Now(d)
    BY FlushKeepsPicture
  <2>3. e = Paint(q, area, colour)
    BY <1>2 DEF graphics_fill_impl
  <2> HIDE DEF p
  <2>4. /\ q \in Drawing /\ q.prepared = TRUE /\ q.clear = None /\ q.saved[Back] = None
        /\ q.pixels[Back] = Now(p)
    BY <2>1, PrepareDraws
  <2> HIDE DEF q
  <2>5. Painted(q, area, colour, e)
    BY <1>0, <2>3, <2>4, PaintDraws
  <2> QED
    BY <2>2, <2>4, <2>5 DEF Fit, Now, Painted
<1> QED
  BY <1>1, <1>2

(* A blit is drawn over the picture, with or without the accelerator. *)
LEMMA BlitDraws ==
  ASSUME front \in Buffer, NEW d \in Drawing, Fit(d), NEW area \in SUBSET Region,
         NEW colour \in Colour, NEW accelerated \in BOOLEAN, NEW e,
         e = native_blit(d, area, colour, accelerated)
  PROVE  e \in Drawing /\ Fit(e) /\ Now(e) = Over(Now(d), area, colour)
<1> DEFINE covered == IF accelerated THEN area ELSE {}
           p == flush_direct_clear(d, covered)
           q == prepare_direct_back_buffer(p, FALSE)
<1>0. colour \in Pixel
  BY DEF Pixel
<1>1. covered \subseteq area
  OBVIOUS
<1> HIDE DEF covered
<1>2. /\ p \in Drawing /\ p.clear = None /\ Fit(p) /\ (d.clear = None => p = d)
      /\ d.clear # None => p.prepared /\ \A r \in Region \ covered : p.pixels[Back][r] = d.clear
  BY FlushDraws
<1>3. e = Paint(q, area, colour)
  BY DEF native_blit, covered
<1> HIDE DEF p
<1>4. /\ q \in Drawing /\ q.prepared = TRUE /\ q.clear = None /\ q.saved[Back] = None
      /\ q.pixels[Back] = Now(p)
  BY <1>2, PrepareDraws
<1> HIDE DEF q
<1>5. Painted(q, area, colour, e)
  BY <1>0, <1>3, <1>4, PaintDraws
<1>6. \A r \in Region \ area : Now(p)[r] = Now(d)[r]
  <2>1. CASE d.clear = None
    BY <1>2, <2>1
  <2>2. CASE d.clear # None
    <3>1. Now(p) = p.pixels[Back] /\ Now(d) = Flat(d.clear)
      BY <1>2, <2>2 DEF Now
    <3> QED
      BY <1>1, <1>2, <2>2, <3>1 DEF Flat
  <2> QED
    BY <2>1, <2>2
<1>7. Over(Now(p), area, colour) = Over(Now(d), area, colour)
  BY <1>6 DEF Over
<1> QED
  BY <1>4, <1>5, <1>7 DEF Fit, Now, Painted

LEMMA FrameFacts ==
  ASSUME NEW picture \in Picture
  PROVE  /\ Frame(picture, FALSE) = picture
         /\ Frame(picture, TRUE) = [picture EXCEPT ![Status] = Mark]
         /\ [Frame(picture, TRUE) EXCEPT ![Status] = picture[Status]] = picture
         /\ picture[Status] \in Pixel /\ picture[Status] # None
<1>1. Status \in Region /\ None \notin Pixel
  BY DisplayAssumption DEF Pixel
<1> QED
  BY <1>1 DEF Frame, Picture

(* The overlay of a frame is drawn on the picture, or none is. *)
LEMMA OverlayDraws ==
  ASSUME front \in Buffer, NEW d \in Drawing, Fit(d), NEW visible \in BOOLEAN, NEW e,
         e = graphics_overlay_impl(d, visible)
  PROVE  Composed(e, Now(d), visible)
<1> DEFINE p == flush_direct_clear(d, {})
           q == prepare_direct_back_buffer(p, FALSE)
<1>1. p \in Drawing /\ p.clear = None /\ Fit(p)
  BY FlushDraws
<1>2. Now(p) = Now(d) /\ Now(d) \in Picture
  BY FlushKeepsPicture, NowIsPicture
<1>3. e = IF visible
            THEN [q EXCEPT !.saved[Back] = q.pixels[Back][Status],
                           !.pixels[Back][Status] = Mark, !.dirty = TRUE]
            ELSE IF p.saved[front] = None THEN p ELSE [q EXCEPT !.dirty = TRUE]
  BY DEF graphics_overlay_impl
<1> HIDE DEF p
<1>4. /\ q \in Drawing /\ q.prepared = TRUE /\ q.clear = None /\ q.saved[Back] = None
      /\ q.pixels[Back] = Now(p)
  BY <1>1, PrepareDraws
<1> HIDE DEF q
<1>5. CASE visible
  <2> DEFINE picture == [q.pixels[Back] EXCEPT ![Status] = Mark]
             pixels == [q.pixels EXCEPT ![Back] = picture]
             saved == [q.saved EXCEPT ![Back] = q.pixels[Back][Status]]
  <2>1. e = [q EXCEPT !.saved = saved, !.pixels = pixels, !.dirty = TRUE]
    BY <1>3, <1>4, <1>5 DEF Drawing
  <2>2. pixels[Back] = picture /\ saved[Back] = q.pixels[Back][Status]
    BY <1>4, DrawingParts
  <2>3. picture = Frame(Now(d), TRUE) /\ visible = TRUE
    BY <1>2, <1>4, <1>5, FrameFacts
  <2> HIDE DEF pixels, saved, picture
  <2>4. e.pixels = pixels /\ e.saved = saved /\ e.prepared = TRUE /\ e.clear = None
        /\ e.dirty = TRUE
    BY <1>4, <2>1 DEF Drawing
  <2> QED
    BY <1>2, <1>4, <1>5, <2>2, <2>3, <2>4 DEF Composed
<1>6. CASE ~visible /\ p.saved[front] = None
  <2>1. e = p
    BY <1>3, <1>6
  <2>2. ~p.prepared => p.pixels[front] = Now(p)
    BY <1>1, <1>6 DEF Now, Uncovered
  <2>3. p.prepared => p.pixels[Back] = Now(p) /\ p.saved[Back] = None
    BY <1>1 DEF Now, Fit
  <2>4. p.dirty <=> p.prepared
    BY <1>1 DEF Fit
  <2>5. Frame(Now(d), visible) = Now(d)
    BY <1>2, <1>6, FrameFacts
  <2> QED
    BY <1>1, <1>2, <1>6, <2>1, <2>2, <2>3, <2>4, <2>5 DEF Composed
<1>7. CASE ~visible /\ p.saved[front] # None
  <2>1. e = [q EXCEPT !.dirty = TRUE]
    BY <1>3, <1>7
  <2>2. e.pixels = q.pixels /\ e.saved = q.saved /\ e.prepared = TRUE /\ e.clear = None
        /\ e.dirty = TRUE
    BY <1>4, <2>1 DEF Drawing
  <2>3. Frame(Now(d), visible) = Now(d)
    BY <1>2, <1>7, FrameFacts
  <2> QED
    BY <1>2, <1>4, <1>7, <2>2, <2>3 DEF Composed
<1> QED
  BY <1>5, <1>6, <1>7

(* A frame without its overlay is the picture again: on the back buffer when the
   panel has refused it, ... *)
LEMMA UncoverDraws ==
  ASSUME front \in Buffer, NEW d \in Drawing, NEW picture \in Picture, NEW visible \in BOOLEAN,
         Composed(d, picture, visible), d.prepared, NEW e, e = uncover(d)
  PROVE  Fit(e) /\ Now(e) = picture
<1>1. CASE ~visible
  <2>1. d.saved[Back] = None /\ e = d /\ d.pixels[Back] = picture
    BY <1>1, FrameFacts DEF Composed, uncover
  <2> QED
    BY <2>1 DEF Composed, Fit, Now
<1>2. CASE visible
  <2> DEFINE pixels == [d.pixels EXCEPT ![Back] = [@ EXCEPT ![Status] = d.saved[Back]]]
             saved == [d.saved EXCEPT ![Back] = None]
  <2>1. d.saved[Back] = picture[Status] /\ d.saved[Back] # None /\ d.pixels[Back] = Frame(picture, TRUE)
    BY <1>2, FrameFacts DEF Composed
  <2>2. e = [d EXCEPT !.pixels = pixels, !.saved = saved]
    BY <2>1 DEF uncover, Drawing
  <2>3. pixels[Back] = picture /\ saved[Back] = None
    <3>1. pixels[Back] = [d.pixels[Back] EXCEPT ![Status] = d.saved[Back]] /\ saved[Back] = None
      BY DrawingParts
    <3> QED
      BY <2>1, <3>1, FrameFacts
  <2> HIDE DEF pixels, saved
  <2>4. e.pixels = pixels /\ e.saved = saved /\ e.prepared = d.prepared /\ e.clear = d.clear
        /\ e.dirty = d.dirty
    BY <2>2 DEF Drawing
  <2>5. e.prepared /\ e.dirty /\ e.clear = None
    BY <2>4, Zenon DEF Composed
  <2> QED
    BY <2>3, <2>4, <2>5 DEF Fit, Now
<1> QED
  BY <1>1, <1>2

(* ... and wherever a buffer is copied from. *)
Stripped(d, b) ==
  IF d.saved[b] = None THEN d.pixels[b] ELSE [d.pixels[b] EXCEPT ![Status] = d.saved[b]]

LEMMA StrippedIsPicture ==
  ASSUME front \in Buffer, NEW d \in Drawing, NEW picture \in Picture, NEW visible \in BOOLEAN,
         Composed(d, picture, visible)
  PROVE  Stripped(d, IF d.prepared THEN Back ELSE front) = picture
<1>1. CASE ~d.prepared
  BY <1>1 DEF Composed, Stripped
<1>2. CASE d.prepared
  BY <1>2, FrameFacts DEF Composed, Stripped
<1> QED
  BY <1>1, <1>2

-----------------------------------------------------------------------------
(* The picture a program has drawn, at any time while graphics are open *)
Latest == IF pending THEN Back ELSE front

Logical ==
  IF draw.clear # None THEN Flat(draw.clear)
  ELSE IF draw.prepared THEN draw.pixels[Back] ELSE Stripped(draw, Latest)

WithStaged(picture) == IF staged = NoBlit THEN picture ELSE Over(picture, staged.area, Bitmap)

Session == console /\ pc["app"] # "release"

Chooses == \E a \in {"app", "worker"} : pc[a] = "choose"
Finishing == Chooses \/ (staged = NoBlit /\ \E a \in {"app", "worker"} : pc[a] = "finish")

Pictures == canvas \in Picture /\ overlay \in BOOLEAN

(* While it is being drawn it is what the driver holds, and the staged blit. *)
Sound ==
  Session /\ ~Finishing /\ pc["app"] # "wait" =>
    /\ Fit(draw) /\ (draw.prepared => ~pending)
    /\ canvas = WithStaged(Logical)

(* When a frame is finished it is ready, with its overlay. *)
Ready ==
  Session /\ Finishing =>
    ~pending /\ Composed(draw, canvas, overlay) /\ (Chooses => draw.prepared)

(* When a gate waits for the panel, it is what was handed over. *)
Settled ==
  console /\ pc["app"] = "wait" => draw.clear = None /\ canvas = Stripped(draw, Latest)

(* When the terminal is handed over, the terminal is on the back buffer. *)
OnTerminal == ~console /\ (\E a \in Actor : pc[a] = "choose") => draw.pixels[Back] = Terminal

Drawn == Pictures /\ Sound /\ Ready /\ Settled /\ OnTerminal

(* Until the terminal is suspended the drawing state is empty, whatever is
   presented. *)
Opened ==
  pc["app"] = "lock" =>
    draw.clear = None /\ ~draw.prepared /\ ~draw.dirty /\ \A b \in Buffer : draw.saved[b] = None

FrameInv == ScanInv /\ Covering /\ Borrowing /\ Lending /\ Opened /\ Drawn

LEMMA OpenedMoves ==
  ASSUME ScanInv, Opened, Next
  PROVE  Opened'
<1> USE DEF ScanInv, IInv, Places
<1>0. CASE platform_graphics_begin
  <2> DEFINE e == [draw EXCEPT !.clear = None, !.prepared = FALSE, !.dirty = FALSE,
                               !.saved = [b \in Buffer |-> None]]
  <2>1. /\ e.clear = None /\ e.prepared = FALSE /\ e.dirty = FALSE
        /\ e.saved = [b \in Buffer |-> None]
    BY DEF Typed, Drawing
  <2>2. draw' = e
    BY <1>0 DEF platform_graphics_begin
  <2> QED
    BY <2>1, <2>2 DEF Opened
<1> SUFFICES ASSUME pc'["app"] = "lock", ~platform_graphics_begin
             PROVE  Opened'
  BY <1>0 DEF Opened
<1>1. ASSUME NEW a \in Actor, Draws(a) \/ RefuseFrame(a)
      PROVE  Opened'
  <2>1. pc["app"] = "lock"
    BY <1>1, FinishedMoves DEF Draws, RefuseFrame, Fence, tab5_display_scanout_finish, FinishStaged,
       RepeatFrame, submit_native_frame, ChooseFrame, FrameShown, platform_display_present, Goto
  <2>2. ~console /\ pc["worker"] = "rest" /\ staged = NoBlit
    BY <2>1 DEF Sharing, Joined, Unstaged
  <2>3. CASE platform_display_present(a)
    BY <2>1, <2>3 DEF Opened, platform_display_present, Typed, Drawing
  <2>4. CASE ~platform_display_present(a)
    <3>1. draw' = draw
      BY <1>1, <2>1, <2>2, <2>4 DEF Draws, RefuseFrame, Fence, tab5_display_scanout_finish,
         FinishStaged, RepeatFrame, submit_native_frame, ChooseFrame, FrameShown, Waits
    <3> QED
      BY <2>1, <3>1 DEF Opened
  <2> QED
    BY <2>3, <2>4
<1>2. CASE Refresh \/ render_worker \/ GiveDone \/ console_update
  BY <1>2 DEF Opened, Refresh, render_worker, GiveDone, console_update, Goto
<1>3. CASE Proceeds
  BY <1>3 DEF Proceeds, wait_render_worker, platform_graphics_begin, SuspendTerminal,
     platform_graphics_fill, stage_native_blit, platform_graphics_blit, Executed, Continue,
     platform_graphics_overlay, platform_graphics_submit, Reaped, platform_graphics_end,
     RestoreTerminal, Return, Idle, Goto
<1>4. CASE Calls
  BY <1>4 DEF Opened, Calls, OpenGraphics, elf_graphics_capabilities, elf_graphics_enqueue, MakeRoom,
     Finish, elf_graphics_wait, elf_release_resources, Repaint, Unload, Load, Goto
<1> QED
  BY <1>1, <1>2, <1>3, <1>4 DEF Next

(* A step that draws nothing and finishes nothing *)
LEMMA DrawnStays ==
  ASSUME Drawn, UNCHANGED <<draw, front, pending, staged, canvas, overlay, console>>,
         staged = NoBlit \/ staged.from # "guest" \/ source' = source,
         Session' => Session, Chooses' <=> Chooses, Finishing' <=> Finishing,
         pc'["app"] = "wait" <=> pc["app"] = "wait", pc'["term"] = "choose" => pc["term"] = "choose"
  PROVE  Drawn'
<1>1. WithStaged(Logical)' = WithStaged(Logical)
  BY DEF WithStaged, Logical, Latest, Stripped, Bitmap
<1>2. Fit(draw)' <=> Fit(draw)
  BY DEF Fit
<1>3. Sound'
  BY <1>1, <1>2 DEF Drawn, Sound
<1>4. Composed(draw, canvas, overlay)' <=> Composed(draw, canvas, overlay)
  BY DEF Composed
<1>5. Ready'
  BY <1>4 DEF Drawn, Ready
<1>6. Settled'
  BY DEF Drawn, Settled, Stripped, Latest
<1>7. OnTerminal'
  BY DEF Drawn, OnTerminal, Terminal, Chooses
<1> QED
  BY <1>3, <1>5, <1>6, <1>7 DEF Drawn, Pictures

LEMMA NowIsLogical ==
  ASSUME ~pending
  PROVE  Logical = Now(draw)
  BY DEF Logical, Now, Latest, Stripped, Uncovered

(* What a step that draws establishes *)
LEMMA SoundAgain ==
  ASSUME ~pending, UNCHANGED <<front, pending>>, NEW e, draw' = e, Fit(e), staged' = NoBlit,
         canvas' = Now(e)
  PROVE  Sound'
<1>1. Fit(draw)' <=> Fit(e)
  BY DEF Fit
<1>2. Logical' = Now(e)
  BY DEF Logical, Now, Latest, Stripped, Uncovered
<1> QED
  BY <1>1, <1>2 DEF Sound, WithStaged

LEMMA ReadyAgain ==
  ASSUME front' = front, ~pending', NEW e, draw' = e, NEW picture, canvas' = picture,
         NEW visible, overlay' = visible, Composed(e, picture, visible), Chooses' => e.prepared
  PROVE  Ready'
<1>1. Composed(draw, canvas, overlay)' <=> Composed(e, picture, visible)
  BY DEF Composed
<1> QED
  BY <1>1 DEF Ready

-----------------------------------------------------------------------------
(* The steps that draw *)

(* Whoever waits at the driver, draws or finishes does so alone, and graphics are
   open unless it is the terminal that is presented. *)
LEMMA AloneAtDriver ==
  ASSUME ScanInv, NEW a \in Actor, Busy(a), console
  PROVE  /\ a # "term" /\ Session
         /\ \A b \in {"app", "worker"} : b # a => pc[b] \notin {"finish", "choose"}
         /\ pc["app"] = "wait" => a = "app"
<1> USE DEF ScanInv, IInv, Places
<1>1. \A b \in Actor : Busy(b) => b = a
  BY OneIsBusy
<1>2. pc["app"] = "wait" => Busy("app")
  BY DEF Busy, AtFence
<1>3. a # "term" /\ Session
  BY DEF Session, Joined, Sharing, Busy, AtFence, Executes, Covers, Reaps, Finishes
<1> QED
  BY <1>1, <1>2, <1>3 DEF Busy

LEMMA StagedDraws ==
  ASSUME FrameInv, staged # NoBlit, ~pending, Session, ~Finishing, pc["app"] # "wait",
         source # None, NEW e, e = finish_staged_drawing
  PROVE  /\ cover = "none" => Fit(e) /\ Now(e) = canvas
         /\ cover # "none" => Composed(e, canvas, cover = "show")
<1> DEFINE b == native_blit(draw, staged.area, Bitmap, ppa)
<1>1. Fit(draw) /\ canvas = Over(Now(draw), staged.area, Bitmap)
  BY NowIsLogical DEF FrameInv, Drawn, Sound, WithStaged
<1>2. front \in Buffer /\ draw \in Drawing /\ Bitmap \in Colour /\ staged.area \in SUBSET Region
  BY DEF FrameInv, ScanInv, Typed, Staged, Bitmap
<1>3. \E accelerated \in BOOLEAN : b = native_blit(draw, staged.area, Bitmap, accelerated)
  <2>1. native_blit(draw, staged.area, Bitmap, ppa)
          = native_blit(draw, staged.area, Bitmap, IF ppa THEN TRUE ELSE FALSE)
    BY DEF native_blit
  <2> QED
    BY <2>1
<1>4. e = IF cover = "none" THEN b ELSE graphics_overlay_impl(b, cover = "show")
  BY DEF finish_staged_drawing
<1> HIDE DEF b
<1>5. b \in Drawing /\ Fit(b) /\ Now(b) = Over(Now(draw), staged.area, Bitmap)
  BY <1>1, <1>2, <1>3, BlitDraws
<1>6. Now(b) = canvas
  BY <1>1, <1>5
<1>7. (cover = "show") \in BOOLEAN
  OBVIOUS
<1>8. cover # "none" => Composed(e, Now(b), cover = "show")
  BY <1>2, <1>4, <1>5, <1>7, OverlayDraws
<1> QED
  BY <1>4, <1>5, <1>6, <1>8

LEMMA FinishStagedDrawn ==
  ASSUME FrameInv, NEW a \in Actor, FinishStaged(a)
  PROVE  Drawn'
<1> USE DEF FrameInv, ScanInv, IInv, Places, FinishStaged
<1>1. /\ ~pending /\ staged # NoBlit /\ staged' = NoBlit /\ pc' = pc
      /\ UNCHANGED <<front, pending, canvas, overlay, console>> /\ draw' = finish_staged_drawing
  BY DEF Fenced, scanout, lock, history
<1>2. Busy(a) /\ console
  BY DEF Busy, AtFence, Unstaged
<1>3. /\ a # "term" /\ Session /\ (pc["app"] = "wait" => a = "app")
      /\ \A b \in {"app", "worker"} : b # a => pc[b] \notin {"finish", "choose"}
  BY <1>2, AloneAtDriver
<1>4. pc[a] \in {"drain", "reap", "finish"} /\ (pc[a] # "finish" => a = "app" /\ ~work)
  BY <1>3 DEF Executes, Reaps, Finishes, Covering
<1>5. ~Chooses /\ ~Finishing /\ pc["app"] # "wait"
  BY <1>1, <1>3, <1>4 DEF Chooses, Finishing
<1>6. source # None
  BY <1>3, <1>4 DEF Loaded, Joined, Sharing
<1>7. PICK e : e = finish_staged_drawing
  OBVIOUS
<1>8. /\ cover = "none" => Fit(e) /\ Now(e) = canvas
      /\ cover # "none" => Composed(e, canvas, cover = "show")
  BY <1>1, <1>3, <1>5, <1>6, <1>7, StagedDraws
<1>9. cover = "none" <=> pc[a] # "finish"
  BY <1>1, <1>3, <1>4 DEF Covering, Joined
<1>10. ~Chooses' /\ console' /\ pc'["app"] # "wait"
  BY <1>1, <1>2, <1>5 DEF Chooses
<1>11. CASE cover = "none"
  <2>1. ~Finishing'
    BY <1>1, <1>3, <1>9, <1>10, <1>11 DEF Finishing
  <2>2. Sound'
    BY <1>1, <1>7, <1>8, <1>11, SoundAgain
  <2> QED
    BY <1>1, <1>10, <2>1, <2>2 DEF Drawn, Pictures, Ready, Settled, OnTerminal
<1>12. CASE cover # "none"
  <2>1. Finishing'
    BY <1>1, <1>3, <1>9, <1>12 DEF Finishing
  <2>2. overlay' = (cover = "show")
    BY <1>1, <1>12 DEF Covering
  <2>3. Ready'
    BY <1>1, <1>7, <1>8, <1>10, <1>12, <2>2, ReadyAgain
  <2> QED
    BY <1>1, <1>10, <2>1, <2>3 DEF Drawn, Pictures, Sound, Settled, OnTerminal
<1> QED
  BY <1>11, <1>12

(* What is left to show, between frames and while graphics are closed *)
LEMMA BetweenFrames ==
  ASSUME canvas' \in Picture, overlay' \in BOOLEAN, console', ~Finishing', pc'["app"] # "wait",
         Sound'
  PROVE  Drawn'
  BY DEF Drawn, Pictures, Ready, Settled, OnTerminal

LEMMA OutsideGraphics ==
  ASSUME canvas' \in Picture, overlay' \in BOOLEAN, ~console', ~Session', OnTerminal'
  PROVE  Drawn'
  BY DEF Drawn, Pictures, Sound, Ready, Settled

LEMMA SubmitDrawn ==
  ASSUME FrameInv, NEW a \in Actor, submit_native_frame(a)
  PROVE  Drawn'
<1> USE DEF FrameInv, ScanInv, IInv, Places, submit_native_frame
<1>1. /\ pc[a] = "finish" /\ staged = NoBlit /\ staged' = NoBlit /\ draw.dirty /\ ~pending
      /\ pc' = [pc EXCEPT ![a] = "choose"]
      /\ UNCHANGED <<front, pending, draw, canvas, overlay, console>>
  BY DEF Finishes, Fenced, Goto, scanout, stage, lock, history
<1>2. console /\ Busy(a)
  BY <1>1 DEF Busy, Joined, Sharing
<1>3. a # "term" /\ Session /\ (pc["app"] = "wait" => a = "app")
  BY <1>2, AloneAtDriver
<1>4. Finishing
  BY <1>1, <1>3 DEF Finishing
<1>5. Composed(draw, canvas, overlay) /\ draw.prepared
  BY <1>1, <1>3, <1>4 DEF Drawn, Ready, Composed
<1>6. Ready'
  BY <1>1, <1>5, ReadyAgain
<1>7. Finishing' /\ pc'["app"] # "wait"
  BY <1>1, <1>3 DEF Finishing, Chooses
<1> QED
  BY <1>1, <1>2, <1>6, <1>7 DEF Drawn, Pictures, Sound, Settled, OnTerminal

LEMMA RepeatDrawn ==
  ASSUME FrameInv, NEW a \in Actor, RepeatFrame(a)
  PROVE  /\ Drawn'
         /\ ~pending /\ shown' = draw.pixels[front]
<1> USE DEF FrameInv, ScanInv, IInv, Places, RepeatFrame
<1>1. /\ pc[a] = "finish" /\ staged = NoBlit /\ staged' = NoBlit /\ ~draw.dirty
      /\ shown' = Frame(canvas, overlay)
      /\ UNCHANGED <<front, pending, draw, canvas, console>> /\ overlay' = FALSE
  BY DEF Finishes, scanout, stage
<1>2. console /\ Busy(a)
  BY <1>1 DEF Busy, Joined, Sharing
<1>3. /\ a # "term" /\ Session /\ (pc["app"] = "wait" => a = "app")
      /\ \A b \in {"app", "worker"} : b # a => pc[b] \notin {"finish", "choose"}
  BY <1>2, AloneAtDriver
<1>4. Finishing
  BY <1>1, <1>3 DEF Finishing
<1>5. ~pending /\ Composed(draw, canvas, overlay) /\ ~draw.prepared
  BY <1>1, <1>3, <1>4 DEF Drawn, Ready, Composed
<1>6. PICK at \in {"give", "leave", "idle", "none", "rest"} : pc' = [pc EXCEPT ![a] = at]
  BY FinishedMoves
<1>7. ~Finishing' /\ pc'["app"] # "wait"
  BY <1>1, <1>3, <1>6 DEF Finishing, Chooses
<1>8. /\ canvas \in Picture /\ overlay = FALSE /\ draw.pixels[front] = canvas
      /\ Fit(draw) /\ Now(draw) = canvas
  BY <1>5 DEF Drawn, Pictures, Composed, Fit, Now, Uncovered
<1>9. Sound'
  BY <1>1, <1>5, <1>8, SoundAgain
<1>10. shown' = draw.pixels[front]
  BY <1>1, <1>8, FrameFacts
<1> QED
  <2>1. canvas' \in Picture /\ console'
    BY <1>1, <1>2, <1>8
  <2>2. overlay' \in BOOLEAN
    BY <1>1, Zenon
  <2>3. Drawn'
    BY <1>7, <1>9, <2>1, <2>2, BetweenFrames
  <2> QED
    BY <1>5, <1>10, <2>3

(* A frame of graphics is on the back buffer, and becomes the last one. *)
LEMMA ChooseDrawn ==
  ASSUME FrameInv, NEW a \in Actor, ChooseFrame(a)
  PROVE  Drawn' /\ shown' = draw.pixels[Back] /\ draw'.pixels = draw.pixels
<1> USE DEF FrameInv, ScanInv, IInv, Places, ChooseFrame
<1>1. /\ pc[a] = "choose" /\ staged' = staged /\ pending' = TRUE
      /\ UNCHANGED <<front, canvas, console>> /\ overlay' = FALSE
  BY DEF stage
<1>2. Busy(a) /\ \A b \in Actor : b # a => ~Busy(b)
  BY <1>1, OneIsBusy DEF Busy
<1>3. draw'.pixels = draw.pixels /\ draw'.saved = draw.saved /\ draw'.clear = draw.clear
      /\ (Waits(a) => draw' = draw)
      /\ (~Waits(a) => draw'.prepared = FALSE /\ draw'.dirty = FALSE)
  BY DEF Typed, Drawing
<1>4. PICK at : /\ pc' = [pc EXCEPT ![a] = at] /\ (Waits(a) <=> at = "wait")
                /\ at \in {"wait", "give", "leave", "idle", "none", "rest"}
  BY FinishedMoves DEF Goto
<1>5. ~Chooses' /\ \A b \in Actor : pc'[b] # "choose"
  BY <1>2, <1>4 DEF Chooses, Busy
<1>6. CASE console
  <2>1. /\ a # "term" /\ Session /\ (pc["app"] = "wait" => a = "app")
        /\ \A b \in {"app", "worker"} : b # a => pc[b] \notin {"finish", "choose"}
    BY <1>2, <1>6, AloneAtDriver
  <2>2. Chooses /\ Finishing /\ staged = NoBlit
    BY <1>1, <2>1 DEF Finishing, Chooses, Covering
  <2>3. Composed(draw, canvas, overlay) /\ draw.prepared
    BY <2>1, <2>2 DEF Drawn, Ready
  <2>4. draw.pixels[Back] = Frame(canvas, overlay) /\ draw.clear = None
    BY <2>3 DEF Composed
  <2>5. canvas = Stripped(draw, Back)
    BY <2>3, StrippedIsPicture DEF Drawn, Pictures, Typed
  <2>6. Stripped(draw, Latest)' = canvas
    BY <1>1, <1>3, <2>5 DEF Stripped, Latest
  <2>7. ~Finishing' /\ (pc'["app"] = "wait" <=> Waits(a))
    BY <1>4, <1>5, <2>1 DEF Finishing, Waits
  <2>8. Settled'
    BY <1>3, <2>4, <2>6 DEF Settled
  <2>9. ~Waits(a) => Sound'
    <3>1. ~Waits(a) => Fit(draw)'
      BY <1>3, <2>4 DEF Fit
    <3>2. ~Waits(a) => Logical' = canvas
      BY <1>3, <2>4, <2>6 DEF Logical
    <3> QED
      BY <1>1, <1>3, <2>2, <3>1, <3>2 DEF Sound, WithStaged
  <2> QED
    BY <1>1, <1>3, <1>6, <2>4, <2>7, <2>8, <2>9 DEF Drawn, Pictures, Sound, Ready, OnTerminal
<1>7. CASE ~console
  <2>1. a # "worker"
    BY <1>1, <1>7 DEF Joined, OpensAlone
  <2>2. ~Session'
    BY <1>1, <1>4, <1>7, <2>1 DEF Session
  <2>3. shown' = draw.pixels[Back]
    BY <1>1, <1>7 DEF Drawn, OnTerminal
  <2>4. canvas' \in Picture /\ ~console' /\ OnTerminal'
    BY <1>1, <1>5, <1>7 DEF Drawn, Pictures, OnTerminal
  <2>5. overlay' \in BOOLEAN
    BY <1>1, Zenon
  <2> QED
    BY <1>3, <2>2, <2>3, <2>4, <2>5, OutsideGraphics
<1> QED
  BY <1>6, <1>7

LEMMA RefuseDrawn ==
  ASSUME FrameInv, NEW a \in Actor, RefuseFrame(a)
  PROVE  Drawn'
<1> USE DEF FrameInv, ScanInv, IInv, Places, RefuseFrame
<1>1. /\ pc[a] = "choose" /\ staged' = staged /\ ~pending
      /\ UNCHANGED <<front, pending, canvas, console>> /\ overlay' = FALSE
  BY DEF stage, scanout, PanelFollows
<1>2. Busy(a) /\ \A b \in Actor : b # a => ~Busy(b)
  BY <1>1, OneIsBusy DEF Busy
<1>3. PICK at \in {"give", "leave", "idle", "none", "rest"} : pc' = [pc EXCEPT ![a] = at]
  BY FinishedMoves
<1>4. ~Chooses' /\ \A b \in Actor : pc'[b] # "choose"
  BY <1>2, <1>3 DEF Chooses, Busy
<1>5. CASE console
  <2>1. /\ a # "term" /\ Session /\ (pc["app"] = "wait" => a = "app")
        /\ \A b \in {"app", "worker"} : b # a => pc[b] \notin {"finish", "choose"}
    BY <1>2, <1>5, AloneAtDriver
  <2>2. Chooses /\ Finishing /\ staged = NoBlit
    BY <1>1, <2>1 DEF Finishing, Chooses, Covering
  <2>3. Composed(draw, canvas, overlay) /\ draw.prepared
    BY <2>1, <2>2 DEF Drawn, Ready
  <2>4. PICK e : e = uncover(draw)
    OBVIOUS
  <2>5. Fit(e) /\ Now(e) = canvas
    BY <2>3, <2>4, UncoverDraws DEF Drawn, Pictures, Typed
  <2>6. draw' = e
    BY <1>5, <2>4
  <2>7. Sound'
    BY <1>1, <2>2, <2>5, <2>6, SoundAgain
  <2>8. ~Finishing' /\ pc'["app"] # "wait"
    BY <1>3, <1>4, <2>1 DEF Finishing
  <2> QED
    BY <1>1, <1>5, <2>7, <2>8, BetweenFrames DEF Drawn, Pictures
<1>6. CASE ~console
  <2>1. a # "worker"
    BY <1>1, <1>6 DEF Joined, OpensAlone
  <2>2. ~Session'
    BY <1>1, <1>3, <1>6, <2>1 DEF Session
  <2>3. canvas' \in Picture /\ ~console' /\ OnTerminal'
    BY <1>1, <1>4, <1>6 DEF Drawn, Pictures, OnTerminal
  <2>4. overlay' \in BOOLEAN
    BY <1>1, Zenon
  <2> QED
    BY <2>2, <2>3, <2>4, OutsideGraphics
<1> QED
  BY <1>5, <1>6

LEMMA ShownDrawn ==
  ASSUME FrameInv, NEW a \in Actor, FrameShown(a)
  PROVE  Drawn'
<1> USE DEF FrameInv, ScanInv, IInv, Places, FrameShown
<1>1. /\ pc[a] = "wait" /\ staged' = staged /\ ~pending
      /\ UNCHANGED <<front, pending, canvas, overlay, console>>
  BY DEF Fenced, stage, scanout, history
<1>2. Busy(a) /\ \A b \in Actor : b # a => ~Busy(b)
  BY <1>1, OneIsBusy DEF Busy, AtFence
<1>3. PICK at \in {"give", "leave", "idle", "none", "rest"} : pc' = [pc EXCEPT ![a] = at]
  BY FinishedMoves
<1>4. ~Chooses' /\ \A b \in Actor : pc'[b] # "choose"
  BY <1>2, <1>3 DEF Chooses, Busy
<1>5. CASE console
  <2>1. /\ a = "app" /\ pc["worker"] \notin {"finish", "choose"}
    BY <1>1, <1>2, <1>5, AloneAtDriver
  <2>2. staged = NoBlit /\ draw.clear = None /\ canvas = Stripped(draw, front)
    BY <1>1, <1>5, <2>1 DEF Covering, Drawn, Settled, Latest
  <2>3. PICK e : e = [draw EXCEPT !.prepared = FALSE, !.dirty = FALSE]
    OBVIOUS
  <2>4. /\ e.prepared = FALSE /\ e.dirty = FALSE /\ e.clear = None /\ e.saved = draw.saved
        /\ e.pixels = draw.pixels
    BY <2>2, <2>3 DEF Typed, Drawing
  <2>5. Fit(e) /\ Now(e) = canvas
    BY <2>2, <2>4 DEF Fit, Now, Stripped, Uncovered
  <2>6. draw' = e
    BY <1>5, <2>3
  <2>7. Sound'
    BY <1>1, <2>2, <2>5, <2>6, SoundAgain
  <2>8. ~Finishing' /\ pc'["app"] # "wait"
    BY <1>3, <1>4, <2>1 DEF Finishing
  <2> QED
    BY <1>1, <1>5, <2>7, <2>8, BetweenFrames DEF Drawn, Pictures
<1>6. CASE ~console
  <2>1. a # "worker"
    BY <1>1, <1>6 DEF Joined, OpensAlone
  <2>2. ~Session'
    BY <1>1, <1>3, <1>6, <2>1 DEF Session
  <2> QED
    BY <1>1, <1>4, <1>6, <2>2, OutsideGraphics DEF Drawn, Pictures, OnTerminal
<1> QED
  BY <1>5, <1>6

LEMMA PresentDrawn ==
  ASSUME FrameInv, NEW a \in Actor, platform_display_present(a)
  PROVE  Drawn'
<1> USE DEF FrameInv, ScanInv, IInv, Places, platform_display_present
<1>1. /\ pc[a] = "draw" /\ pc' = [pc EXCEPT ![a] = "choose"] /\ UNCHANGED front
      /\ UNCHANGED <<canvas, overlay, console>>
  BY DEF Goto, scanout, lock, history
<1>2. ~console /\ a # "worker"
  BY <1>1 DEF Joined, Sharing, OpensAlone
<1>3. ~Session'
  BY <1>1, <1>2 DEF Session
<1>4. draw'.pixels[Back] = Terminal
  <2>1. draw' = [draw EXCEPT !.pixels = [draw.pixels EXCEPT ![Back] = Terminal],
                             !.saved = [draw.saved EXCEPT ![Back] = None]]
    BY DEF Typed, Drawing
  <2> QED
    BY <2>1, DrawingParts DEF Typed, Drawing
<1> QED
  BY <1>1, <1>2, <1>3, <1>4, OutsideGraphics DEF Drawn, Pictures, OnTerminal, Terminal

(* When the buffers change places the last frame stays the last. *)
LEMMA ScanoutDrawn ==
  ASSUME FrameInv, NEW a \in Actor, tab5_display_scanout_finish(a)
  PROVE  Drawn'
<1> USE DEF FrameInv, ScanInv, IInv, Places, tab5_display_scanout_finish
<1>1. /\ front' = Back /\ pending' = FALSE /\ pending
      /\ UNCHANGED <<draw, pc, staged, source, canvas, overlay, console>>
  BY DEF AllStay, stage, program, lock, history
<1>2. ~Chooses /\ \A b \in Actor : pc[b] # "choose"
  BY <1>1 DEF PanelFollows, Chooses
<1>3. Latest' = Latest
  BY <1>1 DEF Latest, Typed
<1>4. /\ Session' <=> Session
      /\ Finishing' <=> Finishing
      /\ Chooses' <=> Chooses
  BY <1>1 DEF Session, Finishing, Chooses
<1>5. Sound'
  <2> SUFFICES ASSUME Session, ~Finishing, pc["app"] # "wait"
               PROVE  Fit(draw)' /\ (draw.prepared => ~pending)' /\ (canvas = WithStaged(Logical))'
    BY <1>1, <1>4 DEF Sound
  <2>1. Fit(draw) /\ ~draw.prepared /\ canvas = WithStaged(Logical)
    BY <1>1 DEF Drawn, Sound
  <2>2. Fit(draw)'
    BY <1>1, <2>1 DEF Fit
  <2>3. WithStaged(Logical)' = WithStaged(Logical)
    BY <1>1, <1>3, <2>1 DEF WithStaged, Logical, Stripped, Bitmap
  <2> QED
    BY <1>1, <2>1, <2>2, <2>3
<1>6. Ready'
  BY <1>1, <1>4 DEF Drawn, Ready
<1>7. Settled'
  BY <1>1, <1>3 DEF Drawn, Settled, Stripped
<1> QED
  BY <1>1, <1>2, <1>5, <1>6, <1>7 DEF Drawn, Pictures, OnTerminal

(* While a command is executed nobody finishes a frame. *)
LEMMA ExecutesAlone ==
  ASSUME FrameInv, Executes("app"), staged = NoBlit
  PROVE  /\ Session /\ console /\ ~Finishing /\ ~Chooses /\ pc["app"] = "drain"
         /\ pc["worker"] = "rest"
         /\ Fit(draw) /\ (draw.prepared => ~pending) /\ canvas = Logical /\ canvas \in Picture
         /\ front \in Buffer /\ draw \in Drawing /\ overlay \in BOOLEAN
<1> USE DEF FrameInv, ScanInv, IInv, Places, Executes
<1>1. /\ Session /\ console /\ ~Finishing /\ ~Chooses /\ pc["app"] = "drain"
      /\ pc["worker"] = "rest"
  BY DEF Session, Sharing, Joined, Finishing, Chooses
<1> QED
  BY <1>1 DEF Drawn, Sound, WithStaged, Pictures, Typed

LEMMA AfterCommand ==
  ASSUME FrameInv, Executes("app"), staged = NoBlit, Continue
  PROVE  ~Finishing' /\ pc'["app"] # "wait"
<1>1. pc'["app"] \in {"idle", "drain", "cover"} /\ pc'["worker"] = pc["worker"]
  BY DEF FrameInv, ScanInv, IInv, Places, Continue, Idle, Goto
<1> QED
  BY <1>1, ExecutesAlone DEF Finishing, Chooses

LEMMA OverIsPicture ==
  ASSUME NEW picture \in Picture, NEW area, NEW colour \in Colour
  PROVE  Over(picture, area, colour) \in Picture
  BY DEF Over, Picture, Pixel

LEMMA FillDrawn ==
  ASSUME FrameInv, platform_graphics_fill
  PROVE  Drawn'
<1> USE DEF FrameInv, platform_graphics_fill
<1> DEFINE c == Head(queue)
<1>1. /\ c \in Command /\ c.type = "fill" /\ Executes("app") /\ staged = NoBlit
      /\ staged' = NoBlit /\ Continue /\ canvas' = Over(canvas, c.area, c.colour)
      /\ UNCHANGED <<front, pending, overlay, console>>
  BY HeadIsCommand DEF stage, Executed, scanout, lock, Over
<1>2. c.colour \in Colour /\ c.area \in SUBSET Region
  BY <1>1 DEF Command
<1>3. PICK e : e = graphics_fill_impl(draw, c.area, c.colour)
  OBVIOUS
<1>4. draw' = e
  BY <1>3
<1>5. ~Finishing' /\ pc'["app"] # "wait"
  BY <1>1, AfterCommand
<1>6. Fit(draw) /\ canvas = Logical /\ front \in Buffer /\ draw \in Drawing /\ canvas \in Picture
      /\ console /\ overlay \in BOOLEAN /\ (draw.prepared => ~pending)
  BY <1>1, ExecutesAlone
<1>7. Fit(e) /\ Now(e) = Over(Now(draw), c.area, c.colour)
  BY <1>2, <1>3, <1>6, FillDraws
<1>8. CASE c.area = Region
  <2>1. e = [draw EXCEPT !.clear = c.colour, !.dirty = TRUE]
    BY <1>3, <1>8 DEF graphics_fill_impl
  <2>2. e.clear = c.colour /\ e.prepared = draw.prepared /\ c.colour # None
    BY <1>2, <1>6, <2>1, DisplayAssumption DEF Drawing
  <2>3. Over(canvas, Region, c.colour) = Flat(c.colour)
    BY DEF Over, Flat
  <2>4. Logical' = Flat(c.colour)
    BY <1>4, <2>2 DEF Logical
  <2>5. Fit(draw)'
    BY <1>1, <1>4, <1>7 DEF Fit
  <2>6. draw'.prepared => ~pending'
    BY <1>1, <1>4, <1>6, <2>2
  <2>7. Sound'
    BY <1>1, <1>8, <2>3, <2>4, <2>5, <2>6 DEF Sound, WithStaged
  <2> QED
    BY <1>1, <1>2, <1>5, <1>6, <2>7, BetweenFrames, OverIsPicture
<1>9. CASE c.area # Region
  <2>1. ~pending
    BY <1>9 DEF Fenced
  <2>2. canvas' = Now(e)
    BY <1>1, <1>6, <1>7, <2>1, NowIsLogical
  <2>3. Sound'
    BY <1>1, <1>4, <1>7, <2>1, <2>2, SoundAgain
  <2> QED
    BY <1>1, <1>2, <1>5, <1>6, <2>3, BetweenFrames, OverIsPicture
<1> QED
  BY <1>8, <1>9

LEMMA BlitDrawn ==
  ASSUME FrameInv, platform_graphics_blit
  PROVE  Drawn'
<1> USE DEF FrameInv, platform_graphics_blit
<1> DEFINE c == Head(queue)
<1>1. /\ c \in Command /\ c.type = "blit" /\ Executes("app") /\ staged = NoBlit /\ ~pending
      /\ staged' = NoBlit /\ Continue /\ canvas' = Over(canvas, c.area, source)
      /\ UNCHANGED <<front, pending, overlay, console>> /\ source \in Colour
  BY HeadIsCommand DEF stage, Executed, scanout, lock, Over, Fenced
<1>2. c.area \in SUBSET Region /\ c.eligible \in BOOLEAN
  BY <1>1 DEF Command
<1>3. PICK accelerated \in BOOLEAN : accelerated = (c.eligible /\ ppa)
  OBVIOUS
<1>4. PICK e : e = native_blit(draw, c.area, source, accelerated)
  OBVIOUS
<1>5. draw' = e
  BY <1>3, <1>4
<1>6. ~Finishing' /\ pc'["app"] # "wait"
  BY <1>1, AfterCommand
<1>7. Fit(draw) /\ canvas = Logical /\ front \in Buffer /\ draw \in Drawing /\ canvas \in Picture
      /\ console /\ overlay \in BOOLEAN
  BY <1>1, ExecutesAlone
<1>8. Fit(e) /\ Now(e) = Over(Now(draw), c.area, source)
  BY <1>1, <1>2, <1>4, <1>7, BlitDraws
<1>9. canvas' = Now(e)
  BY <1>1, <1>7, <1>8, NowIsLogical
<1>10. Sound'
  BY <1>1, <1>5, <1>8, <1>9, SoundAgain
<1> QED
  BY <1>1, <1>6, <1>7, <1>10, BetweenFrames, OverIsPicture

(* A staged blit counts as drawn, though only the clear under it is kept. *)
LEMMA StageDrawn ==
  ASSUME FrameInv, stage_native_blit
  PROVE  Drawn'
<1> USE DEF FrameInv, stage_native_blit
<1> DEFINE c == Head(queue)
<1>1. /\ Executes("app") /\ staged = NoBlit /\ Continue /\ canvas' = Over(canvas, c.area, source)
      /\ UNCHANGED <<draw, front, pending, overlay, console, source>> /\ source \in Colour
      /\ staged' = [from |-> IF goal = "borrow" THEN "guest" ELSE "snapshot",
                    area |-> c.area, colour |-> source]
  BY HeadIsCommand DEF stage, Executed, scanout, lock, Over
<1>2. ~Finishing' /\ pc'["app"] # "wait"
  BY <1>1, AfterCommand
<1>3. Fit(draw) /\ canvas = Logical /\ canvas \in Picture /\ console /\ overlay \in BOOLEAN
      /\ (draw.prepared => ~pending)
  BY <1>1, ExecutesAlone
<1>4. staged'.area = c.area /\ Bitmap' = source /\ staged' # NoBlit
  <2>1. staged'.from \in {"guest", "snapshot"} /\ staged'.area = c.area /\ staged'.colour = source
    BY <1>1
  <2> QED
    BY <1>1, <2>1 DEF Bitmap, NoBlit
<1>5. Logical' = Logical
  BY <1>1 DEF Logical, Stripped, Latest
<1>6. canvas' = WithStaged(Logical)'
  BY <1>1, <1>3, <1>4, <1>5 DEF WithStaged
<1>7. Fit(draw)'
  BY <1>1, <1>3 DEF Fit
<1>8. Sound'
  BY <1>1, <1>3, <1>6, <1>7 DEF Sound
<1> QED
  BY <1>1, <1>2, <1>3, <1>8, BetweenFrames, OverIsPicture

(* The overlay is drawn last, or kept for whoever draws the staged blit. *)
LEMMA OverlayDrawn ==
  ASSUME FrameInv, platform_graphics_overlay
  PROVE  Drawn'
<1> USE DEF FrameInv, ScanInv, IInv, Places, platform_graphics_overlay
<1>1. PICK visible \in BOOLEAN :
        /\ overlay' = visible
        /\ IF staged # NoBlit THEN draw' = draw
           ELSE ~pending /\ draw' = graphics_overlay_impl(draw, visible)
  BY DEF Fenced
<1>2. /\ pc["app"] = "cover" /\ ~work /\ pc' = [pc EXCEPT !["app"] = "finish"]
      /\ UNCHANGED <<staged, source, front, pending, canvas, console>>
  BY DEF Covers, Goto, program, scanout, lock
<1>3. console /\ pc["worker"] = "rest" /\ Session /\ ~Finishing /\ ~Chooses /\ ~Chooses'
  BY <1>2 DEF Sharing, Joined, Session, Finishing, Chooses
<1>4. Fit(draw) /\ (draw.prepared => ~pending) /\ canvas = WithStaged(Logical) /\ canvas \in Picture
  BY <1>2, <1>3 DEF Drawn, Sound, Pictures
<1>5. CASE staged # NoBlit
  <2>1. ~Finishing'
    BY <1>2, <1>3, <1>5 DEF Finishing
  <2>2. Fit(draw)' /\ WithStaged(Logical)' = WithStaged(Logical)
    BY <1>1, <1>2, <1>4, <1>5 DEF Fit, WithStaged, Logical, Stripped, Latest, Bitmap
  <2>3. Sound'
    BY <1>1, <1>2, <1>4, <1>5, <2>2 DEF Sound
  <2> QED
    BY <1>1, <1>2, <1>3, <1>4, <2>1, <2>3, BetweenFrames
<1>6. CASE staged = NoBlit
  <2>1. PICK e : e = graphics_overlay_impl(draw, visible)
    OBVIOUS
  <2>2. canvas = Now(draw)
    BY <1>1, <1>4, <1>6, NowIsLogical DEF WithStaged
  <2>3. Composed(e, canvas, visible)
    BY <1>4, <2>1, <2>2, OverlayDraws DEF Typed
  <2>4. draw' = e /\ ~pending'
    BY <1>1, <1>2, <1>6, <2>1
  <2>5. Ready'
    BY <1>1, <1>2, <1>3, <2>3, <2>4, ReadyAgain
  <2>6. Finishing' /\ pc'["app"] # "wait"
    BY <1>2, <1>6 DEF Finishing
  <2> QED
    BY <1>1, <1>2, <1>3, <1>4, <2>5, <2>6 DEF Drawn, Pictures, Sound, Settled, OnTerminal
<1> QED
  BY <1>5, <1>6

(* Nothing is drawn for the program before the terminal is suspended. *)
LEMMA BeginDrawn ==
  ASSUME FrameInv, platform_graphics_begin
  PROVE  Drawn'
<1> USE DEF FrameInv, ScanInv, IInv, Places, platform_graphics_begin
<1>1. /\ pc["app"] = "begin" /\ pc' = [pc EXCEPT !["app"] = "lock"]
      /\ UNCHANGED <<canvas, overlay, console>>
  BY DEF Goto, lock, history
<1>2. ~console /\ pc["worker"] = "rest" /\ pc["term"] = "rest"
  BY <1>1 DEF Sharing, Joined, OpensAlone
<1> QED
  BY <1>1, <1>2, OutsideGraphics DEF Drawn, Pictures, Session, OnTerminal

LEMMA EndDrawn ==
  ASSUME FrameInv, platform_graphics_end
  PROVE  Drawn'
<1> USE DEF FrameInv, ScanInv, IInv, Places, platform_graphics_end
<1>1. /\ pc' = [pc EXCEPT !["app"] = "release"] /\ console' = console /\ console
      /\ canvas' = Terminal /\ overlay' = overlay
  BY DEF Goto, lock, Sharing
<1>2. ~Session' /\ pc'["app"] # "wait"
  BY <1>1 DEF Session
<1>3. canvas' \in Picture
  BY <1>1 DEF Terminal, Picture, Pixel
<1> QED
  BY <1>1, <1>2, <1>3 DEF Drawn, Pictures, Sound, Ready, Settled, OnTerminal

(* The other steps draw nothing, and finish nothing. *)
LEMMA AppDrawnStays ==
  ASSUME FrameInv, UNCHANGED <<draw, front, pending, staged, source, canvas, overlay, console>>,
         NEW at \in AppAt \ {"choose", "finish", "wait", "lock"}, pc' = [pc EXCEPT !["app"] = at],
         pc["app"] \notin {"choose", "wait"}, pc["app"] # "release",
         pc["app"] = "finish" => staged # NoBlit
  PROVE  Drawn'
<1> USE DEF FrameInv, ScanInv, IInv, Places
<1>1. /\ pc'["app"] = at /\ pc'["worker"] = pc["worker"] /\ pc'["term"] = pc["term"]
  OBVIOUS
<1>2. Session' => Session
  BY <1>1 DEF Session
<1>3. (Chooses' <=> Chooses) /\ (Finishing' <=> Finishing)
  BY <1>1 DEF Chooses, Finishing
<1> QED
  BY <1>1, <1>2, <1>3, DrawnStays

LEMMA GatesDrawn ==
  ASSUME FrameInv,
         \/ wait_render_worker \/ elf_graphics_capabilities \/ platform_graphics_submit \/ Reaped
         \/ MakeRoom \/ elf_graphics_wait \/ elf_release_resources \/ OpenGraphics
         \/ elf_graphics_enqueue
         \/ \E g \in {"present", "submit", "borrow", "close"} : Finish(g)
  PROVE  Drawn'
<1> USE DEF FrameInv, ScanInv, IInv, Places
<1>0. pc = [pc EXCEPT !["app"] = pc["app"]]
  OBVIOUS
<1>1. CASE wait_render_worker
  <2>1. /\ UNCHANGED <<draw, front, pending, staged, source, canvas, overlay, console>>
        /\ pc["app"] \in {"drain", "cover", "reap", "leave"}
    BY <1>1 DEF wait_render_worker, stage, scanout, lock, history
  <2>2. \E at \in {"drain", "cover", "reap", "leave", "idle"} : pc' = [pc EXCEPT !["app"] = at]
    BY <1>0, <1>1, <2>1 DEF wait_render_worker, Continue, Return, Idle, Goto
  <2> QED
    BY <2>1, <2>2, AppDrawnStays
<1>2. CASE elf_graphics_capabilities \/ elf_graphics_enqueue
  BY <1>0, <1>2, AppDrawnStays DEF elf_graphics_capabilities, elf_graphics_enqueue, stage,
     scanout, program, lock, history
<1>3. CASE platform_graphics_submit
  <2>1. /\ UNCHANGED <<draw, front, pending, staged, source, canvas, overlay, console>>
        /\ pc["app"] = "finish" /\ staged # NoBlit
    BY <1>3 DEF platform_graphics_submit, Handed, stage, scanout, lock, history
  <2>2. \E at \in {"leave", "idle"} : pc' = [pc EXCEPT !["app"] = at]
    BY <1>3 DEF platform_graphics_submit, Return, Idle, Goto
  <2> QED
    BY <2>1, <2>2, AppDrawnStays
<1>4. CASE Reaped
  BY <1>4, AppDrawnStays DEF Reaped, Reaps, Idle, Goto, stage, scanout, lock, history
<1>5. CASE MakeRoom \/ elf_graphics_wait \/ elf_release_resources
  BY <1>5, AppDrawnStays DEF MakeRoom, elf_graphics_wait, elf_release_resources, Goto, stage,
     scanout, program, lock, history
<1>6. CASE OpenGraphics
  BY <1>6, AppDrawnStays DEF OpenGraphics, Goto, stage, scanout, program, lock, history
<1>7. ASSUME NEW g \in {"present", "submit", "borrow", "close"}, Finish(g)
      PROVE  Drawn'
  <2>1. PICK at \in {"cover", "drain"} : pc' = [pc EXCEPT !["app"] = at]
    BY <1>7 DEF Finish, Goto
  <2> QED
    BY <1>7, <2>1, AppDrawnStays DEF Finish, stage, scanout, lock, history
<1> QED
  BY <1>1, <1>2, <1>3, <1>4, <1>5, <1>6, <1>7

LEMMA PlainDrawn ==
  ASSUME FrameInv,
         \/ Refresh \/ (\E a \in Actor : Fence(a)) \/ render_worker \/ GiveDone
         \/ console_update \/ SuspendTerminal \/ RestoreTerminal \/ Repaint \/ Unload \/ Load
  PROVE  Drawn'
<1> USE DEF FrameInv, ScanInv, IInv, Places
<1>1. CASE Refresh \/ \E a \in Actor : Fence(a)
  <2>1. UNCHANGED <<draw, front, pending, staged, source, canvas, overlay, console, pc>>
    BY <1>1 DEF Refresh, Fence, stage, scanout, program, lock, history
  <2> QED
    BY <2>1, DrawnStays DEF Session, Chooses, Finishing
<1>2. CASE render_worker \/ GiveDone
  <2>1. /\ UNCHANGED <<draw, front, pending, staged, source, canvas, overlay, console>>
        /\ \E at \in {"finish", "rest"} :
              pc' = [pc EXCEPT !["worker"] = at] /\ (at = "finish" => staged # NoBlit)
        /\ pc["worker"] \in {"rest", "give"}
    BY <1>2 DEF render_worker, GiveDone, Goto, Covering, stage, scanout, program, lock, history
  <2>2. /\ pc'["app"] = pc["app"] /\ pc'["term"] = pc["term"] /\ pc'["worker"] # "choose"
        /\ pc'["worker"] = "finish" => staged # NoBlit
    BY <2>1
  <2>3. (Session' => Session) /\ (Chooses' <=> Chooses) /\ (Finishing' <=> Finishing)
    BY <2>1, <2>2 DEF Session, Chooses, Finishing
  <2> QED
    BY <2>1, <2>2, <2>3, DrawnStays
<1>3. CASE console_update
  <2>1. /\ UNCHANGED <<draw, front, pending, staged, source, canvas, overlay, console>>
        /\ pc' = [pc EXCEPT !["term"] = "draw"]
    BY <1>3 DEF console_update, Goto, stage, scanout, program, history
  <2> QED
    BY <2>1, DrawnStays DEF Session, Chooses, Finishing
<1>4. CASE SuspendTerminal
  <2>1. /\ UNCHANGED <<draw, front, pending, staged, source, overlay>> /\ console' = TRUE
        /\ pc' = [pc EXCEPT !["app"] = "idle"] /\ pc["app"] = "lock"
        /\ canvas' = draw.pixels[Latest]
    BY <1>4 DEF SuspendTerminal, Goto, LastFrame, Latest, stage, scanout, program
  <2>2. pc["worker"] = "rest" /\ ~console /\ staged = NoBlit
    BY <2>1 DEF Sharing, Joined, Unstaged
  <2>3. ~Finishing'
    BY <2>1, <2>2 DEF Finishing, Chooses
  <2>4. Latest \in Buffer
    BY DEF Latest, Typed
  <2>5. /\ draw.clear = None /\ ~draw.prepared /\ ~draw.dirty /\ draw.saved[Latest] = None
    BY <2>1, <2>4 DEF Opened
  <2>6. Fit(draw)'
    BY <2>1, <2>5 DEF Fit
  <2>7. Logical' = canvas'
    BY <2>1, <2>5 DEF Logical, Stripped, Latest
  <2>8. Sound'
    BY <2>1, <2>2, <2>5, <2>6, <2>7 DEF Sound, WithStaged
  <2>9. canvas' \in Picture
    BY <2>1, <2>4, DrawingParts DEF Typed
  <2> QED
    BY <2>1, <2>3, <2>8, <2>9, BetweenFrames DEF Drawn, Pictures
<1>5. CASE RestoreTerminal
  <2>1. /\ UNCHANGED <<canvas, overlay>> /\ console' = FALSE
        /\ pc' = [pc EXCEPT !["app"] = "draw"] /\ pc["app"] = "release"
    BY <1>5 DEF RestoreTerminal, Goto, history
  <2>2. pc["worker"] = "rest" /\ pc["term"] = "rest"
    BY <2>1 DEF Sharing, Joined
  <2>3. OnTerminal'
    BY <2>1, <2>2 DEF OnTerminal
  <2> QED
    BY <2>1, <2>3, OutsideGraphics DEF Drawn, Pictures, Session
<1>6. CASE Repaint \/ Unload \/ Load
  <2>1. UNCHANGED <<draw, front, pending, staged, canvas, overlay, console, pc>>
    BY <1>6 DEF Repaint, Unload, Load, stage, scanout, lock, history
  <2>2. staged = NoBlit \/ staged.from # "guest"
    BY <1>6 DEF Repaint, Unload, Load, Lending, Unstaged, Sharing
  <2> QED
    BY <2>1, <2>2, DrawnStays DEF Session, Chooses, Finishing
<1> QED
  BY <1>1, <1>2, <1>3, <1>4, <1>5, <1>6

-----------------------------------------------------------------------------
LEMMA FrameInit == Init => FrameInv
<1> SUFFICES ASSUME Init PROVE FrameInv
  OBVIOUS
<1>1. ScanInv
  BY ScanInit
<1>2. Covering /\ Borrowing /\ Lending
  BY DEF Init, Covering, Borrowing, Lending, NoBlit
<1>3. canvas \in Picture /\ overlay \in BOOLEAN
  BY DEF Init, Terminal, Picture, Pixel
<1>4. Drawn
  BY <1>3 DEF Init, Drawn, Pictures, Sound, Ready, Settled, OnTerminal, Session
<1>5. Opened
  BY DEF Init, Opened
<1> QED
  BY <1>1, <1>2, <1>4, <1>5 DEF FrameInv

LEMMA FrameStep ==
  ASSUME FrameInv, [Next]_vars, ~met'
  PROVE  FrameInv'
<1>1. ScanInv'
  BY ScanStep DEF FrameInv
<1>2. CASE Next
  <2>1. Covering' /\ Borrowing' /\ Lending' /\ Opened'
    BY <1>2, CoveringMoves, BorrowingMoves, LendingMoves, OpenedMoves DEF FrameInv
  <2>2. Drawn'
    <3>1. CASE \E a \in Actor : Draws(a) \/ RefuseFrame(a)
      BY <3>1, PlainDrawn, ScanoutDrawn, FinishStagedDrawn, RepeatDrawn, SubmitDrawn, ChooseDrawn,
         ShownDrawn, PresentDrawn, RefuseDrawn DEF Draws
    <3>2. CASE Refresh \/ render_worker \/ GiveDone \/ console_update
      BY <3>2, PlainDrawn
    <3>3. CASE Proceeds
      BY <3>3, GatesDrawn, PlainDrawn, BeginDrawn, FillDrawn, StageDrawn, BlitDrawn, OverlayDrawn,
         EndDrawn DEF Proceeds
    <3>4. CASE Calls
      BY <3>4, GatesDrawn, PlainDrawn DEF Calls
    <3> QED
      BY <1>2, <3>1, <3>2, <3>3, <3>4 DEF Next
  <2> QED
    BY <1>1, <2>1, <2>2 DEF FrameInv
<1>3. CASE UNCHANGED vars
  <2>1. /\ UNCHANGED <<draw, front, pending, staged, cover, source, canvas, overlay, console, pc>>
        /\ UNCHANGED <<notified, done, work, goal, lent, queue>>
    BY <1>3 DEF vars, stage, scanout, job, program, lock, history
  <2>2. Drawn'
    BY <2>1, DrawnStays DEF FrameInv, Session, Chooses, Finishing
  <2>3. Covering' /\ Lending' /\ Opened'
    BY <2>1, CoveringStays, LendingStays DEF FrameInv, Opened
  <2> QED
    BY <1>1, <2>1, <2>2, <2>3 DEF FrameInv, Borrowing
<1> QED
  BY <1>2, <1>3

(* Only these two steps hand something to the panel. *)
LEMMA ShownMoves ==
  ASSUME Next
  PROVE  \/ shown' = shown
         \/ \E a \in Actor : RepeatFrame(a) \/ ChooseFrame(a)
<1> USE DEF history
<1>1. CASE \E a \in Actor : Draws(a) \/ RefuseFrame(a)
  BY <1>1 DEF Draws, RefuseFrame, Fence, tab5_display_scanout_finish, FinishStaged,
     submit_native_frame, FrameShown, platform_display_present
<1>2. CASE Refresh \/ render_worker \/ GiveDone \/ console_update
  BY <1>2 DEF Refresh, render_worker, GiveDone, console_update
<1>3. CASE Proceeds
  BY <1>3 DEF Proceeds, wait_render_worker, platform_graphics_begin, SuspendTerminal,
     platform_graphics_fill, stage_native_blit, platform_graphics_blit,
     platform_graphics_overlay, platform_graphics_submit, Reaped, platform_graphics_end,
     RestoreTerminal
<1>4. CASE Calls
  BY <1>4 DEF Calls, OpenGraphics, elf_graphics_capabilities, elf_graphics_enqueue, MakeRoom,
     Finish, elf_graphics_wait, elf_release_resources, Repaint, Unload, Load
<1> QED
  BY <1>1, <1>2, <1>3, <1>4 DEF Next

(* The last frame is exchanged, or another one follows it, or it stays. *)
LEMMA LatestMoves ==
  ASSUME FrameInv, Next
  PROVE  \/ UNCHANGED <<front, pending>>
         \/ Latest' = Latest /\ draw' = draw
         \/ \E a \in Actor : ChooseFrame(a)
<1> USE DEF scanout
<1>1. CASE \E a \in Actor : Draws(a) \/ RefuseFrame(a)
  <2>1. ASSUME NEW a \in Actor, tab5_display_scanout_finish(a)
        PROVE  Latest' = Latest /\ draw' = draw
    BY <2>1 DEF tab5_display_scanout_finish, Latest, FrameInv, ScanInv, AllStay, Typed
  <2> QED
    BY <1>1, <2>1 DEF Draws, RefuseFrame, Fence, FinishStaged, RepeatFrame,
       submit_native_frame, FrameShown, platform_display_present
<1>2. CASE Refresh \/ render_worker \/ GiveDone \/ console_update
  BY <1>2 DEF Refresh, render_worker, GiveDone, console_update
<1>3. CASE Proceeds
  BY <1>3 DEF Proceeds, wait_render_worker, platform_graphics_begin, SuspendTerminal,
     platform_graphics_fill, stage_native_blit, platform_graphics_blit,
     platform_graphics_overlay, platform_graphics_submit, Reaped, platform_graphics_end,
     RestoreTerminal
<1>4. CASE Calls
  BY <1>4 DEF Calls, OpenGraphics, elf_graphics_capabilities, elf_graphics_enqueue, MakeRoom,
     Finish, elf_graphics_wait, elf_release_resources, Repaint, Unload, Load
<1> QED
  BY <1>1, <1>2, <1>3, <1>4 DEF Next

LEMMA WholeStep ==
  ASSUME FrameInv, LastFrame = shown, [Next]_vars, ~met'
  PROVE  LastFrame' = shown'
<1>0. LastFrame = draw.pixels[Latest]
  BY DEF LastFrame, Latest
<1>1. LastFrame' = draw'.pixels[Latest']
  BY DEF LastFrame, Latest
<1>2. CASE Next
  <2>1. ASSUME NEW a \in Actor, ChooseFrame(a)
        PROVE  LastFrame' = shown'
    <3>1. shown' = draw.pixels[Back] /\ draw'.pixels = draw.pixels
      BY <2>1, ChooseDrawn
    <3>2. Latest' = Back
      BY <2>1 DEF ChooseFrame, Latest
    <3> QED
      BY <1>1, <3>1, <3>2
  <2>2. ASSUME NEW a \in Actor, RepeatFrame(a)
        PROVE  LastFrame' = shown'
    <3>1. ~pending /\ shown' = draw.pixels[front]
      BY <2>2, RepeatDrawn
    <3>2. UNCHANGED <<front, pending, draw>>
      BY <2>2 DEF RepeatFrame, scanout
    <3> QED
      BY <1>1, <3>1, <3>2 DEF Latest
  <2>3. CASE ~\E a \in Actor : ChooseFrame(a) \/ RepeatFrame(a)
    <3>1. shown' = shown
      BY <1>2, <2>3, ShownMoves
    <3>2. CASE UNCHANGED <<front, pending>>
      <4>1. Latest' = Latest
        BY <3>2 DEF Latest
      <4>2. DrawsBack
        BY ScanStep DEF FrameInv
      <4>3. draw'.pixels[Latest] = draw.pixels[Latest]
        BY <4>2 DEF DrawsBack, Latest
      <4> QED
        BY <1>0, <1>1, <3>1, <4>1, <4>3
    <3>3. CASE Latest' = Latest /\ draw' = draw
      BY <1>0, <1>1, <3>1, <3>3
    <3> QED
      BY <1>2, <2>3, <3>2, <3>3, LatestMoves
  <2> QED
    BY <2>1, <2>2, <2>3
<1>3. CASE UNCHANGED vars
  BY <1>3 DEF vars, scanout, history, LastFrame
<1> QED
  BY <1>2, <1>3

(* What the panel is given is the picture the program has drawn, with the overlay
   of that frame and nothing of another one, or the terminal: through deferred
   clears, staged blits, the worker, copies of the last frame without its overlay,
   refused frames and the exchange of the buffers (graphics_present_impl,
   complete_native_frame, copy_saved_overlay), as long as no open has met a
   presentation of the terminal in the driver. *)
THEOREM ShownFramesAreWhole == Spec => []FrameIsWhole
<1>1. Init => met \/ (FrameInv /\ LastFrame = shown)
  BY FrameInit DEF Init, LastFrame
<1>2. (met \/ (FrameInv /\ LastFrame = shown)) /\ [Next]_vars
        => (met \/ (FrameInv /\ LastFrame = shown))'
  BY FrameStep, WholeStep, MeetingStays
<1>3. met \/ (FrameInv /\ LastFrame = shown) => FrameIsWhole
  BY DEF FrameIsWhole
<1> QED
  BY <1>1, <1>2, <1>3, PTL DEF Spec
=============================================================================
