------------------------------ MODULE Display ------------------------------
(***************************************************************************)
(* Fullscreen graphics on the Tab5: the commands a program queues          *)
(* (loader/elf_application.c), the status overlay added to each frame      *)
(* (graphics/display.c), and the driver that draws them into one of two    *)
(* scanout buffers, by the program's thread or by a display worker         *)
(* (platform/esp32p4/display.c, display_completion.c). The terminal is     *)
(* presented through the same buffers by whoever holds the console lock.   *)
(*                                                                         *)
(* A picture has two kinds of pixels, those under the overlay and the      *)
(* others: Region. A cache write-back or a copy inside the OS's buffers is *)
(* taken to succeed; handing a frame to the panel, and the PPA, may fail.  *)
(* A completion that never comes aborts the system, so here it comes.      *)
(***************************************************************************)
EXTENDS Integers, Sequences

CONSTANTS
  Region,      \* parts of the picture
  Status,      \* the part the overlay is drawn on
  Colour,      \* what programs draw
  Term, Mark,  \* the terminal's picture, and the overlay's pixels
  None,        \* no colour
  Fills,       \* what a program fills: [area, colour] records
  Blits,       \* what it copies a bitmap to: [area, eligible] records
  Capacity,    \* ELF_GRAPHICS_COMMAND_CAPACITY
  MaxFaults    \* bound: frames the panel refuses, and failures of the PPA

ASSUME DisplayAssumption ==
  /\ Status \in Region /\ Colour # {}
  /\ None \notin Colour \cup {Term, Mark} /\ Mark \notin Colour \cup {Term}
  /\ Fills \subseteq [area : SUBSET Region, colour : Colour]
  /\ Blits \subseteq [area : SUBSET Region, eligible : BOOLEAN]
  /\ Capacity \in Nat \ {0} /\ MaxFaults \in Nat

Pixel == Colour \cup {Term, Mark}
Picture == [Region -> Pixel]
Buffer == {0, 1}
Actor == {"app", "worker", "term"}

Command ==
  [type : {"fill"}, area : SUBSET Region, colour : Colour]
    \cup [type : {"blit"}, area : SUBSET Region, eligible : BOOLEAN]

VARIABLES
  chosen,      \* the buffer the panel driver scans next (external)
  scanning,    \* the buffer being scanned (external)
  vsync,       \* the semaphore vsync_done
  front,       \* scanout.front; the other buffer is scanout.back
  pending,     \* scanout.pending
  draw,        \* the drawing state of the driver
  ppa,         \* ppa_ready
  staged,      \* staged_blit and staged_blit_pending
  cover,       \* staged_overlay_pending and staged_overlay_visible
  work,        \* render_work.pending
  succeeded,   \* render_work.succeeded
  notified,    \* the worker's task notification
  done,        \* the semaphore render_worker_done
  queue,       \* graphics_commands
  source,      \* the program's bitmap; None when there is no program
  pc,          \* where each actor is
  goal,        \* the gate the program is in
  fencing,     \* who waits for a refresh with a frame pending
  holder,      \* who has the console lock to present the terminal
  console,     \* graphics_active of the console
  faults,      \* bound: refused frames, and failures of the PPA
  lent,        \* history: the bitmap is lent to the system
  early,       \* history: the last refresh ended while a frame was between the
               \* drain of old signals and the panel driver's choice of it
  met,         \* history: an open has met a presentation of the terminal
  canvas,      \* history: the picture the program has drawn
  overlay,     \* history: the overlay is in the frame being finished
  shown        \* history: the frame last handed to the panel

panel == <<chosen, scanning, vsync, early>>
scanout == <<front, pending, fencing>>
stage == <<staged, cover>>
job == <<work, succeeded, notified, done>>
program == <<queue, source, lent>>
lock == <<holder, console, met>>
history == <<canvas, overlay, shown>>
vars == <<panel, scanout, draw, ppa, stage, job, program, pc, goal, lock, faults, history>>

Back == 1 - front
AppAt == {"none", "begin", "lock", "idle", "drain", "cover", "finish", "reap", "choose", "wait",
          "leave", "release", "draw"}
WorkerAt == {"rest", "finish", "choose", "give"}
TermAt == {"rest", "draw", "choose", "wait"}
Goal == {"none", "room", "present", "submit", "borrow", "reap", "close", "kill"}

Drawing ==
  [pixels : [Buffer -> Picture], saved : [Buffer -> Pixel \cup {None}],
   prepared : BOOLEAN, dirty : BOOLEAN, clear : Colour \cup {None}]

NoBlit == [from |-> "none"]
Staged ==
  {NoBlit} \cup [from : {"guest", "snapshot"}, area : SUBSET Region, colour : Colour]

TypeOK ==
  /\ chosen \in Buffer /\ scanning \in Buffer /\ vsync \in BOOLEAN
  /\ front \in Buffer /\ pending \in BOOLEAN
  /\ draw \in Drawing /\ ppa \in BOOLEAN
  /\ staged \in Staged /\ cover \in {"none", "hide", "show"}
  /\ work \in BOOLEAN /\ succeeded \in BOOLEAN /\ notified \in BOOLEAN /\ done \in BOOLEAN
  /\ queue \in Seq(Command) /\ Len(queue) <= Capacity
  /\ source \in Colour \cup {None}
  /\ pc \in [Actor -> AppAt \cup WorkerAt \cup TermAt]
  /\ pc["app"] \in AppAt /\ pc["worker"] \in WorkerAt /\ pc["term"] \in TermAt
  /\ goal \in Goal
  /\ fencing \in [Actor -> BOOLEAN]
  /\ holder \in {"free", "app", "term"} /\ console \in BOOLEAN
  /\ faults \in 0 .. MaxFaults
  /\ lent \in {"no", "queued", "borrowed"} /\ early \in BOOLEAN /\ met \in BOOLEAN
  /\ canvas \in Picture /\ overlay \in BOOLEAN /\ shown \in Picture

Terminal == [r \in Region |-> Term]
Frame(picture, visible) == [picture EXCEPT ![Status] = IF visible THEN Mark ELSE @]

(* What the panel has been given last *)
LastFrame == draw.pixels[IF pending THEN Back ELSE front]

(* platform_display_init, and the terminal has been presented. *)
Init ==
  /\ chosen = 0 /\ scanning = 0 /\ vsync = FALSE
  /\ front = 0 /\ pending = FALSE
  /\ draw = [pixels |-> [b \in Buffer |-> Terminal], saved |-> [b \in Buffer |-> None],
             prepared |-> FALSE, dirty |-> FALSE, clear |-> None]
  /\ ppa = TRUE /\ staged = NoBlit /\ cover = "none"
  /\ work = FALSE /\ succeeded = FALSE /\ notified = FALSE /\ done = FALSE
  /\ queue = <<>> /\ source \in Colour
  /\ pc = [a \in Actor |-> IF a = "app" THEN "none" ELSE "rest"] /\ goal = "none"
  /\ fencing = [a \in Actor |-> FALSE]
  /\ holder = "free" /\ console = FALSE /\ faults = 0
  /\ early = FALSE /\ met = FALSE
  /\ lent = "no" /\ canvas = Terminal /\ overlay = FALSE /\ shown = Terminal

-----------------------------------------------------------------------------
(* Drawing, as functions of the drawing state. Every one of them draws into
   the back buffer, with no frame pending. *)

Paint(d, area, colour) ==
  [d EXCEPT !.pixels[Back] = [r \in Region |-> IF r \in area THEN colour ELSE @[r]],
            !.dirty = TRUE]

(* The front picture without its overlay *)
Uncovered(d) ==
  IF d.saved[front] = None THEN d.pixels[front]
  ELSE [d.pixels[front] EXCEPT ![Status] = d.saved[front]]

(* Mutant: the front buffer is copied as it is, with its overlay. *)
CopyWithOverlay(d, replaces) ==
  IF d.prepared THEN d
  ELSE [d EXCEPT !.prepared = TRUE, !.saved[Back] = None,
                 !.pixels[Back] = IF replaces THEN @ ELSE d.pixels[front]]

prepare_direct_back_buffer(d, replaces) ==
  IF d.prepared THEN d
  ELSE [d EXCEPT !.prepared = TRUE, !.saved[Back] = None,
                 !.pixels[Back] = IF replaces THEN @ ELSE Uncovered(d)]

(* The pending clear is drawn around what the caller is about to cover. *)
flush_direct_clear(d, covered) ==
  IF d.clear = None THEN d
  ELSE Paint([prepare_direct_back_buffer(d, TRUE) EXCEPT !.clear = None],
             Region \ covered, d.clear)

graphics_fill_impl(d, area, colour) ==
  IF area = Region THEN [d EXCEPT !.clear = colour, !.dirty = TRUE]
  ELSE Paint(prepare_direct_back_buffer(flush_direct_clear(d, {}), FALSE), area, colour)

(* native_blit_ppa, where the PPA takes the blit, or native_blit_cpu *)
native_blit(d, area, colour, accelerated) ==
  Paint(prepare_direct_back_buffer(
          flush_direct_clear(d, IF accelerated THEN area ELSE {}), FALSE), area, colour)

graphics_overlay_impl(d, visible) ==
  LET flushed == flush_direct_clear(d, {})
      ready == prepare_direct_back_buffer(flushed, FALSE)
  IN IF visible
       THEN [ready EXCEPT !.saved[Back] = ready.pixels[Back][Status],
                          !.pixels[Back][Status] = Mark, !.dirty = TRUE]
       ELSE IF flushed.saved[front] = None THEN flushed
            ELSE [ready EXCEPT !.dirty = TRUE]

(* copy_saved_overlay, when the panel has refused the frame *)
uncover(d) ==
  IF d.saved[Back] = None THEN d
  ELSE [d EXCEPT !.pixels[Back][Status] = d.saved[Back], !.saved[Back] = None]

(* What a reader of the staged blit finds: the copy, or the program's bitmap
   as it is now. *)
Bitmap == IF staged.from = "guest" THEN source ELSE staged.colour

finish_staged_drawing ==
  LET blitted == IF staged = NoBlit THEN draw
                 ELSE native_blit(draw, staged.area, Bitmap, ppa)
  IN IF cover = "none" THEN blitted
     ELSE graphics_overlay_impl(blitted, cover = "show")

-----------------------------------------------------------------------------
(* The panel (external) scans a buffer again and again; at the end of each
   refresh its driver goes on to the buffer chosen last and calls
   display_refresh_done, which gives the semaphore. *)
Refresh ==
  /\ scanning' = chosen /\ vsync' = TRUE
  /\ early' = \E a \in Actor : pc[a] = "choose"
  /\ UNCHANGED <<chosen, scanout, draw, ppa, stage, job, program, pc, goal, lock, faults,
                 history>>

(* platform_graphics_submit leaves a staged frame to the worker. *)
Handed(a) == a = "app" /\ goal \in {"submit", "borrow"} /\ staged # NoBlit

(* Where an actor is when it draws: the program's thread about to execute a
   command, draw the overlay, or, in a wait, what is staged; it, or the worker,
   about to finish a frame. *)
Executes(a) == pc[a] = "drain" /\ ~work
Covers(a) == pc[a] = "cover" /\ ~work
Reaps(a) == pc[a] = "reap" /\ ~work
Finishes(a) == pc[a] = "finish" /\ ~Handed(a)

(* Whether it has come to a point where it calls complete_native_frame *)
Deferred(c) ==
  \/ c.type = "fill" /\ c.area = Region
  \/ c.type = "blit" /\ c.eligible /\ ppa /\ draw.clear # None

AtFence(a) ==
  \/ pc[a] \in {"begin", "wait", "draw"}
  \/ pc[a] = "leave" /\ ~work
  \/ Executes(a) /\ (staged # NoBlit \/ ~Deferred(Head(queue)))
  \/ Covers(a) /\ staged = NoBlit
  \/ Reaps(a) /\ staged # NoBlit
  \/ Finishes(a) /\ (staged # NoBlit \/ draw.dirty)

(* tab5_display_scanout_finish: a frame is pending ... *)
Fence(a) ==
  /\ AtFence(a) /\ pending /\ ~fencing[a]
  /\ fencing' = [fencing EXCEPT ![a] = TRUE]
  /\ UNCHANGED <<panel, front, pending, draw, ppa, stage, job, program, pc, goal, lock,
                 faults, history>>

(* ... and after the next VSYNC signal the buffers change places. *)
tab5_display_scanout_finish(a) ==
  /\ fencing[a] /\ vsync
  /\ fencing' = [fencing EXCEPT ![a] = FALSE]
  /\ vsync' = FALSE /\ front' = Back /\ pending' = FALSE
  /\ UNCHANGED <<chosen, scanning, early, draw, ppa, stage, job, program, pc, goal, lock,
                 faults, history>>

Fenced(a) == ~pending /\ ~fencing[a]

Goto(a, label) == pc' = [pc EXCEPT ![a] = label]

(* When an operation on the PPA fails, wait_for_ppa clears ppa_ready, and the
   CPU draws instead, now and later, the same pixels. *)
PpaMayFail ==
  \/ UNCHANGED <<ppa, faults>>
  \/ ppa /\ ppa' = FALSE /\ faults < MaxFaults /\ faults' = faults + 1

-----------------------------------------------------------------------------
(* How a gate returns, how it goes on to the next command, and how one that
   finishes a frame ends: a close that has shown its frame restores the
   terminal. Then, or once the queue is drained, the bitmap is the program's
   again, unless it was lent until a wait. *)
Idle == Goto("app", "idle") /\ goal' = "none"

Continue ==
  /\ queue' = Tail(queue)
  /\ IF goal = "room" THEN Idle
     ELSE Goto("app", IF Len(queue) = 1 THEN "cover" ELSE "drain") /\ UNCHANGED goal

Return(success) ==
  IF goal = "close" /\ success
    THEN Goto("app", "leave") /\ lent' = "no" /\ UNCHANGED goal
    ELSE Idle /\ lent' = IF lent = "queued" THEN "no" ELSE lent

(* Mutant: the worker's frame is taken for finished. *)
JoinEarly ==
  /\ pc["app"] \in {"drain", "cover", "reap", "leave"} /\ work /\ work' = FALSE
  /\ UNCHANGED <<panel, scanout, draw, ppa, stage, succeeded, notified, done, program, pc, goal,
                 lock, faults, history>>

(* Every gate that draws begins with wait_render_worker; its result is that of
   the worker's last frame, for the first one to ask. When that has failed, a
   gate fails, and a command is lost: it is drawn into the logical
   framebuffer, which graphics do not show. *)
wait_render_worker ==
  /\ pc["app"] \in {"drain", "cover", "reap", "leave"}
  /\ work /\ done /\ work' = FALSE /\ done' = FALSE
  /\ IF succeeded \/ pc["app"] = "leave"
       THEN UNCHANGED <<pc, goal, queue, lent>>
       ELSE CASE pc["app"] = "drain" -> Continue /\ UNCHANGED lent
              [] pc["app"] = "cover" -> Return(FALSE) /\ UNCHANGED queue
              [] OTHER -> Idle /\ UNCHANGED <<queue, lent>>
  /\ UNCHANGED <<panel, scanout, draw, ppa, stage, succeeded, notified, source, lock, faults,
                 history>>

(* elf_graphics_capabilities joins the worker too, and ignores the result. *)
elf_graphics_capabilities ==
  /\ pc["app"] = "idle" /\ work /\ done
  /\ work' = FALSE /\ done' = FALSE
  /\ UNCHANGED <<panel, scanout, draw, ppa, stage, succeeded, notified, program, pc, goal, lock,
                 faults, history>>

(* A program's gates. elf_graphics_open, when graphics are not open, ... *)
OpenGraphics ==
  /\ pc["app"] = "none" /\ source # None /\ goal # "kill"
  /\ Goto("app", "begin")
  /\ met' = (met \/ holder = "term")
  /\ UNCHANGED <<panel, scanout, draw, ppa, stage, job, program, goal, holder, console, faults,
                 history>>

(* ... begins with platform_graphics_begin: the worker is at rest ... *)
platform_graphics_begin ==
  /\ pc["app"] = "begin" /\ Fenced("app") /\ Goto("app", "lock")
  /\ draw' = [draw EXCEPT !.clear = None, !.prepared = FALSE, !.dirty = FALSE,
                          !.saved = [b \in Buffer |-> None]]
  /\ UNCHANGED <<panel, scanout, ppa, stage, job, program, goal, lock, faults, history>>

(* ... and then calls console_set_graphics_active(true). *)
SuspendTerminal ==
  /\ pc["app"] = "lock" /\ holder = "free"
  /\ console' = TRUE /\ Goto("app", "idle") /\ canvas' = LastFrame
  /\ UNCHANGED <<panel, scanout, draw, ppa, stage, job, program, goal, holder, met, faults,
                 overlay, shown>>

(* elf_graphics_clear, elf_graphics_fill_rect, elf_graphics_blit and _blit_ex
   queue a command while there is room ... *)
elf_graphics_enqueue ==
  /\ pc["app"] = "idle" /\ Len(queue) < Capacity
  /\ \/ \E f \in Fills :
          /\ queue' = Append(queue, [type |-> "fill", area |-> f.area, colour |-> f.colour])
          /\ UNCHANGED lent
     \/ \E b \in Blits :
          /\ queue' = Append(queue, [type |-> "blit", area |-> b.area, eligible |-> b.eligible])
          /\ lent' = IF lent = "no" THEN "queued" ELSE lent
  /\ UNCHANGED <<panel, scanout, draw, ppa, stage, job, source, pc, goal, lock, faults,
                 history>>

(* ... and execute the oldest one when there is none. *)
MakeRoom ==
  /\ pc["app"] = "idle" /\ Len(queue) = Capacity
  /\ goal' = "room" /\ Goto("app", "drain")
  /\ UNCHANGED <<panel, scanout, draw, ppa, stage, job, program, lock, faults, history>>

(* elf_graphics_present, _submit, _submit_borrowed and _close begin by
   executing what is queued. *)
Finish(g) ==
  /\ pc["app"] = "idle" /\ goal' = g
  /\ Goto("app", IF queue = <<>> THEN "cover" ELSE "drain")
  /\ lent' = IF g = "borrow" /\ lent = "queued" THEN "borrowed" ELSE lent
  /\ UNCHANGED <<panel, scanout, draw, ppa, stage, job, queue, source, lock, faults, history>>

(* elf_graphics_wait only joins the worker and draws what is staged. *)
elf_graphics_wait ==
  /\ pc["app"] = "idle" /\ goal' = "reap" /\ Goto("app", "reap")
  /\ UNCHANGED <<panel, scanout, draw, ppa, stage, job, program, lock, faults, history>>

(* elf_graphics_execute_one draws what is staged, and then the oldest command,
   for elf_graphics_drain or to make room. *)
Executed(area, colour) ==
  /\ Continue
  /\ canvas' = [r \in Region |-> IF r \in area THEN colour ELSE canvas[r]]

platform_graphics_fill ==
  LET c == Head(queue) IN
  /\ Executes("app") /\ staged = NoBlit /\ c.type = "fill"
  /\ c.area = Region \/ Fenced("app")
  /\ draw' = graphics_fill_impl(draw, c.area, c.colour)
  /\ IF c.area = Region THEN UNCHANGED <<ppa, faults>> ELSE PpaMayFail
  /\ Executed(c.area, c.colour)
  /\ UNCHANGED <<panel, scanout, stage, job, source, lent, lock, overlay, shown>>

(* stage_native_blit: the bitmap is copied, unless the program has promised
   to leave it alone (submit_borrowed). *)
stage_native_blit ==
  LET c == Head(queue) IN
  /\ Executes("app") /\ staged = NoBlit /\ c.type = "blit" /\ Deferred(c)
  /\ staged' = [from |-> IF goal = "borrow" THEN "guest" ELSE "snapshot",
                area |-> c.area, colour |-> source]
  /\ Executed(c.area, source)
  /\ UNCHANGED <<panel, scanout, draw, ppa, cover, job, source, lent, lock, faults, overlay,
                 shown>>

platform_graphics_blit ==
  LET c == Head(queue) IN
  /\ Executes("app") /\ staged = NoBlit /\ c.type = "blit" /\ ~Deferred(c)
  /\ Fenced("app")
  /\ draw' = native_blit(draw, c.area, source, c.eligible /\ ppa)
  /\ PpaMayFail /\ Executed(c.area, source)
  /\ UNCHANGED <<panel, scanout, stage, job, source, lent, lock, overlay, shown>>

(* present_with_overlay: the overlay of this frame. It is kept for the worker
   with the blit it goes on, or drawn. *)
platform_graphics_overlay ==
  /\ Covers("app") /\ Goto("app", "finish")
  /\ \E visible \in BOOLEAN :
       /\ overlay' = visible
       /\ IF staged # NoBlit
            THEN cover' = (IF visible THEN "show" ELSE "hide") /\ UNCHANGED <<draw, ppa, faults>>
            ELSE /\ Fenced("app") /\ PpaMayFail
                 /\ draw' = graphics_overlay_impl(draw, visible) /\ UNCHANGED cover
  /\ UNCHANGED <<panel, scanout, staged, job, program, goal, lock, canvas, shown>>

(* platform_graphics_submit hands a staged frame to the worker. *)
platform_graphics_submit ==
  /\ pc["app"] = "finish" /\ Handed("app")
  /\ work' = TRUE /\ notified' = TRUE /\ Return(TRUE)
  /\ UNCHANGED <<panel, scanout, draw, ppa, stage, succeeded, done, queue, source, lock,
                 faults, history>>

(* render_worker *)
render_worker ==
  /\ pc["worker"] = "rest" /\ notified
  /\ notified' = FALSE /\ Goto("worker", "finish")
  /\ UNCHANGED <<panel, scanout, draw, ppa, stage, work, succeeded, done, program, goal, lock,
                 faults, history>>

FinishStaged(a) ==
  /\ staged # NoBlit /\ (Executes(a) \/ Reaps(a) \/ Finishes(a)) /\ Fenced(a)
  /\ draw' = finish_staged_drawing /\ PpaMayFail
  /\ staged' = NoBlit /\ cover' = "none"
  /\ UNCHANGED <<panel, scanout, job, program, pc, goal, lock, history>>

(* The wait returns. The bitmap is the program's again, but for queued blits. *)
Reaped ==
  /\ Reaps("app") /\ staged = NoBlit /\ Idle
  /\ lent' = IF lent # "borrowed" THEN lent
             ELSE IF \E i \in DOMAIN queue : queue[i].type = "blit" THEN "queued"
             ELSE "no"
  /\ UNCHANGED <<panel, scanout, draw, ppa, stage, job, queue, source, lock, faults, history>>

-----------------------------------------------------------------------------
(* graphics_present_impl, with and without a wait for the panel *)
Waits(a) == a = "term" \/ (a = "app" /\ (~console \/ goal \in {"present", "close"}))

(* What comes after a frame: the worker answers, a gate returns, the console
   lock is released. *)
Finished(a, success) ==
  CASE a = "worker" ->
         Goto(a, "give") /\ succeeded' = success /\ UNCHANGED <<lent, goal, holder>>
    [] a = "app" /\ console -> Return(success) /\ UNCHANGED <<succeeded, holder>>
    [] OTHER ->
         /\ Goto(a, IF a = "app" THEN "none" ELSE "rest") /\ holder' = "free"
         /\ goal' = IF a = "app" /\ goal = "close" THEN "none" ELSE goal
         /\ UNCHANGED <<lent, succeeded>>

(* Nothing has been drawn since the last frame, which the overlay has fenced. *)
RepeatFrame(a) ==
  /\ Finishes(a) /\ staged = NoBlit /\ ~draw.dirty
  /\ shown' = Frame(canvas, overlay)
  /\ IF Waits(a) THEN vsync /\ vsync' = FALSE ELSE UNCHANGED vsync
  /\ Finished(a, TRUE)
  /\ overlay' = FALSE
  /\ UNCHANGED <<chosen, scanning, early, scanout, draw, ppa, stage, work, notified, done,
                 queue, source, console, met, faults, canvas>>

(* Mutant: signals of earlier refreshes are not drained. *)
SubmitUndrained(a) ==
  /\ Finishes(a) /\ staged = NoBlit /\ draw.dirty /\ Fenced(a) /\ Goto(a, "choose")
  /\ UNCHANGED <<panel, scanout, draw, ppa, stage, job, program, goal, lock, faults, history>>

(* submit_native_frame: the last frame is fenced, old signals are drained ...
   (The overlay has flushed the clear.) *)
submit_native_frame(a) ==
  /\ Finishes(a) /\ staged = NoBlit /\ draw.dirty /\ Fenced(a)
  /\ vsync' = FALSE /\ Goto(a, "choose")
  /\ UNCHANGED <<chosen, scanning, early, scanout, draw, ppa, stage, job, program, goal, lock,
                 faults, history>>

(* ... and the panel driver is given the buffer, and takes it ... *)
ChooseFrame(a) ==
  /\ pc[a] = "choose"
  /\ chosen' = Back /\ pending' = TRUE
  /\ shown' = IF console THEN Frame(canvas, overlay) ELSE Terminal
  /\ IF Waits(a)
       THEN Goto(a, "wait") /\ UNCHANGED <<draw, lent, goal, holder, succeeded>>
       ELSE draw' = [draw EXCEPT !.prepared = FALSE, !.dirty = FALSE] /\ Finished(a, TRUE)
  /\ overlay' = FALSE
  /\ UNCHANGED <<scanning, vsync, early, front, fencing, ppa, stage, work, notified, done,
                 queue, source, console, met, faults, canvas>>

(* ... or not: then the overlay is taken off the back buffer again. *)
RefuseFrame(a) ==
  /\ pc[a] = "choose" /\ faults < MaxFaults /\ faults' = faults + 1
  /\ draw' = IF console THEN uncover(draw) ELSE draw
  /\ Finished(a, FALSE) /\ overlay' = FALSE
  /\ UNCHANGED <<panel, scanout, ppa, stage, work, notified, done, queue, source, console,
                 met, canvas, shown>>

(* The frame is on the panel. *)
FrameShown(a) ==
  /\ pc[a] = "wait" /\ Fenced(a)
  /\ draw' = IF console THEN [draw EXCEPT !.prepared = FALSE, !.dirty = FALSE] ELSE draw
  /\ Finished(a, TRUE)
  /\ UNCHANGED <<panel, scanout, ppa, stage, work, notified, done, queue, source, console,
                 met, faults, history>>

(* The worker signals that it is done. *)
GiveDone ==
  /\ pc["worker"] = "give" /\ done' = TRUE /\ Goto("worker", "rest")
  /\ UNCHANGED <<panel, scanout, draw, ppa, stage, work, succeeded, notified, program, goal,
                 lock, faults, history>>

-----------------------------------------------------------------------------
(* Mutant: what is queued is not discarded. *)
ReleaseKeepsQueue ==
  /\ pc["app"] = "idle" /\ pc["term"] = "rest"
  /\ goal' = "kill" /\ Goto("app", "leave")
  /\ UNCHANGED <<panel, scanout, draw, ppa, stage, job, program, lock, faults, history>>

(* elf_release_resources: the program has ended, by itself or by force, and
   is in no gate; the runtime thread drops what it has queued. *)
elf_release_resources ==
  /\ pc["app"] = "idle" /\ pc["term"] = "rest"
  /\ queue' = <<>> /\ goal' = "kill" /\ Goto("app", "leave")
  /\ UNCHANGED <<panel, scanout, draw, ppa, stage, job, source, lent, lock, faults, history>>

(* platform_graphics_end joins the worker and the panel, whatever they say,
   and forgets what is staged. *)
platform_graphics_end ==
  /\ pc["app"] = "leave" /\ ~work /\ Fenced("app")
  /\ staged' = NoBlit /\ cover' = "none" /\ draw' = [draw EXCEPT !.clear = None]
  /\ canvas' = Terminal /\ Goto("app", "release")
  /\ UNCHANGED <<panel, scanout, ppa, job, program, goal, lock, faults, overlay, shown>>

(* console_set_graphics_active(false): the terminal is presented again. *)
RestoreTerminal ==
  /\ pc["app"] = "release" /\ holder = "free"
  /\ holder' = "app" /\ console' = FALSE /\ Goto("app", "draw")
  /\ UNCHANGED <<panel, scanout, draw, ppa, stage, job, program, goal, met, faults, history>>

(* platform_display_present, by whoever holds the console lock; it ends with
   submit_native_frame too. *)
platform_display_present(a) ==
  /\ pc[a] = "draw" /\ ~work /\ Fenced(a)
  /\ draw' = [draw EXCEPT !.pixels[Back] = Terminal, !.saved[Back] = None]
  /\ PpaMayFail /\ vsync' = FALSE /\ Goto(a, "choose")
  /\ UNCHANGED <<chosen, scanning, early, scanout, stage, job, program, goal, lock, history>>

(* console_update on the runtime thread: the cursor blinks. *)
console_update ==
  /\ pc["term"] = "rest" /\ holder = "free" /\ ~console
  /\ holder' = "term" /\ Goto("term", "draw")
  /\ met' = (met \/ pc["app"] = "begin")
  /\ UNCHANGED <<panel, scanout, draw, ppa, stage, job, program, goal, console, faults, history>>

(* The program draws into its bitmap, as far as it has not lent it. *)
Repaint ==
  /\ pc["app"] \in {"none", "idle"} /\ goal # "kill" /\ lent = "no" /\ source # None
  /\ \E c \in Colour \ {source} : source' = c
  /\ UNCHANGED <<panel, scanout, draw, ppa, stage, job, queue, lent, pc, goal, lock, faults,
                 history>>

(* platform_riscv32_destroy frees its memory; another program is loaded. *)
Unload ==
  /\ pc["app"] = "none" /\ source # None
  /\ source' = None /\ lent' = "no" /\ goal' = "none"
  /\ UNCHANGED <<panel, scanout, draw, ppa, stage, job, queue, pc, lock, faults, history>>

Load ==
  /\ pc["app"] = "none" /\ source = None /\ source' \in Colour
  /\ UNCHANGED <<panel, scanout, draw, ppa, stage, job, queue, lent, pc, goal, lock, faults,
                 history>>

-----------------------------------------------------------------------------
Draws(a) ==
  \/ Fence(a) \/ tab5_display_scanout_finish(a)
  \/ FinishStaged(a) \/ RepeatFrame(a)
  \/ submit_native_frame(a) \/ ChooseFrame(a) \/ FrameShown(a)
  \/ platform_display_present(a)

(* A gate, or the teardown, once it has begun *)
Proceeds ==
  \/ wait_render_worker
  \/ platform_graphics_begin \/ SuspendTerminal
  \/ platform_graphics_fill \/ stage_native_blit \/ platform_graphics_blit
  \/ platform_graphics_overlay \/ platform_graphics_submit \/ Reaped
  \/ platform_graphics_end \/ RestoreTerminal

Calls ==
  \/ OpenGraphics \/ elf_graphics_capabilities
  \/ elf_graphics_enqueue \/ MakeRoom
  \/ \E g \in {"present", "submit", "borrow", "close"} : Finish(g)
  \/ elf_graphics_wait \/ elf_release_resources
  \/ Repaint \/ Unload \/ Load

Next ==
  \/ Refresh
  \/ \E a \in Actor : Draws(a) \/ RefuseFrame(a)
  \/ render_worker \/ GiveDone
  \/ Proceeds \/ Calls \/ console_update

Spec == Init /\ [][Next]_vars

-----------------------------------------------------------------------------
(* What the panel is given is the picture the program has drawn, whole, with
   the overlay of that frame and no trace of an earlier one, or the terminal:
   through deferred clears, staged blits, the worker, frames the panel has
   refused and the exchange of the buffers. Excepted is a system in which the
   terminal was presented while elf_graphics_open was in the driver, where two
   threads exchange the buffers (elf_application.c:1947). *)
FrameIsWhole == met \/ LastFrame = shown

(* No pixel of the buffer being scanned is ever written
   (display_completion.h: the back buffer cannot become writable until
   completion releases the previous front buffer), but after a refresh that ended
   between the drain of old signals and the choice of the frame, whose signal
   passes for that frame's (display.c:196), or after such a meeting. *)
BackIsNotScanned ==
  [][\A b \in Buffer :
        draw'.pixels[b] # draw.pixels[b] => scanning # b \/ early \/ met]_vars

(* While a blit that will read a program's bitmap is staged, or queued, that
   program has not been freed. *)
GuestMemoryOutlivesReaders ==
  staged.from = "guest" \/ (\E i \in DOMAIN queue : queue[i].type = "blit")
    => source # None

(* Whether an actor is in a function that draws or speaks to the panel, or has
   been handed a frame *)
AtDriver(a) ==
  CASE a = "app" -> \/ pc[a] \in {"begin", "finish", "choose", "wait", "draw"}
                    \/ pc[a] \in {"drain", "cover", "reap", "leave"} /\ ~work
    [] a = "worker" -> notified \/ pc[a] # "rest"
    [] a = "term" -> pc[a] # "rest"

(* The driver has no lock. No two of the program's thread, the worker and the
   terminal are in it at once, whatever gate, refusal or teardown they come from,
   but for platform_graphics_begin, which takes no console lock and may meet a
   presentation of the terminal (elf_application.c:1947). The completion of a frame
   handed to the worker is joined exactly once, and the terminal is not presented
   over open graphics. *)
OneDrawer ==
  /\ \A a, b \in Actor :
       AtDriver(a) /\ AtDriver(b) /\ a # b => {a, b} = {"app", "term"} /\ pc["app"] = "begin"
  /\ work <=> notified \/ done \/ pc["worker"] # "rest"
  /\ ~(notified /\ done) /\ (notified \/ done => pc["worker"] = "rest")
  /\ console => pc["term"] = "rest"

=============================================================================
