------------------------------ MODULE Keyboard ------------------------------
(***************************************************************************)
(* The Tab5's keyboard: a controller that queues reports of its matrix and *)
(* asserts an interrupt line, the bounded drain of platform/esp32p4/       *)
(* keyboard.c and keyboard_interrupt.c, the portable input queue of        *)
(* input/input.c with its key repeat, and the programs that read it in     *)
(* turn as the console changes hands. The drain, the repeat and the change *)
(* of hands are on the runtime thread; the interrupt comes when it likes,  *)
(* and programs read on threads of their own. Every call into the input    *)
(* service is one critical section.                                        *)
(*                                                                         *)
(* Characters are left out: a key is ordinary, and then has text, or the   *)
(* modifier Sym with its latch; Aa's is the same. A key stands for its     *)
(* place in the matrix; programs see codes. What the service promises them is in *)
(* KeyPromise.                                                             *)
(***************************************************************************)
EXTENDS KeyPromise, Integers, SequencesExt

CONSTANTS
  Capacity,     \* INPUT_QUEUE_CAPACITY
  Passes,       \* KEYBOARD_DRAIN_PASSES
  MaxEvents,    \* KEYBOARD_MAX_EVENTS, read in one pass
  MaxTaps,      \* bound: presses and releases
  MaxRepeats,   \* bound: how often the repeat timer fires
  MaxSwitches   \* bound: attempts to acquire the console

Codes == Range(Code)

Constants ==
  /\ Key # {} /\ DOMAIN Code = Key /\ Sym \notin Key \cup Codes
  /\ None \notin Codes \cup Program \cup {Sym}
  /\ Capacity \in Nat \ {0} /\ Passes \in Nat \ {0} /\ MaxEvents \in Nat \ {0}
  /\ MaxTaps \in Nat /\ MaxRepeats \in Nat /\ MaxSwitches \in Nat

ASSUME KeyboardAssumption == Constants

Matrix == Key \cup {Sym}
Layer == {"base", "sym"}
Report == [key : Matrix, down : BOOLEAN]
KeyEvent == [type : {"DOWN", "UP"}, key : Codes \cup {Sym}, layer : Layer, repeat : BOOLEAN]
TextEvent == [type : {"TEXT"}, key : {None}, layer : Layer, repeat : BOOLEAN]
Event == KeyEvent \cup TextEvent
Queued == [event : Event, generation : Nat]
HeldKey == [key : Codes \cup {None}, layer : Layer, text : BOOLEAN]
Belief == (Codes \cup {Sym}) \X (Layer \cup {None})

VARIABLES
  hands,       \* the keys that are held down
  taps,        \* bound: how often that changed
  fifo,        \* the controller's reports nobody has read
  status,      \* its interrupt status
  armed,       \* its interrupt is enabled
  edge,        \* the interrupt handler is about to run, or to notify
  flag,        \* keyboard_interrupt_pending
  owed,        \* the INPUT bit is set (Delivery's owed)
  present,     \* keyboard_present
  at,          \* where the runtime thread is
  pass,        \* passes of this drain
  left,        \* reports left to read in this pass
  latch,       \* sym_latched, sym_used
  timer,       \* repeat_timer
  repeats,     \* bound: how often it fired
  front,       \* the program with the console
  switches,    \* bound: how often it was acquired
  lit          \* POWER_INHIBITOR_KEYBOARD as last told to the power manager

controller == <<hands, taps, fifo, status, armed>>
interrupt == <<edge, flag, owed>>
drain == <<at, pass, left>>
matrix == <<pressed, latch, binding, todo>>
service == <<input, down, timer>>
readers == <<front, switches, view>>
vars == <<hands, taps, fifo, status, armed, edge, flag, owed, present, at, pass, left, pressed,
          latch, binding, todo, input, down, timer, repeats, front, switches, view, lit>>

NoKey == [key |-> None, layer |-> "base", text |-> FALSE]

TypeOK ==
  /\ hands \in SUBSET Matrix /\ taps \in 0 .. MaxTaps
  /\ fifo \in Seq(Report) /\ status \in BOOLEAN /\ armed \in BOOLEAN
  /\ edge \in {"none", "handler", "notify"} /\ flag \in BOOLEAN /\ owed \in BOOLEAN
  /\ present \in BOOLEAN
  /\ at \in {"boot", "arm", "check", "idle", "exchange", "count", "read", "submit", "recheck",
             "still", "after", "power", "repeat"}
  /\ pass \in 0 .. Passes /\ left \in 0 .. MaxTaps
  /\ pressed \in SUBSET Matrix
  /\ latch \in [latched : BOOLEAN, used : BOOLEAN]
  /\ binding \in [Key -> Layer]
  /\ todo \in Seq(Event)
  /\ input \in [queue : Seq(Queued), generation : Nat, held : HeldKey]
  /\ Len(input.queue) <= Capacity
  /\ down \in SUBSET (Codes \cup {Sym})
  /\ timer \in {"off", "armed", "due"} /\ repeats \in 0 .. MaxRepeats
  /\ front \in Program \cup {None} /\ switches \in 0 .. MaxSwitches
  /\ view \in [Program -> [down : SUBSET Belief, generation : Nat]]
  /\ lit \in BOOLEAN

(* tab5_keyboard_init has read what was queued at power-on (capture_boot_delete)
   and not yet enabled the interrupt; the generation is input_init's. *)
Init ==
  /\ hands = {} /\ taps = 0 /\ fifo = <<>> /\ status \in BOOLEAN /\ armed = FALSE
  /\ edge = "none" /\ flag = FALSE /\ owed = FALSE /\ present = TRUE
  /\ at = "boot" /\ pass = 0 /\ left = 0
  /\ pressed = {} /\ latch = [latched |-> FALSE, used |-> FALSE]
  /\ binding = [k \in Key |-> "base"] /\ todo = <<>>
  /\ input = [queue |-> <<>>, generation |-> 1, held |-> NoKey]
  /\ down = {} /\ timer = "off" /\ repeats = 0
  /\ front = None /\ switches = 0
  /\ view = [o \in Program |-> [down |-> {}, generation |-> 0]]
  /\ lit = FALSE

-----------------------------------------------------------------------------
(* The controller (external): each press and release is queued and sets the
   status, which asserts the line. Clearing the status acknowledges what has
   been read; it stays set for what was left or has come meanwhile. The handler runs on a
   falling edge. *)
Line == status /\ armed

Tap ==
  /\ taps < MaxTaps /\ taps' = taps + 1
  /\ \E k \in Matrix :
       /\ hands' = IF k \in hands THEN hands \ {k} ELSE hands \cup {k}
       /\ fifo' = Append(fifo, [key |-> k, down |-> k \notin hands])
  /\ status' = TRUE
  /\ edge' = IF armed /\ present /\ ~status THEN "handler" ELSE edge
  /\ UNCHANGED <<armed, flag, owed, present, drain, matrix, service, repeats, readers, lit>>

Cleared == status' = (fifo # <<>>)

(* keyboard_interrupt: the flag, then the notification *)
keyboard_interrupt ==
  /\ edge = "handler" /\ flag' = TRUE /\ edge' = "notify"
  /\ UNCHANGED <<controller, owed, present, drain, matrix, service, repeats, readers, lit>>

InterruptNotify ==
  /\ edge = "notify" /\ owed' = TRUE /\ edge' = "none"
  /\ UNCHANGED <<controller, flag, present, drain, matrix, service, repeats, readers, lit>>

(* The rest of tab5_keyboard_init: the status is cleared, the interrupt enabled,
   and the line looked at, since one that is low already has no edge. *)
BootClear ==
  /\ at = "boot" /\ Cleared /\ at' = "arm"
  /\ UNCHANGED <<hands, taps, fifo, armed, interrupt, present, pass, left, matrix, service,
                 repeats, readers, lit>>

EnableInterrupt ==
  /\ at = "arm" /\ armed' = TRUE /\ at' = "check"
  /\ edge' \in {edge} \cup (IF status THEN {"handler"} ELSE {})
  /\ UNCHANGED <<hands, taps, fifo, status, flag, owed, present, pass, left, matrix, service,
                 repeats, readers, lit>>

(* Mutant: the edge is trusted. *)
TrustTheEdge ==
  /\ at = "check" /\ at' = "idle"
  /\ UNCHANGED <<controller, interrupt, present, pass, left, matrix, service, repeats, readers,
                 lit>>

CheckLine ==
  /\ at = "check" /\ at' = "idle"
  /\ IF Line THEN flag' = TRUE /\ owed' = TRUE ELSE UNCHANGED <<flag, owed>>
  /\ UNCHANGED <<controller, edge, present, pass, left, matrix, service, repeats, readers, lit>>

-----------------------------------------------------------------------------
(* A pass of kernel_runtime_update, for the INPUT bit or for the repeat timer,
   as far as the keyboard is concerned. *)
BeginUpdate ==
  /\ at = "idle" /\ (owed \/ timer = "due")
  /\ owed' = FALSE /\ at' = IF owed THEN "exchange" ELSE "power"
  /\ UNCHANGED <<controller, edge, flag, present, pass, left, matrix, service, repeats, readers,
                 lit>>

(* tab5_keyboard_poll: the flag is exchanged; without it, the line decides. *)
tab5_keyboard_poll ==
  /\ at = "exchange"
  /\ IF present /\ (flag \/ Line)
       THEN flag' = FALSE /\ at' = "count" /\ pass' = 1
       ELSE flag' = (flag /\ ~present) /\ at' = "power" /\ UNCHANGED pass
  /\ UNCHANGED <<controller, edge, owed, present, left, matrix, service, repeats, readers, lit>>

(* tab5_keyboard_interrupt_drain: as many reports are read as are counted, up to
   a limit, ... *)
ReadCount ==
  /\ at = "count" /\ at' = "read"
  /\ left' = IF Len(fifo) > MaxEvents THEN MaxEvents ELSE Len(fifo)
  /\ UNCHANGED <<controller, interrupt, present, pass, matrix, service, repeats, readers, lit>>

(* submit_matrix_event: a press takes the layer that is on, by hold or by latch,
   and keeps it until its release; it ends the latch. *)
CookedSym == Sym \in pressed \/ latch.latched

Plain(type, k, layer) == [type |-> type, key |-> k, layer |-> layer, repeat |-> FALSE]

(* Mutant: a release is given the layer that is on. *)
ReportedAnew(r, layer) ==
  IF r.down = (r.key \in pressed) THEN <<>>
  ELSE IF r.key = Sym THEN <<Plain(IF r.down THEN "DOWN" ELSE "UP", Sym, "base")>>
  ELSE IF r.down THEN <<Plain("DOWN", Code[r.key], layer), Plain("TEXT", None, layer)>>
  ELSE <<Plain("UP", Code[r.key], layer)>>

Reported(r, layer) ==
  IF r.down = (r.key \in pressed) THEN <<>>
  ELSE IF r.key = Sym THEN <<Plain(IF r.down THEN "DOWN" ELSE "UP", Sym, "base")>>
  ELSE IF r.down THEN <<Plain("DOWN", Code[r.key], layer), Plain("TEXT", None, layer)>>
  ELSE <<Plain("UP", Code[r.key], binding[r.key])>>

Latched(r) ==
  IF r.down = (r.key \in pressed) THEN latch
  ELSE IF r.key = Sym
    THEN IF r.down THEN [latch EXCEPT !.used = FALSE]
         ELSE [latch EXCEPT !.latched = @ \/ ~latch.used]
  ELSE IF r.down THEN [latched |-> FALSE, used |-> latch.used \/ Sym \in pressed]
  ELSE latch

submit_matrix_event ==
  /\ at = "read" /\ left > 0
  /\ LET r == Head(fifo)
         layer == IF CookedSym THEN "sym" ELSE "base"
     IN /\ pressed' = IF r.down THEN pressed \cup {r.key} ELSE pressed \ {r.key}
        /\ latch' = Latched(r)
        /\ binding' = IF r.key # Sym /\ r.down /\ r.key \notin pressed
                        THEN [binding EXCEPT ![r.key] = layer] ELSE binding
        /\ todo' = Reported(r, layer)
  /\ fifo' = Tail(fifo) /\ left' = left - 1 /\ at' = "submit"
  /\ UNCHANGED <<hands, taps, status, armed, interrupt, present, pass, service, repeats, readers,
                 lit>>

-----------------------------------------------------------------------------
(* Mutant: the generation does not tell that an event was dropped. *)
PushSilently(i, e) ==
  [i EXCEPT !.queue = Append(IF Len(@) = Capacity THEN Tail(@) ELSE @,
                             [event |-> e, generation |-> i.generation])]

(* A full queue drops its oldest event, and the generation changes. *)
Push(i, e) ==
  LET full == Len(i.queue) = Capacity
      generation == IF full THEN i.generation + 1 ELSE i.generation
  IN [i EXCEPT !.generation = generation,
               !.queue = Append(IF full THEN Tail(@) ELSE @,
                                [event |-> e, generation |-> generation])]

(* What is held after an event: the key pressed last, until it is released. *)
Held(e) ==
  LET h == input.held IN
  CASE e.type = "DOWN" /\ e.key # Sym -> [key |-> e.key, layer |-> e.layer, text |-> FALSE]
    [] e.type = "UP" /\ e.key = h.key -> NoKey
    [] e.type = "TEXT" \/ e.key = Sym -> [h EXCEPT !.text = h.key # None]
    [] OTHER -> h

input_submit ==
  /\ at = "submit" /\ todo # <<>>
  /\ LET e == Head(todo) IN
       /\ down' = CASE e.type = "DOWN" -> down \cup {e.key}
                    [] e.type = "UP" -> down \ {e.key}
                    [] OTHER -> down
       /\ input' = [Push(input, e) EXCEPT !.held = Held(e)]
       /\ timer' = CASE e.type = "DOWN" /\ e.key # Sym -> "armed"
                     [] e.type = "UP" /\ e.key = input.held.key -> "off"
                     [] OTHER -> timer
  /\ todo' = Tail(todo) /\ owed' = TRUE
  /\ UNCHANGED <<controller, edge, flag, present, drain, pressed, latch, binding, repeats,
                 readers, lit>>

NextReport ==
  /\ at = "submit" /\ todo = <<>> /\ at' = "read"
  /\ UNCHANGED <<controller, interrupt, present, pass, left, matrix, service, repeats, readers,
                 lit>>

(* ... then the status is cleared, and read again with the line: what came in
   between starts another pass, ... *)
ClearStatus ==
  /\ at = "read" /\ left = 0 /\ Cleared /\ at' = "recheck"
  /\ UNCHANGED <<hands, taps, fifo, armed, interrupt, present, pass, left, matrix, service,
                 repeats, readers, lit>>

Recheck ==
  /\ at = "recheck"
  /\ IF status /\ pass < Passes THEN at' = "count" /\ pass' = pass + 1
     ELSE at' = (IF status THEN "still" ELSE "after") /\ pass' = 0
  /\ UNCHANGED <<controller, interrupt, present, left, matrix, service, repeats, readers, lit>>

(* ... and after the last one, or for an interrupt meanwhile, another update. *)
AfterDrain ==
  /\ at \in {"still", "after"} /\ at' = "power"
  /\ IF at = "still" \/ flag THEN flag' = TRUE /\ owed' = TRUE ELSE UNCHANGED <<flag, owed>>
  /\ UNCHANGED <<controller, edge, present, pass, left, matrix, service, repeats, readers, lit>>

(* A transfer fails: the keyboard is given up, input_reset(true). *)
Reset(i) == [queue |-> <<>>, generation |-> i.generation + 1, held |-> NoKey]

DrainFails ==
  /\ at \in {"count", "read", "recheck"}
  /\ present' = FALSE /\ at' = "power" /\ pass' = 0 /\ left' = 0
  /\ input' = Reset(input) /\ down' = {} /\ timer' = "off"
  /\ UNCHANGED <<controller, interrupt, matrix, repeats, readers, lit>>

(* input_take_power_activity, for the power manager *)
TellPower ==
  /\ at = "power" /\ lit' = (down # {})
  /\ at' \in {"idle"} \cup (IF timer = "due" THEN {"repeat"} ELSE {})
  /\ UNCHANGED <<controller, interrupt, present, pass, left, matrix, service, repeats, readers>>

(* input_update: the held key is repeated, with its text. *)
input_update ==
  LET h == input.held
      again == Push(input, [type |-> "DOWN", key |-> h.key, layer |-> h.layer, repeat |-> TRUE])
  IN
  /\ at = "repeat" /\ at' = "idle"
  /\ IF h.key # None
       THEN /\ timer' = "armed"
            /\ input' = IF h.text
                          THEN Push(again, [type |-> "TEXT", key |-> None, layer |-> h.layer,
                                            repeat |-> TRUE])
                          ELSE again
       ELSE UNCHANGED <<timer, input>>
  /\ UNCHANGED <<controller, interrupt, present, pass, left, matrix, down, repeats, readers, lit>>

TimerFires ==
  /\ timer = "armed" /\ timer' = "due"
  /\ repeats < MaxRepeats /\ repeats' = repeats + 1
  /\ UNCHANGED <<controller, interrupt, present, drain, matrix, input, down, readers, lit>>

-----------------------------------------------------------------------------
(* tabos_console_acquire, whose frame may fail to be presented, and
   tabos_console_release: input_reset(false) *)
tabos_console_acquire(o) ==
  /\ at = "idle" /\ front = None /\ front' \in {o, None}
  /\ switches < MaxSwitches /\ switches' = switches + 1
  /\ input' = Reset(input) /\ timer' = "off"
  /\ UNCHANGED <<controller, interrupt, present, drain, matrix, down, repeats, view, lit>>

tabos_console_release ==
  /\ at = "idle" /\ front # None /\ front' = None
  /\ input' = Reset(input) /\ timer' = "off"
  /\ UNCHANGED <<controller, interrupt, present, drain, matrix, down, repeats, switches, view, lit>>

(* A program in the foreground reads an event (pop_event). It keeps to the
   SDK's rule: an event of another generation tells it nothing but that. *)
tabos_input_poll(o) ==
  /\ front = o /\ input.queue # <<>>
  /\ LET q == Head(input.queue) IN
     view' = IF q.generation # view[o].generation THEN view
             ELSE [view EXCEPT ![o].down = Learns(@, q.event)]
  /\ input' = [input EXCEPT !.queue = Tail(@)]
  /\ UNCHANGED <<controller, interrupt, present, drain, matrix, down, timer, repeats, front,
                 switches, lit>>

(* input_get_state(TRUE), when the generation is not the one it knows *)
input_get_state(o) ==
  /\ front = o /\ view[o].generation # input.generation
  /\ input' = [input EXCEPT !.queue = <<>>, !.generation = @ + 1]
  /\ view' = [view EXCEPT ![o] = [down |-> down \X {None}, generation |-> input.generation + 1]]
  /\ UNCHANGED <<controller, interrupt, present, drain, matrix, down, timer, repeats, front,
                 switches, lit>>

-----------------------------------------------------------------------------
Boot == BootClear \/ EnableInterrupt \/ CheckLine
Update ==
  \/ BeginUpdate \/ tab5_keyboard_poll \/ ReadCount \/ submit_matrix_event \/ input_submit
  \/ NextReport \/ ClearStatus \/ Recheck \/ AfterDrain \/ TellPower \/ input_update
Handler == keyboard_interrupt \/ InterruptNotify

Next ==
  \/ Tap \/ Handler \/ Boot \/ Update \/ DrainFails \/ TimerFires
  \/ tabos_console_release
  \/ \E o \in Program : tabos_console_acquire(o) \/ tabos_input_poll(o) \/ input_get_state(o)

Spec == Init /\ [][Next]_vars

(* The runtime thread goes on and is woken by the bit (Delivery), an interrupt
   handler that was entered returns; fingers and programs owe nothing. *)
FairSpec == Spec /\ WF_vars(Boot \/ Update) /\ WF_vars(Handler)

-----------------------------------------------------------------------------
CodesOf(S) == {Code[k] : k \in S \ {Sym}} \cup (S \cap {Sym})

(* When the fingers rest, the service and the power manager come to know what
   they hold, but for keys that share a code, also of a key moved during the
   drain, after its last pass or before the interrupt was enabled: or the
   keyboard is lost, and nothing is taken to be held. *)
KeysSettle ==
  LET held == IF present THEN CodesOf(hands) ELSE {}
  IN <>[](/\ down \subseteq held /\ held \ down \subseteq SharedCodes
          /\ lit <=> down # {})
=============================================================================
