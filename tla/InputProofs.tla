---------------------------- MODULE InputProofs ----------------------------
(***************************************************************************)
(* Proofs about the runtime loop and the two drivers of input it drives,   *)
(* for any programs, keys, contacts, queue sizes and passes of a drain:    *)
(* of Keyboard that it keeps KeyPromise, of Touch that it keeps            *)
(* PointerPromise, and of EventLoop, for any set of notifying threads and  *)
(* of readiness bits, that no wakeup is lost and the loop implements the   *)
(* safety part of Delivery.                                                *)
(***************************************************************************)
EXTENDS EventLoop, KeyPromise, PointerPromise, WellFoundedInduction, SequenceTheorems, TLAPS

(* What Keyboard has besides *)
CONSTANTS Capacity, Passes, MaxEvents, MaxTaps, MaxRepeats, MaxSwitches
VARIABLES hands, taps, fifo, status, armed, edge, flag, owed, present, keysAt, pass, left,
          latch, timer, repeats, front, switches, lit

Keys == INSTANCE Keyboard WITH at <- keysAt

(* What Touch has besides *)
CONSTANTS Reports, NoOwner, TouchCapacity, TouchPasses, MaxTouches
VARIABLES panel, touches, line, touchEdge, touchFlag, touchOwed, ready, touchLeft, touchTodo,
          detected, opening

Pad == INSTANCE Touch
  WITH Capacity <- TouchCapacity, Passes <- TouchPasses, edge <- touchEdge, flag <- touchFlag,
       owed <- touchOwed, left <- touchLeft, todo <- touchTodo

-----------------------------------------------------------------------------
(* Induction. The library states it for a predicate; a set that holds 0 and
   with every number the next one is the form the provers can use. *)
LEMMA SetInduction ==
  ASSUME NEW S, 0 \in S, \A n \in Nat : n \in S => n + 1 \in S
  PROVE  Nat \subseteq S
<1> DEFINE T == Nat \ S
           R == {ss \in Nat \X Nat : ss[1] < ss[2]}
<1>1. SUFFICES ASSUME T # {} PROVE FALSE
  OBVIOUS
<1>2. IsWellFoundedOn(R, Nat)
  BY NatLessThanWellFounded, Zenon DEF OpToRel
<1>3. PICK x \in T : \A y \in T : ~ (<<y, x>> \in R)
  <2>1. T \subseteq Nat
    OBVIOUS
  <2> HIDE DEF R, T
  <2> QED BY <1>1, <1>2, <2>1, WFMin
<1>4. x - 1 \in Nat /\ x - 1 \notin S
  OBVIOUS
<1>5. <<x - 1, x>> \in R
  BY <1>4
<1> QED BY <1>3, <1>4, <1>5

-----------------------------------------------------------------------------
(* What KnownAfter computes is a run of Learns along the queue. *)
LearningTo(m, f, known, queue) ==
  f = [n \in 0 .. m |-> IF n = 0 THEN known ELSE Keys!Learns(f[n - 1], queue[n].event)]

(* Such a run exists for every queue, and is KnownAfter. *)
LEMMA LearningExists ==
  ASSUME NEW known, NEW queue, NEW N \in Nat
  PROVE  \E f : LearningTo(N, f, known, queue)
<1> DEFINE S == {m \in Nat : \E f : LearningTo(m, f, known, queue)}
<1>1. 0 \in S
  <2> DEFINE g == [n \in 0 .. 0 |-> known]
  <2>1. LearningTo(0, g, known, queue)
    BY DEF LearningTo
  <2> QED BY <2>1
<1>2. ASSUME NEW m \in Nat, m \in S PROVE m + 1 \in S
  <2>1. PICK f : LearningTo(m, f, known, queue)
    BY <1>2
  <2> DEFINE next == Keys!Learns(f[m], queue[m + 1].event)
             g == [n \in 0 .. m + 1 |-> IF n = m + 1 THEN next ELSE f[n]]
             step(h, n) == IF n = 0 THEN known ELSE Keys!Learns(h[n - 1], queue[n].event)
  <2>2. \A n \in 0 .. m : g[n] = f[n] /\ f[n] = step(f, n)
    BY <2>1 DEF LearningTo
  <2>3. g[m + 1] = next /\ (m + 1) - 1 = m /\ m + 1 # 0 /\ m \in 0 .. m
    OBVIOUS
  <2>4. g = [n \in 0 .. m + 1 |-> g[n]]
    OBVIOUS
  <2> HIDE DEF g
  <2>5. ASSUME NEW n \in 0 .. m + 1 PROVE g[n] = step(g, n)
    <3>1. CASE n = m + 1
      BY <2>2, <2>3, <3>1
    <3>2. CASE n \in 0 .. m
      <4>1. n # 0 => g[n - 1] = f[n - 1]
        BY <2>2, <3>2
      <4> QED BY <2>2, <3>2, <4>1
    <3> QED BY <3>1, <3>2
  <2>6. LearningTo(m + 1, g, known, queue)
    BY <2>4, <2>5 DEF LearningTo
  <2> QED BY <2>6
<1>3. Nat \subseteq S
  <2> HIDE DEF S
  <2> QED BY <1>1, <1>2, SetInduction
<1> QED BY <1>3

(* f learns along q, from its k-th event on. *)
Learning(f, q, k, N) == \A n \in 1 .. N : f[n + k] = Keys!Learns(f[(n + k) - 1], q[n + k].event)

LEMMA KnownAfterLearns ==
  ASSUME NEW known, NEW queue, Len(queue) \in Nat
  PROVE  \E f : /\ f[0] = known /\ Learning(f, queue, 0, Len(queue))
                /\ Keys!KnownAfter(known, queue) = f[Len(queue)]
<1> DEFINE after == CHOOSE f : LearningTo(Len(queue), f, known, queue)
<1>1. LearningTo(Len(queue), after, known, queue)
  BY LearningExists, Zenon
<1>2. Keys!KnownAfter(known, queue) = after[Len(queue)]
  BY DEF Keys!KnownAfter, LearningTo
<1> HIDE DEF after
<1>3. after[0] = known
  BY <1>1 DEF LearningTo
<1>4. Learning(after, queue, 0, Len(queue))
  BY <1>1 DEF LearningTo, Learning
<1> QED BY <1>2, <1>3, <1>4

Same(q, k, r, N) == \A n \in 1 .. N : q[n + k] = r[n + 0]

(* Runs along the same events agree. *)
LEMMA LearningAgrees ==
  ASSUME NEW N \in Nat, NEW k \in Nat, NEW f, NEW g, NEW q, NEW r, f[k] = g[0],
         Learning(f, q, k, N), Learning(g, r, 0, N), Same(q, k, r, N)
  PROVE  f[N + k] = g[N]
<1> DEFINE S == {n \in Nat : n <= N => f[n + k] = g[n]}
<1>1. 0 \in S
  OBVIOUS
<1>2. ASSUME NEW n \in Nat, n \in S PROVE n + 1 \in S
  <2>1. SUFFICES ASSUME n + 1 <= N PROVE f[(n + 1) + k] = g[n + 1]
    OBVIOUS
  <2>2. n + 1 \in 1 .. N /\ f[n + k] = g[n]
    BY <1>2, <2>1
  <2>3. f[(n + 1) + k] = Keys!Learns(f[n + k], q[(n + 1) + k].event)
    <3>1. f[(n + 1) + k] = Keys!Learns(f[((n + 1) + k) - 1], q[(n + 1) + k].event)
      BY <2>2 DEF Learning
    <3>2. ((n + 1) + k) - 1 = n + k
      OBVIOUS
    <3> QED BY <3>1, <3>2
  <2>4. g[n + 1] = Keys!Learns(g[n], r[n + 1].event)
    <3>1. g[(n + 1) + 0] = Keys!Learns(g[((n + 1) + 0) - 1], r[(n + 1) + 0].event)
      BY <2>2 DEF Learning
    <3>2. ((n + 1) + 0) - 1 = n /\ (n + 1) + 0 = n + 1
      OBVIOUS
    <3> QED BY <3>1, <3>2
  <2>5. q[(n + 1) + k] = r[n + 1]
    BY <2>2 DEF Same
  <2> QED BY <2>2, <2>3, <2>4, <2>5
<1>3. Nat \subseteq S
  <2> HIDE DEF S
  <2> QED BY <1>1, <1>2, SetInduction
<1> QED BY <1>3

(* KnownAfter, from both ends of the queue *)
LEMMA KnownAfterNothing ==
  ASSUME NEW known PROVE Keys!KnownAfter(known, <<>>) = known
<1>1. Len(<<>>) = 0
  OBVIOUS
<1> QED BY <1>1, KnownAfterLearns

LEMMA KnownAfterAppend ==
  ASSUME NEW known, NEW S, NEW queue \in Seq(S), NEW q \in S
  PROVE  Keys!KnownAfter(known, Append(queue, q))
           = Keys!Learns(Keys!KnownAfter(known, queue), q.event)
<1> DEFINE more == Append(queue, q)
           N == Len(queue)
<1>1. N \in Nat /\ Len(more) = N + 1 /\ more[N + 1] = q
  BY AppendProperties
<1>2. Same(more, 0, queue, N)
  BY AppendProperties DEF Same
<1> HIDE DEF more, N
<1>3. PICK f : f[0] = known /\ Learning(f, queue, 0, N) /\ Keys!KnownAfter(known, queue) = f[N]
  BY <1>1, KnownAfterLearns DEF N
<1>4. PICK g : /\ g[0] = known /\ Learning(g, more, 0, N + 1)
               /\ Keys!KnownAfter(known, more) = g[N + 1]
  BY <1>1, KnownAfterLearns
<1>5. Learning(g, more, 0, N)
  BY <1>1, <1>4 DEF Learning
<1>6. g[N + 0] = f[N]
  BY <1>1, <1>2, <1>3, <1>4, <1>5, LearningAgrees
<1>7. g[(N + 1) + 0] = Keys!Learns(g[((N + 1) + 0) - 1], more[(N + 1) + 0].event)
  BY <1>1, <1>4 DEF Learning
<1>8. (N + 1) + 0 = N + 1 /\ ((N + 1) + 0) - 1 = N + 0
  BY <1>1
<1> QED BY <1>1, <1>3, <1>4, <1>6, <1>7, <1>8 DEF more

LEMMA KnownAfterHead ==
  ASSUME NEW known, NEW S, NEW queue \in Seq(S), queue # <<>>
  PROVE  Keys!KnownAfter(known, queue)
           = Keys!KnownAfter(Keys!Learns(known, Head(queue).event), Tail(queue))
<1> DEFINE rest == Tail(queue)
           N == Len(queue) - 1
           learned == Keys!Learns(known, Head(queue).event)
<1>1. N \in Nat /\ Len(rest) = N /\ Len(queue) = N + 1 /\ Head(queue) = queue[1]
  BY HeadTailProperties
<1>2. Same(queue, 1, rest, N)
  BY HeadTailProperties DEF Same
<1> HIDE DEF rest, N, learned
<1>3. PICK f : /\ f[0] = known /\ Learning(f, queue, 0, N + 1)
               /\ Keys!KnownAfter(known, queue) = f[N + 1]
  BY <1>1, KnownAfterLearns
<1>4. PICK g : g[0] = learned /\ Learning(g, rest, 0, N) /\ Keys!KnownAfter(learned, rest) = g[N]
  BY <1>1, KnownAfterLearns
<1>5. f[1] = g[0]
  <2>1. f[1 + 0] = Keys!Learns(f[(1 + 0) - 1], queue[1 + 0].event)
    BY <1>1, <1>3 DEF Learning
  <2>2. (1 + 0) - 1 = 0 /\ 1 + 0 = 1
    OBVIOUS
  <2> QED BY <1>1, <1>3, <1>4, <2>1, <2>2 DEF learned
<1>6. Learning(f, queue, 1, N)
  <2>1. SUFFICES ASSUME NEW n \in 1 .. N
                 PROVE  f[n + 1] = Keys!Learns(f[(n + 1) - 1], queue[n + 1].event)
    BY DEF Learning
  <2>2. f[(n + 1) + 0] = Keys!Learns(f[((n + 1) + 0) - 1], queue[(n + 1) + 0].event)
    BY <1>1, <1>3 DEF Learning
  <2>3. (n + 1) + 0 = n + 1
    OBVIOUS
  <2> QED BY <2>2, <2>3
<1>7. f[N + 1] = g[N]
  BY <1>1, <1>2, <1>4, <1>5, <1>6, LearningAgrees
<1> QED BY <1>3, <1>4, <1>7 DEF rest, learned

-----------------------------------------------------------------------------
(* Keys whose press counts: also one whose release is being submitted. *)
Releasing ==
  {k \in Key : /\ todo # <<>> /\ todo[1].type = "UP"
               /\ todo[1].key = Code[k] /\ todo[1].layer = binding[k]}
Holding == (pressed \cap Key) \cup Releasing

(* What is left to read of a count is there to be read. *)
ReportsLeft == Len(fifo) <= taps /\ left <= Len(fifo)

(* A press is of a key that is pressed, a release of one with its binding, and
   alone. *)
TodoIsTrue ==
  /\ todo # <<>> => keysAt = "submit"
  /\ \A i \in DOMAIN todo : todo[i].type # "TEXT" =>
       /\ todo[i].key = Sym => todo[i].layer = "base"
       /\ todo[i].key # Sym =>
            \E k \in Key : /\ Code[k] = todo[i].key /\ binding[k] = todo[i].layer
                           /\ todo[i].type = "DOWN" => k \in pressed
       /\ todo[i].type = "UP" => Len(todo) = 1

(* What the service calls down, a key that counts holds down. *)
DownIsPressed == \A c \in down \ {Sym} : \E k \in Holding : Code[k] = c

(* What repeats is down, in the layer its key is bound to. *)
HeldIsDown ==
  LET h == input.held IN
  h.key # None => h.key \in down
                  /\ \E k \in Holding : Code[k] = h.key /\ h.layer \in {None, binding[k]}

(* Only the foreground can know the generation. *)
GenerationsGrow ==
  \A o \in Program : /\ view[o].generation <= input.generation
                     /\ view[o].generation = input.generation => front = o

(* What a program may take for true, when these keys are down and those count,
   bound to these layers *)
Knows(known, keys, holding, layers) ==
  /\ known \subseteq Keys!Belief
  /\ keys \subseteq {b[1] : b \in known}
  /\ \A b \in known :
       /\ b[1] \in keys \cup Keys!SharedCodes
       /\ b[1] = Sym => b[2] \in {None, "base"}
       /\ b[1] # Sym => \E k \in holding : Code[k] = b[1] /\ b[2] \in {None, layers[k]}

(* A program that knows the generation misses nothing: what it will believe
   with the queue read is true, and no event of the queue is of another. *)
Knowing ==
  \A o \in Program : view[o].generation = input.generation =>
    /\ Knows(Keys!Learned(o), down, Holding, binding)
    /\ \A i \in DOMAIN input.queue : input.queue[i].generation = input.generation

(* The inductive invariant. GenerationTellsAll speaks of the queue and of a
   view alone; that an event keeps it true takes that the events left to
   submit are of what the matrix says, and that only one release is on its
   way, which is why Holding counts its key until it is submitted. *)
KeysInv ==
  /\ Keys!Constants /\ Keys!TypeOK /\ ReportsLeft /\ TodoIsTrue /\ DownIsPressed /\ HeldIsDown
  /\ GenerationsGrow /\ Knowing

(* What the constants say of codes *)
LEMMA CodesAreCodes ==
  ASSUME Keys!Constants
  PROVE  /\ \A k \in Key : Code[k] \in Keys!Codes /\ Code[k] # Sym /\ Code[k] # None
         /\ \A c \in Keys!Codes : c # Sym /\ c # None
         /\ Sym \notin Key /\ Sym # None /\ None \notin Program
  BY DEF Keys!Constants, Keys!Codes, Keys!Range

(* input_push, input.c: the queue keeps within its capacity, and without a new
   generation it only grows. *)
LEMMA PushedIsTyped ==
  ASSUME Keys!Constants, NEW i, NEW e \in Keys!Event,
         i \in [queue : Seq(Keys!Queued), generation : Nat, held : Keys!HeldKey],
         Len(i.queue) <= Capacity
  PROVE  /\ Keys!Push(i, e) \in [queue : Seq(Keys!Queued), generation : Nat, held : Keys!HeldKey]
         /\ Len(Keys!Push(i, e).queue) <= Capacity
         /\ Keys!Push(i, e).held = i.held
         /\ Keys!Push(i, e).generation >= i.generation
         /\ Keys!Push(i, e).generation = i.generation =>
              Keys!Push(i, e).queue = Append(i.queue, [event |-> e, generation |-> i.generation])
<1> DEFINE full == Len(i.queue) = Capacity
           generation == IF full THEN i.generation + 1 ELSE i.generation
           entry == [event |-> e, generation |-> generation]
           kept == IF full THEN Tail(i.queue) ELSE i.queue
<1>1. Keys!Push(i, e) = [i EXCEPT !.generation = generation, !.queue = Append(kept, entry)]
  BY DEF Keys!Push
<1>2. generation \in Nat /\ entry \in Keys!Queued /\ generation >= i.generation
  BY DEF Keys!Queued
<1>3. kept \in Seq(Keys!Queued) /\ Len(kept) < Capacity
  <2>1. CASE full
    <3>1. i.queue # <<>> /\ Len(Tail(i.queue)) = Len(i.queue) - 1
          /\ Tail(i.queue) \in Seq(Keys!Queued)
      BY <2>1 DEF Keys!Constants
    <3> QED BY <2>1, <3>1 DEF Keys!Constants
  <2>2. CASE ~full
    BY <2>2 DEF Keys!Constants
  <2> QED BY <2>1, <2>2
<1>4. generation = i.generation
      => kept = i.queue /\ entry = [event |-> e, generation |-> i.generation]
  OBVIOUS
<1> HIDE DEF kept, entry, generation, full
<1>5. Append(kept, entry) \in Seq(Keys!Queued) /\ Len(Append(kept, entry)) <= Capacity
  BY <1>2, <1>3 DEF Keys!Constants
<1> QED BY <1>1, <1>2, <1>4, <1>5

-----------------------------------------------------------------------------
(* Keyboard, its types *)
LEMMA KeysInit == Keys!Constants /\ Keys!Init => KeysInv
<1> SUFFICES ASSUME Keys!Constants, Keys!Init PROVE KeysInv
  OBVIOUS
<1> USE DEF Keys!Init, Keys!NoKey
<1>1. Keys!TypeOK
  <2> USE DEF Keys!Constants, Keys!Layer
  <2>1. view \in [Program -> [down : SUBSET Keys!Belief, generation : Nat]]
    OBVIOUS
  <2>2. input \in [queue : Seq(Keys!Queued), generation : Nat, held : Keys!HeldKey]
    BY DEF Keys!HeldKey
  <2>3. Len(input.queue) <= Capacity
    OBVIOUS
  <2>4. /\ hands \in SUBSET Keys!Matrix /\ fifo \in Seq(Keys!Report)
        /\ pressed \in SUBSET Keys!Matrix
        /\ taps \in 0 .. MaxTaps /\ left \in 0 .. MaxTaps /\ pass \in 0 .. Passes
        /\ repeats \in 0 .. MaxRepeats /\ switches \in 0 .. MaxSwitches
    OBVIOUS
  <2>5. /\ latch \in [latched : BOOLEAN, used : BOOLEAN] /\ binding \in [Key -> Keys!Layer]
        /\ todo \in Seq(Keys!Event) /\ down \in SUBSET (Keys!Codes \cup {Sym})
        /\ front \in Program \cup {None}
    OBVIOUS
  <2>6. /\ status \in BOOLEAN /\ armed \in BOOLEAN /\ flag \in BOOLEAN /\ owed \in BOOLEAN
        /\ present \in BOOLEAN /\ lit \in BOOLEAN
    OBVIOUS
  <2>7. edge = "none" /\ keysAt = "boot" /\ timer = "off"
    OBVIOUS
  <2> HIDE DEF Keys!Init
  <2> QED BY <2>1, <2>2, <2>3, <2>4, <2>5, <2>6, <2>7 DEF Keys!TypeOK
<1>2. ReportsLeft /\ TodoIsTrue /\ DownIsPressed /\ HeldIsDown
  BY DEF ReportsLeft, TodoIsTrue, DownIsPressed, HeldIsDown
<1>3. GenerationsGrow /\ Knowing
  BY DEF GenerationsGrow, Knowing
<1> QED BY <1>1, <1>2, <1>3 DEF KeysInv

LEMMA ReportedIsTyped ==
  ASSUME Keys!Constants, binding \in [Key -> Keys!Layer],
         NEW r, r.key \in Keys!Matrix, NEW layer \in Keys!Layer
  PROVE  Keys!Reported(r, layer) \in Seq(Keys!Event)
<1>1. ASSUME NEW t \in {"DOWN", "UP"}, NEW c \in Keys!Codes \cup {Sym}, NEW l \in Keys!Layer
      PROVE  Keys!Plain(t, c, l) \in Keys!Event
  BY DEF Keys!Plain, Keys!Event, Keys!KeyEvent
<1>2. Keys!Plain("TEXT", None, layer) \in Keys!Event
  BY DEF Keys!Plain, Keys!Event, Keys!TextEvent
<1>3. Keys!Plain("DOWN", Sym, "base") \in Keys!Event /\ Keys!Plain("UP", Sym, "base") \in Keys!Event
  BY <1>1 DEF Keys!Layer
<1>4. CASE r.key = Sym
  BY <1>3, <1>4 DEF Keys!Reported
<1>5. CASE r.key \in Key
  <2>1. Code[r.key] \in Keys!Codes /\ binding[r.key] \in Keys!Layer
    BY <1>5, CodesAreCodes
  <2>2. Keys!Plain("DOWN", Code[r.key], layer) \in Keys!Event
    BY <1>1, <2>1
  <2>3. Keys!Plain("UP", Code[r.key], binding[r.key]) \in Keys!Event
    BY <1>1, <2>1
  <2> QED BY <1>2, <1>3, <2>2, <2>3 DEF Keys!Reported
<1> QED BY <1>4, <1>5 DEF Keys!Matrix

LEMMA HeldIsTyped ==
  ASSUME Keys!Constants, Keys!TypeOK, NEW e,
         e.type \in {"DOWN", "UP"} => e.key \in Keys!Codes \cup {Sym},
         e.layer \in Keys!Layer
  PROVE  Keys!Held(e) \in Keys!HeldKey
<1>1. input.held \in Keys!HeldKey
  BY DEF Keys!TypeOK
<1>2. /\ input.held.key \in Keys!Codes \cup {None} /\ input.held.layer \in Keys!Layer
      /\ input.held.text \in BOOLEAN
  BY <1>1 DEF Keys!HeldKey
<1>3. CASE e.type = "DOWN" /\ e.key # Sym
  BY <1>3 DEF Keys!Held, Keys!HeldKey
<1>4. CASE e.type = "UP" /\ e.key = input.held.key
  <2>1. e.key # Sym /\ e.type # "DOWN" /\ e.type # "TEXT"
    BY <1>2, <1>4, CodesAreCodes
  <2>2. Keys!Held(e) = Keys!NoKey
    BY <1>4, <2>1 DEF Keys!Held
  <2> QED BY <2>2 DEF Keys!HeldKey, Keys!NoKey, Keys!Layer
<1>5. CASE /\ ~(e.type = "DOWN" /\ e.key # Sym) /\ ~(e.type = "UP" /\ e.key = input.held.key)
           /\ e.type = "TEXT" \/ e.key = Sym
  <2>1. Keys!Held(e) = [input.held EXCEPT !.text = input.held.key # None]
    BY <1>5 DEF Keys!Held
  <2> QED BY <1>1, <2>1 DEF Keys!HeldKey
<1>6. CASE /\ ~(e.type = "DOWN" /\ e.key # Sym) /\ ~(e.type = "UP" /\ e.key = input.held.key)
           /\ ~(e.type = "TEXT" \/ e.key = Sym)
  BY <1>1, <1>6 DEF Keys!Held
<1> QED BY <1>3, <1>4, <1>5, <1>6

LEMMA LearnsIsTyped ==
  ASSUME NEW known \in SUBSET Keys!Belief, NEW e \in Keys!Event
  PROVE  Keys!Learns(known, e) \in SUBSET Keys!Belief
<1>1. CASE e.type = "DOWN"
  <2>1. e.key \in Keys!Codes \cup {Sym} /\ e.layer \in Keys!Layer
    BY <1>1 DEF Keys!Event, Keys!KeyEvent, Keys!TextEvent
  <2>2. <<e.key, e.layer>> \in Keys!Belief
    BY <2>1 DEF Keys!Belief
  <2> QED BY <1>1, <2>2 DEF Keys!Learns
<1>2. CASE e.type # "DOWN"
  BY <1>2 DEF Keys!Learns
<1> QED BY <1>1, <1>2

LEMMA ResetIsTyped ==
  ASSUME Keys!TypeOK
  PROVE  Keys!Reset(input) \in [queue : Seq(Keys!Queued), generation : Nat, held : Keys!HeldKey]
  BY DEF Keys!TypeOK, Keys!Reset, Keys!NoKey, Keys!HeldKey, Keys!Layer

(* What input_update queues *)
KeyAgain == [type |-> "DOWN", key |-> input.held.key, layer |-> input.held.layer, repeat |-> TRUE]
TextAgain == [type |-> "TEXT", key |-> None, layer |-> input.held.layer, repeat |-> TRUE]

LEMMA RepeatIsTyped ==
  ASSUME Keys!Constants, Keys!TypeOK, Keys!input_update
  PROVE  /\ input' \in [queue : Seq(Keys!Queued), generation : Nat, held : Keys!HeldKey]
         /\ Len(input'.queue) <= Capacity
         /\ timer' \in {"off", "armed", "due"}
<1>1. input \in [queue : Seq(Keys!Queued), generation : Nat, held : Keys!HeldKey]
  /\ Len(input.queue) <= Capacity /\ timer \in {"off", "armed", "due"}
  BY DEF Keys!TypeOK
<1>2. CASE input.held.key = None
  BY <1>1, <1>2 DEF Keys!input_update
<1>3. CASE input.held.key # None
  <2>1. input.held.key \in Keys!Codes /\ input.held.layer \in Keys!Layer
    BY <1>1, <1>3 DEF Keys!HeldKey
  <2>2. KeyAgain \in Keys!Event /\ TextAgain \in Keys!Event
    BY <2>1 DEF KeyAgain, TextAgain, Keys!Event, Keys!KeyEvent, Keys!TextEvent
  <2>3. /\ Keys!Push(input, KeyAgain)
           \in [queue : Seq(Keys!Queued), generation : Nat, held : Keys!HeldKey]
        /\ Len(Keys!Push(input, KeyAgain).queue) <= Capacity
    BY <1>1, <2>2, PushedIsTyped
  <2>4. /\ Keys!Push(Keys!Push(input, KeyAgain), TextAgain)
             \in [queue : Seq(Keys!Queued), generation : Nat, held : Keys!HeldKey]
        /\ Len(Keys!Push(Keys!Push(input, KeyAgain), TextAgain).queue) <= Capacity
    BY <2>2, <2>3, PushedIsTyped
  <2>5. /\ input' \in {Keys!Push(input, KeyAgain), Keys!Push(Keys!Push(input, KeyAgain), TextAgain)}
        /\ timer' = "armed"
    BY <1>3 DEF Keys!input_update, KeyAgain, TextAgain
  <2> QED BY <2>3, <2>4, <2>5
<1> QED BY <1>2, <1>3

(* Every step keeps the types. *)
LEMMA KeysTypeNext ==
  ASSUME Keys!Constants, Keys!TypeOK, ReportsLeft, TodoIsTrue, HeldIsDown, [Keys!Next]_(Keys!vars)
  PROVE  Keys!TypeOK'
<1> USE DEF Keys!Constants, Keys!TypeOK, Keys!controller,
           Keys!interrupt, Keys!drain, Keys!matrix, Keys!service, Keys!readers
<1>0. /\ \A k \in Key : Code[k] \in Keys!Codes /\ Code[k] # Sym /\ Code[k] # None
      /\ \A c \in Keys!Codes : c # Sym /\ c # None
      /\ Sym \notin Key /\ Sym # None
  BY CodesAreCodes
<1>1. CASE Keys!Tap BY <1>1 DEF Keys!Tap, Keys!Matrix, Keys!Report
<1>2. CASE Keys!keyboard_interrupt BY <1>2 DEF Keys!keyboard_interrupt
<1>3. CASE Keys!InterruptNotify BY <1>3 DEF Keys!InterruptNotify
<1>4. CASE Keys!BootClear BY <1>4 DEF Keys!BootClear, Keys!Cleared
<1>5. CASE Keys!EnableInterrupt BY <1>5 DEF Keys!EnableInterrupt
<1>6. CASE Keys!CheckLine
  <2>1. flag' \in BOOLEAN /\ owed' \in BOOLEAN
    BY <1>6 DEF Keys!CheckLine
  <2> QED BY <1>6, <2>1 DEF Keys!CheckLine
<1>7. CASE Keys!BeginUpdate
  <2>1. keysAt' \in {"exchange", "power"} /\ owed' = FALSE
    BY <1>7 DEF Keys!BeginUpdate
  <2>2. UNCHANGED <<Keys!controller, edge, flag, present, pass, left,
                    Keys!matrix, Keys!service, repeats, Keys!readers,
                    lit>>
    BY <1>7 DEF Keys!BeginUpdate
  <2>3. owed' \in BOOLEAN /\ keysAt' \in {"exchange", "power"}
    BY <2>1
  <2> QED BY <2>2, <2>3
<1>8. CASE Keys!tab5_keyboard_poll
  <2>1. flag' \in BOOLEAN /\ keysAt' \in {"count", "power"} /\ pass' \in 0 .. Passes
    <3>1. CASE present /\ (flag \/ Keys!Line)
      <4>1. flag' = FALSE /\ keysAt' = "count" /\ pass' = 1
        BY <1>8, <3>1 DEF Keys!tab5_keyboard_poll
      <4>2. 1 \in 0 .. Passes
        OBVIOUS
      <4> HIDE DEF Keys!TypeOK, Keys!Constants
      <4> QED BY <4>1, <4>2
    <3>2. CASE ~(present /\ (flag \/ Keys!Line))
      BY <1>8, <3>2 DEF Keys!tab5_keyboard_poll
    <3> QED BY <3>1, <3>2
  <2> QED BY <1>8, <2>1 DEF Keys!tab5_keyboard_poll
<1>9. CASE Keys!ReadCount BY <1>9 DEF Keys!ReadCount, ReportsLeft
<1>10. CASE Keys!submit_matrix_event
  <2> DEFINE r == Head(fifo)
             layer == IF Keys!CookedSym THEN "sym" ELSE "base"
  <2>1. r \in Keys!Report /\ Tail(fifo) \in Seq(Keys!Report) /\ left - 1 \in 0 .. MaxTaps
    BY <1>10 DEF Keys!submit_matrix_event, ReportsLeft
  <2>2. r.key \in Keys!Matrix /\ r.down \in BOOLEAN /\ layer \in Keys!Layer
    BY <2>1 DEF Keys!Report, Keys!Layer
  <2>3. r.key # Sym => r.key \in Key
    BY <2>2 DEF Keys!Matrix
  <2>4. /\ pressed' = (IF r.down THEN pressed \cup {r.key} ELSE pressed \ {r.key})
        /\ latch' = Keys!Latched(r) /\ todo' = Keys!Reported(r, layer)
        /\ binding' = (IF r.key # Sym /\ r.down /\ r.key \notin pressed
                         THEN [binding EXCEPT ![r.key] = layer] ELSE binding)
        /\ fifo' = Tail(fifo) /\ left' = left - 1 /\ keysAt' = "submit"
    BY <1>10 DEF Keys!submit_matrix_event
  <2> HIDE DEF r, layer
  <2>5. pressed' \in SUBSET Keys!Matrix
    BY <2>2, <2>4
  <2>6. latch' \in [latched : BOOLEAN, used : BOOLEAN]
    <3>1. latch.latched \in BOOLEAN /\ latch.used \in BOOLEAN
      OBVIOUS
    <3>2. CASE r.down = (r.key \in pressed)
      BY <2>4, <3>2 DEF Keys!Latched
    <3>3. CASE r.down # (r.key \in pressed) /\ r.key = Sym /\ r.down
      BY <2>4, <3>3 DEF Keys!Latched
    <3>4. CASE r.down # (r.key \in pressed) /\ r.key = Sym /\ ~r.down
      BY <2>4, <3>4 DEF Keys!Latched
    <3>5. CASE r.down # (r.key \in pressed) /\ r.key # Sym /\ r.down
      BY <2>4, <3>5 DEF Keys!Latched
    <3>6. CASE r.down # (r.key \in pressed) /\ r.key # Sym /\ ~r.down
      BY <2>4, <3>6 DEF Keys!Latched
    <3> QED BY <3>2, <3>3, <3>4, <3>5, <3>6
  <2>7. binding' \in [Key -> Keys!Layer]
    BY <2>2, <2>3, <2>4
  <2>8. todo' \in Seq(Keys!Event)
    BY <1>0, <2>2, <2>3, <2>4, ReportedIsTyped
  <2> QED BY <1>10, <2>1, <2>4, <2>5, <2>6, <2>7, <2>8 DEF Keys!submit_matrix_event
<1>11. CASE Keys!input_submit
  <2> DEFINE e == Head(todo)
  <2>1. e \in Keys!Event /\ Tail(todo) \in Seq(Keys!Event)
    BY <1>11 DEF Keys!input_submit
  <2>2. /\ input' = [Keys!Push(input, e) EXCEPT !.held = Keys!Held(e)]
        /\ down' = CASE e.type = "DOWN" -> down \cup {e.key}
                     [] e.type = "UP" -> down \ {e.key}
                     [] OTHER -> down
        /\ timer' \in {"armed", "off", timer}
        /\ todo' = Tail(todo) /\ owed' = TRUE
    BY <1>11 DEF Keys!input_submit
  <2> HIDE DEF e
  <2>3. e.type \in {"DOWN", "UP"} => e.key \in Keys!Codes \cup {Sym}
    BY <2>1 DEF Keys!Event, Keys!KeyEvent, Keys!TextEvent
  <2>4. e.layer \in Keys!Layer
    BY <2>1 DEF Keys!Event, Keys!KeyEvent, Keys!TextEvent
  <2>5. Keys!Held(e) \in Keys!HeldKey
    BY <2>3, <2>4, HeldIsTyped
  <2>6. /\ input' \in [queue : Seq(Keys!Queued), generation : Nat, held : Keys!HeldKey]
        /\ Len(input'.queue) <= Capacity
    <3>1. /\ Keys!Push(input, e)
             \in [queue : Seq(Keys!Queued), generation : Nat, held : Keys!HeldKey]
          /\ Len(Keys!Push(input, e).queue) <= Capacity
      BY <2>1, PushedIsTyped
    <3> QED BY <2>2, <2>5, <3>1
  <2>7. down' \in SUBSET (Keys!Codes \cup {Sym})
    BY <2>2, <2>3
  <2>8. timer' \in {"off", "armed", "due"}
    BY <2>2
  <2> QED BY <1>11, <2>1, <2>2, <2>6, <2>7, <2>8 DEF Keys!input_submit
<1>12. CASE Keys!NextReport BY <1>12 DEF Keys!NextReport
<1>13. CASE Keys!ClearStatus BY <1>13 DEF Keys!ClearStatus, Keys!Cleared
<1>14. CASE Keys!Recheck BY <1>14 DEF Keys!Recheck
<1>15. CASE Keys!AfterDrain
  <2>1. flag' \in BOOLEAN /\ owed' \in BOOLEAN
    BY <1>15 DEF Keys!AfterDrain
  <2> QED BY <1>15, <2>1 DEF Keys!AfterDrain
<1>16. CASE Keys!TellPower BY <1>16 DEF Keys!TellPower
<1>17. CASE Keys!input_update
  <2>1. /\ input' \in [queue : Seq(Keys!Queued), generation : Nat, held : Keys!HeldKey]
        /\ Len(input'.queue) <= Capacity
        /\ timer' \in {"off", "armed", "due"}
    BY <1>17, RepeatIsTyped
  <2> QED BY <1>17, <2>1 DEF Keys!input_update
<1>18. CASE Keys!DrainFails
  <2>1. Keys!Reset(input) \in [queue : Seq(Keys!Queued), generation : Nat, held : Keys!HeldKey]
    BY ResetIsTyped
  <2>2. Len(input'.queue) <= Capacity
    BY <1>18 DEF Keys!DrainFails, Keys!Reset
  <2>3. pass' \in 0 .. Passes /\ left' \in 0 .. MaxTaps
    BY <1>18 DEF Keys!DrainFails
  <2> QED BY <1>18, <2>1, <2>2, <2>3 DEF Keys!DrainFails
<1>19. CASE Keys!TimerFires BY <1>19 DEF Keys!TimerFires
<1>20. CASE Keys!tabos_console_release
  <2>1. input'.queue = <<>>
    BY <1>20 DEF Keys!tabos_console_release, Keys!Reset
  <2> QED BY <1>20, <2>1, ResetIsTyped DEF Keys!tabos_console_release
<1>21. ASSUME NEW o \in Program, Keys!tabos_console_acquire(o) PROVE Keys!TypeOK'
  <2>1. input'.queue = <<>>
    BY <1>21 DEF Keys!tabos_console_acquire, Keys!Reset
  <2> QED BY <1>21, <2>1, ResetIsTyped DEF Keys!tabos_console_acquire
<1>22. ASSUME NEW o \in Program, Keys!tabos_input_poll(o) PROVE Keys!TypeOK'
  <2> DEFINE q == Head(input.queue)
             known == view[o].down
  <2>1. q \in Keys!Queued /\ Tail(input.queue) \in Seq(Keys!Queued)
        /\ Len(Tail(input.queue)) <= Capacity
    BY <1>22 DEF Keys!tabos_input_poll
  <2>2. known \in SUBSET Keys!Belief
    OBVIOUS
  <2>3. Keys!Learns(known, q.event) \in SUBSET Keys!Belief
    <3>1. q.event \in Keys!Event
      BY <2>1 DEF Keys!Queued
    <3> HIDE DEF q, known
    <3> QED BY <2>2, <3>1, LearnsIsTyped
  <2>4. view' \in [Program -> [down : SUBSET Keys!Belief, generation : Nat]]
    <3>1. view' = view \/ view' = [view EXCEPT ![o].down = Keys!Learns(known, q.event)]
      BY <1>22 DEF Keys!tabos_input_poll
    <3> HIDE DEF q, known
    <3>2. [view[o] EXCEPT !.down = Keys!Learns(known, q.event)]
            \in [down : SUBSET Keys!Belief, generation : Nat]
      <4>1. view[o] \in [down : SUBSET Keys!Belief, generation : Nat]
        OBVIOUS
      <4> HIDE DEF Keys!TypeOK
      <4> QED BY <2>3, <4>1
    <3>3. [view EXCEPT ![o].down = Keys!Learns(known, q.event)]
            = [view EXCEPT ![o] = [view[o] EXCEPT !.down = Keys!Learns(known, q.event)]]
      OBVIOUS
    <3> QED BY <3>1, <3>2, <3>3
  <2>5. /\ input' \in [queue : Seq(Keys!Queued), generation : Nat, held : Keys!HeldKey]
        /\ Len(input'.queue) <= Capacity
    BY <1>22, <2>1 DEF Keys!tabos_input_poll
  <2>6. UNCHANGED <<Keys!controller, Keys!interrupt, present,
                    Keys!drain, Keys!matrix, down, timer, repeats, front,
                    switches, lit>>
    BY <1>22 DEF Keys!tabos_input_poll
  <2> QED BY <2>4, <2>5, <2>6
<1>23. ASSUME NEW o \in Program, Keys!input_get_state(o) PROVE Keys!TypeOK'
  <2>1. down \X {None} \in SUBSET Keys!Belief
    BY DEF Keys!Belief
  <2>2. input.generation + 1 \in Nat
    OBVIOUS
  <2>3. [down |-> down \X {None}, generation |-> input.generation + 1]
          \in [down : SUBSET Keys!Belief, generation : Nat]
    BY <2>1, <2>2
  <2>4. view' \in [Program -> [down : SUBSET Keys!Belief, generation : Nat]]
    BY <1>23, <2>3 DEF Keys!input_get_state
  <2>5. /\ input' \in [queue : Seq(Keys!Queued), generation : Nat, held : Keys!HeldKey]
        /\ Len(input'.queue) <= Capacity
    <3>1. input' = [input EXCEPT !.queue = <<>>, !.generation = input.generation + 1]
      BY <1>23 DEF Keys!input_get_state
    <3>2. input \in [queue : Seq(Keys!Queued), generation : Nat, held : Keys!HeldKey]
          /\ Capacity \in Nat
      OBVIOUS
    <3> HIDE DEF Keys!TypeOK, Keys!Constants
    <3>3. input' = [queue |-> <<>>, generation |-> input.generation + 1, held |-> input.held]
      BY <3>1, <3>2
    <3>4. <<>> \in Seq(Keys!Queued) /\ Len(<<>>) = 0 /\ input.held \in Keys!HeldKey
      BY <3>2
    <3>5. input'.queue = <<>>
      BY <3>3
    <3> QED BY <2>2, <3>2, <3>3, <3>4, <3>5
  <2>6. UNCHANGED <<hands, taps, fifo, status, armed, edge, flag, owed, present, keysAt, pass, left,
                    pressed, latch, binding, todo, down, timer, repeats, front, switches, lit>>
    <3> HIDE DEF Keys!TypeOK, Keys!Constants
    <3> QED BY <1>23 DEF Keys!input_get_state
  <2> HIDE DEF Keys!Constants
  <2> QED BY <2>4, <2>5, <2>6
<1>24. CASE UNCHANGED Keys!vars BY <1>24 DEF Keys!vars
<1> QED
  BY <1>1, <1>2, <1>3, <1>4, <1>5, <1>6, <1>7, <1>8, <1>9, <1>10, <1>11, <1>12, <1>13, <1>14,
     <1>15, <1>16, <1>17, <1>18, <1>19, <1>20, <1>21, <1>22, <1>23, <1>24
  DEF Keys!Next, Keys!Boot, Keys!Update, Keys!Handler

-----------------------------------------------------------------------------
(* What is true stays true as more keys count, as a code goes down, and as one
   comes up. *)
LEMMA KnowsMore ==
  ASSUME NEW K, NEW D, NEW H, NEW B, NEW H2, NEW B2, Knows(K, D, H, B),
         \A k \in H : k \in H2 /\ B2[k] = B[k]
  PROVE  Knows(K, D, H2, B2)
<1>1. ASSUME NEW b \in K, b[1] # Sym
      PROVE  \E k \in H2 : Code[k] = b[1] /\ b[2] \in {None, B2[k]}
  <2>1. PICK k \in H : Code[k] = b[1] /\ b[2] \in {None, B[k]}
    BY <1>1 DEF Knows
  <2> QED BY <2>1
<1> QED BY <1>1 DEF Knows

LEMMA KnowsDown ==
  ASSUME NEW K, NEW D, NEW H, NEW B, NEW e \in Keys!Event, Knows(K, D, H, B),
         e.type = "DOWN", e.key = Sym => e.layer = "base",
         e.key # Sym => \E k \in H : Code[k] = e.key /\ e.layer \in {None, B[k]}
  PROVE  Knows(Keys!Learns(K, e), D \cup {e.key}, H, B)
<1> DEFINE new == <<e.key, e.layer>>
           L == (K \ {<<e.key, None>>}) \cup {new}
<1>1. Keys!Learns(K, e) = L
  BY DEF Keys!Learns
<1>2. L \in SUBSET Keys!Belief
  BY <1>1, LearnsIsTyped DEF Knows
<1>3. new[1] = e.key /\ new[2] = e.layer /\ new \in L
  OBVIOUS
<1> HIDE DEF new
<1>4. D \cup {e.key} \subseteq {b[1] : b \in L}
  <2>1. SUFFICES ASSUME NEW d \in D PROVE \E b \in L : b[1] = d
    BY <1>3
  <2>2. PICK b \in K : b[1] = d
    BY DEF Knows
  <2>3. CASE b = <<e.key, None>>
    BY <1>3, <2>2, <2>3
  <2>4. CASE b # <<e.key, None>>
    BY <2>2, <2>4
  <2> QED BY <2>3, <2>4
<1>5. ASSUME NEW b \in L
      PROVE  /\ b[1] \in (D \cup {e.key}) \cup Keys!SharedCodes
             /\ b[1] = Sym => b[2] \in {None, "base"}
             /\ b[1] # Sym => \E k \in H : Code[k] = b[1] /\ b[2] \in {None, B[k]}
  <2>1. CASE b = new
    BY <1>3, <2>1
  <2>2. CASE b \in K
    BY <2>2 DEF Knows
  <2> QED BY <2>1, <2>2
<1> HIDE DEF L
<1> QED BY <1>1, <1>2, <1>4, <1>5 DEF Knows

LEMMA KnowsUp ==
  ASSUME NEW K, NEW D, NEW H \in SUBSET Key, NEW B, NEW G, NEW e \in Keys!Event, Knows(K, D, H, B),
         e.type = "UP", e.key = Sym => e.layer = "base",
         e.key # Sym => \E k \in Key : Code[k] = e.key /\ B[k] = e.layer,
         \A k \in H : k \in G \/ (Code[k] = e.key /\ B[k] = e.layer)
  PROVE  Knows(Keys!Learns(K, e), D \ {e.key}, G, B)
<1> DEFINE L == K \ {<<e.key, e.layer>>, <<e.key, None>>}
<1>1. Keys!Learns(K, e) = L
  BY DEF Keys!Learns
<1>2. L \in SUBSET Keys!Belief /\ K \in SUBSET Keys!Belief
  BY <1>1, LearnsIsTyped DEF Knows
<1>3. D \ {e.key} \subseteq {b[1] : b \in L}
  <2>1. SUFFICES ASSUME NEW d \in D, d # e.key PROVE \E b \in L : b[1] = d
    OBVIOUS
  <2>2. PICK b \in K : b[1] = d
    BY DEF Knows
  <2> QED BY <2>1, <2>2
<1>4. ASSUME NEW b \in L
      PROVE  /\ b[1] \in (D \ {e.key}) \cup Keys!SharedCodes
             /\ b[1] = Sym => b[2] \in {None, "base"}
             /\ b[1] # Sym => \E k \in G : Code[k] = b[1] /\ b[2] \in {None, B[k]}
  <2>1. /\ b[1] \in D \cup Keys!SharedCodes
        /\ b[1] = Sym => b[2] \in {None, "base"}
        /\ b[1] # Sym => \E k \in H : Code[k] = b[1] /\ b[2] \in {None, B[k]}
    BY DEF Knows
  <2>2. b = <<b[1], b[2]>>
    BY <1>2 DEF Keys!Belief
  <2>3. b[1] = e.key => b[2] # e.layer /\ b[2] # None
    BY <2>2
  <2>4. b[1] = e.key => b[1] # Sym
    BY <2>1, <2>3
  <2>5. b[1] # Sym => \E k \in G : Code[k] = b[1] /\ b[2] \in {None, B[k]}
    <3>1. SUFFICES ASSUME b[1] # Sym PROVE \E k \in G : Code[k] = b[1] /\ b[2] \in {None, B[k]}
      OBVIOUS
    <3>2. PICK k \in H : Code[k] = b[1] /\ b[2] \in {None, B[k]}
      BY <2>1, <3>1
    <3>3. ~(Code[k] = e.key /\ B[k] = e.layer)
      BY <2>3, <3>2
    <3> QED BY <3>2, <3>3
  <2>6. b[1] = e.key => b[1] \in Keys!SharedCodes
    <3>1. SUFFICES ASSUME b[1] = e.key PROVE b[1] \in Keys!SharedCodes
      OBVIOUS
    <3>2. PICK k \in H : Code[k] = b[1] /\ b[2] \in {None, B[k]}
      BY <2>1, <2>4, <3>1
    <3>3. PICK j \in Key : Code[j] = e.key /\ B[j] = e.layer
      BY <2>4, <3>1
    <3>4. j # k
      BY <2>3, <3>1, <3>2, <3>3
    <3> QED BY <3>1, <3>2, <3>3, <3>4 DEF Keys!SharedCodes
  <2> QED BY <2>1, <2>5, <2>6
<1> HIDE DEF L
<1> QED BY <1>1, <1>2, <1>3, <1>4 DEF Knows

(* An event that is queued without a new generation is learned last. *)
LEMMA PushedIsLearned ==
  ASSUME Keys!Constants, NEW i, NEW e \in Keys!Event, NEW known,
         i \in [queue : Seq(Keys!Queued), generation : Nat, held : Keys!HeldKey],
         Len(i.queue) <= Capacity,
         Keys!Push(i, e).generation = i.generation,
         \A n \in DOMAIN i.queue : i.queue[n].generation = i.generation
  PROVE  /\ Keys!KnownAfter(known, Keys!Push(i, e).queue)
             = Keys!Learns(Keys!KnownAfter(known, i.queue), e)
         /\ \A n \in DOMAIN Keys!Push(i, e).queue
               : Keys!Push(i, e).queue[n].generation = i.generation
<1> DEFINE entry == [event |-> e, generation |-> i.generation]
<1>1. Keys!Push(i, e).queue = Append(i.queue, entry)
  BY PushedIsTyped
<1>2. entry \in Keys!Queued /\ i.queue \in Seq(Keys!Queued) /\ entry.event = e
      /\ entry.generation = i.generation
  BY DEF Keys!Queued
<1> HIDE DEF entry
<1>3. Keys!KnownAfter(known, Append(i.queue, entry))
      = Keys!Learns(Keys!KnownAfter(known, i.queue), e)
  BY <1>2, KnownAfterAppend
<1>4. \A n \in DOMAIN Append(i.queue, entry) : Append(i.queue, entry)[n].generation = i.generation
  <2>1. DOMAIN i.queue = 1 .. Len(i.queue)
    BY <1>2
  <2>2. SUFFICES ASSUME NEW n \in 1 .. Len(i.queue) + 1
                 PROVE  Append(i.queue, entry)[n].generation = i.generation
    BY <1>2
  <2>3. CASE n = Len(i.queue) + 1
    BY <1>2, <2>3, AppendProperties
  <2>4. CASE n \in 1 .. Len(i.queue)
    BY <1>2, <2>1, <2>4, AppendProperties
  <2> QED BY <2>3, <2>4
<1> QED BY <1>1, <1>3, <1>4

-----------------------------------------------------------------------------
(* The reports that were counted are there. *)
LEMMA KeysReportsNext ==
  ASSUME Keys!Constants, Keys!TypeOK, ReportsLeft, [Keys!Next]_(Keys!vars)
  PROVE  ReportsLeft'
<1> USE DEF ReportsLeft
<1>1. fifo \in Seq(Keys!Report) /\ taps \in Nat /\ left \in Nat
  BY DEF Keys!TypeOK, Keys!Constants
<1>2. CASE Keys!Tap
  <2>1. PICK r : fifo' = Append(fifo, r)
    BY <1>2 DEF Keys!Tap
  <2> QED BY <1>1, <1>2, <2>1 DEF Keys!Tap, Keys!drain
<1>3. CASE Keys!ReadCount
  <2>1. Len(fifo) \in Nat /\ MaxEvents \in Nat
    BY <1>1, LenProperties DEF Keys!Constants
  <2>2. left' <= Len(fifo) /\ UNCHANGED <<fifo, taps>>
    BY <1>3, <2>1 DEF Keys!ReadCount, Keys!controller
  <2> QED BY <2>1, <2>2
<1>4. CASE Keys!submit_matrix_event
  BY <1>1, <1>4 DEF Keys!submit_matrix_event
<1>5. CASE Keys!DrainFails
  BY <1>1, <1>5 DEF Keys!DrainFails, Keys!controller
<1>6. CASE UNCHANGED <<fifo, taps, left>>
  BY <1>6
<1> QED
  BY <1>2, <1>3, <1>4, <1>5, <1>6
  DEF Keys!Next, Keys!Boot, Keys!Update, Keys!Handler, Keys!keyboard_interrupt,
      Keys!InterruptNotify, Keys!BootClear, Keys!EnableInterrupt, Keys!CheckLine,
      Keys!BeginUpdate, Keys!tab5_keyboard_poll, Keys!input_submit, Keys!NextReport,
      Keys!ClearStatus, Keys!Recheck, Keys!AfterDrain, Keys!TellPower, Keys!input_update,
      Keys!TimerFires, Keys!tabos_console_release, Keys!tabos_console_acquire,
      Keys!tabos_input_poll, Keys!input_get_state, Keys!vars, Keys!controller, Keys!drain

(* The translator reads a report only where one is left. *)
LEMMA ReportedIsThere ==
  ASSUME Keys!TypeOK, ReportsLeft, Keys!submit_matrix_event
  PROVE  Head(fifo) \in Keys!Report
<1>1. fifo \in Seq(Keys!Report) /\ left > 0 /\ left <= Len(fifo) /\ left \in Int
  BY DEF Keys!submit_matrix_event, Keys!TypeOK, ReportsLeft
<1> QED BY <1>1

(* What the translator leaves to submit is what it has recorded. *)
LEMMA TodoNext ==
  ASSUME Keys!Constants, Keys!TypeOK, ReportsLeft, TodoIsTrue, [Keys!Next]_(Keys!vars)
  PROVE  TodoIsTrue'
<1>1. CASE Keys!submit_matrix_event
  <2> DEFINE r == Head(fifo)
             layer == IF Keys!CookedSym THEN "sym" ELSE "base"
  <2>1. r \in Keys!Report /\ r.key \in Keys!Matrix /\ r.down \in BOOLEAN /\ layer \in Keys!Layer
    BY <1>1, ReportedIsThere DEF Keys!Report, Keys!Layer
  <2>2. /\ pressed' = (IF r.down THEN pressed \cup {r.key} ELSE pressed \ {r.key})
        /\ todo' = Keys!Reported(r, layer) /\ keysAt' = "submit"
        /\ binding' = (IF r.key # Sym /\ r.down /\ r.key \notin pressed
                         THEN [binding EXCEPT ![r.key] = layer] ELSE binding)
    BY <1>1 DEF Keys!submit_matrix_event
  <2>3. binding \in [Key -> Keys!Layer]
    BY DEF Keys!TypeOK
  <2> HIDE DEF r, layer
  <2>4. CASE r.down = (r.key \in pressed)
    BY <2>2, <2>4 DEF Keys!Reported, TodoIsTrue
  <2>5. CASE r.down # (r.key \in pressed) /\ r.key = Sym
    BY <2>2, <2>5 DEF Keys!Reported, TodoIsTrue, Keys!Plain
  <2>6. CASE r.down # (r.key \in pressed) /\ r.key # Sym /\ r.down
    <3>1. r.key \in Key /\ binding'[r.key] = layer /\ r.key \in pressed'
      BY <2>1, <2>2, <2>3, <2>6 DEF Keys!Matrix
    <3>2. todo' = <<Keys!Plain("DOWN", Code[r.key], layer), Keys!Plain("TEXT", None, layer)>>
      BY <2>2, <2>6 DEF Keys!Reported
    <3>3. Code[r.key] # Sym
      BY <3>1, CodesAreCodes
    <3> QED BY <2>2, <3>1, <3>2, <3>3 DEF TodoIsTrue, Keys!Plain
  <2>7. CASE r.down # (r.key \in pressed) /\ r.key # Sym /\ ~r.down
    <3>1. r.key \in Key /\ binding' = binding
      BY <2>1, <2>2, <2>7 DEF Keys!Matrix
    <3>2. todo' = <<Keys!Plain("UP", Code[r.key], binding[r.key])>>
      BY <2>2, <2>7 DEF Keys!Reported
    <3>3. Code[r.key] # Sym
      BY <3>1, CodesAreCodes
    <3> QED BY <2>2, <3>1, <3>2, <3>3 DEF TodoIsTrue, Keys!Plain
  <2> QED BY <2>1, <2>4, <2>5, <2>6, <2>7
<1>2. CASE Keys!input_submit
  <2>1. todo \in Seq(Keys!Event) /\ todo # <<>> /\ todo' = Tail(todo)
        /\ UNCHANGED <<keysAt, pressed, binding>>
    BY <1>2 DEF Keys!TypeOK, Keys!input_submit, Keys!drain
  <2>2. Len(todo') = Len(todo) - 1
       /\ \A i \in DOMAIN todo' : i + 1 \in DOMAIN todo /\ todo'[i] = todo[i + 1]
    BY <2>1
  <2>3. ASSUME NEW i \in DOMAIN todo' PROVE todo'[i].type # "UP"
    BY <2>1, <2>2, <2>3 DEF TodoIsTrue
  <2>4. ASSUME NEW i \in DOMAIN todo', todo'[i].type # "TEXT"
        PROVE  /\ todo'[i].key = Sym => todo'[i].layer = "base"
               /\ todo'[i].key # Sym =>
                    \E k \in Key : /\ Code[k] = todo'[i].key /\ binding'[k] = todo'[i].layer
                                   /\ todo'[i].type = "DOWN" => k \in pressed'
    BY <2>1, <2>2, <2>4 DEF TodoIsTrue
  <2> QED BY <2>1, <2>3, <2>4 DEF TodoIsTrue
<1>3. CASE /\ UNCHANGED <<todo, pressed, binding>>
           /\ keysAt' = keysAt \/ todo = <<>>
  BY <1>3 DEF TodoIsTrue
<1>4. keysAt # "submit" => todo = <<>>
  BY DEF TodoIsTrue
<1> QED
  BY <1>1, <1>2, <1>3, <1>4
  DEF Keys!Next, Keys!Boot, Keys!Update, Keys!Handler, Keys!Tap, Keys!keyboard_interrupt,
      Keys!InterruptNotify, Keys!BootClear, Keys!EnableInterrupt, Keys!CheckLine,
      Keys!BeginUpdate, Keys!tab5_keyboard_poll, Keys!ReadCount, Keys!NextReport,
      Keys!ClearStatus, Keys!Recheck, Keys!AfterDrain, Keys!DrainFails, Keys!TellPower,
      Keys!input_update, Keys!TimerFires, Keys!tabos_console_release, Keys!tabos_console_acquire,
      Keys!tabos_input_poll, Keys!input_get_state, Keys!vars, Keys!matrix, Keys!drain

-----------------------------------------------------------------------------
(* The rest of the invariant, for a step of each kind *)
Truth == DownIsPressed /\ HeldIsDown /\ GenerationsGrow /\ Knowing

(* A step that changes only what is pressed, and takes no key from those that
   count *)
LEMMA MatrixKeepsTruth ==
  ASSUME Truth, UNCHANGED <<down, input, view, front>>,
         \A k \in Holding : k \in Holding' /\ binding'[k] = binding[k]
  PROVE  Truth'
<1>1. DownIsPressed'
  BY DEF Truth, DownIsPressed
<1>2. HeldIsDown'
  BY DEF Truth, HeldIsDown
<1>3. GenerationsGrow'
  BY DEF Truth, GenerationsGrow
<1>4. Knowing'
  <2>1. ASSUME NEW o \in Program, view[o].generation = input.generation
        PROVE  /\ Knows(Keys!Learned(o), down, Holding', binding')
               /\ \A i \in DOMAIN input.queue : input.queue[i].generation = input.generation
    BY <2>1, KnowsMore DEF Truth, Knowing
  <2>2. \A o \in Program : Keys!Learned(o)' = Keys!Learned(o)
    BY DEF Keys!Learned
  <2> QED BY <2>1, <2>2 DEF Knowing
<1> QED BY <1>1, <1>2, <1>3, <1>4 DEF Truth

LEMMA ReportKeepsTruth ==
  ASSUME Keys!Constants, Keys!TypeOK, ReportsLeft, TodoIsTrue, Truth, Keys!submit_matrix_event
  PROVE  Truth'
<1> DEFINE r == Head(fifo)
           layer == IF Keys!CookedSym THEN "sym" ELSE "base"
<1>1. r \in Keys!Report /\ r.key \in Keys!Matrix /\ r.down \in BOOLEAN
  BY ReportedIsThere DEF Keys!Report
<1>2. /\ pressed' = (IF r.down THEN pressed \cup {r.key} ELSE pressed \ {r.key})
      /\ todo' = Keys!Reported(r, layer)
      /\ binding' = (IF r.key # Sym /\ r.down /\ r.key \notin pressed
                       THEN [binding EXCEPT ![r.key] = layer] ELSE binding)
      /\ UNCHANGED <<down, input, view, front>>
  BY DEF Keys!submit_matrix_event, Keys!service, Keys!readers
<1>3. binding \in [Key -> Keys!Layer]
  BY DEF Keys!TypeOK
<1>4. Holding = pressed \cap Key
  BY DEF Holding, Releasing, TodoIsTrue, Keys!submit_matrix_event
<1> HIDE DEF r, layer
<1>5. ASSUME NEW k \in Holding PROVE k \in Holding' /\ binding'[k] = binding[k]
  <2>1. k \in pressed /\ k \in Key /\ k # Sym
    BY <1>4, CodesAreCodes
  <2>2. binding'[k] = binding[k]
    BY <1>2, <1>3, <2>1
  <2>3. CASE k \in pressed'
    BY <2>1, <2>2, <2>3 DEF Holding
  <2>4. CASE k \notin pressed'
    <3>1. r.key = k /\ ~r.down
      BY <1>2, <2>1, <2>4
    <3>2. todo' = <<Keys!Plain("UP", Code[k], binding[k])>>
      BY <1>2, <2>1, <3>1 DEF Keys!Reported
    <3>3. k \in Releasing'
      BY <2>1, <2>2, <3>2 DEF Releasing, Keys!Plain
    <3> QED BY <2>2, <3>3 DEF Holding
  <2> QED BY <2>2, <2>3, <2>4
<1> QED BY <1>2, <1>5, MatrixKeepsTruth

(* A step that begins a generation no program has seen *)
LEMMA ResetKeepsTruth ==
  ASSUME Keys!TypeOK, Truth, input' = Keys!Reset(input), UNCHANGED <<pressed, todo, binding, view>>,
         down' \in {down, {}}
  PROVE  Truth'
<1>1. Holding' = Holding
  BY DEF Holding, Releasing
<1>2. DownIsPressed'
  BY <1>1 DEF Truth, DownIsPressed
<1>3. HeldIsDown'
  BY DEF HeldIsDown, Keys!Reset, Keys!NoKey
<1>4. ASSUME NEW o \in Program
      PROVE  view'[o].generation <= input'.generation /\ view'[o].generation # input'.generation
  <2>1. view[o].generation \in Nat /\ input.generation \in Nat
    BY DEF Keys!TypeOK
  <2>2. view[o].generation <= input.generation
    BY DEF Truth, GenerationsGrow
  <2>3. input'.generation = input.generation + 1
    BY DEF Keys!Reset
  <2> QED BY <2>1, <2>2, <2>3
<1>5. GenerationsGrow' /\ Knowing'
  BY <1>4 DEF GenerationsGrow, Knowing
<1> QED BY <1>2, <1>3, <1>5 DEF Truth

(* The service without its bounds *)
InputType == [queue : Seq(Keys!Queued), generation : Nat, held : Keys!HeldKey]

(* What is read from the queue is what was known, through one more event. *)
LEMMA PushKeepsKnowing ==
  ASSUME Keys!Constants, Keys!TypeOK, GenerationsGrow, Knowing,
         NEW i \in InputType, NEW e \in Keys!Event,
         Len(i.queue) <= Capacity, i.generation >= input.generation,
         NEW K, NEW o \in Program, view[o].generation = Keys!Push(i, e).generation,
         i.generation = input.generation =>
           \A n \in DOMAIN i.queue : i.queue[n].generation = i.generation
  PROVE  /\ i.generation = input.generation
         /\ view[o].generation = input.generation
         /\ Keys!KnownAfter(K, Keys!Push(i, e).queue) = Keys!Learns(Keys!KnownAfter(K, i.queue), e)
         /\ \A n \in DOMAIN Keys!Push(i, e).queue :
              Keys!Push(i, e).queue[n].generation = Keys!Push(i, e).generation
<1>1. Keys!Push(i, e).generation \in Nat /\ Keys!Push(i, e).generation >= i.generation
  BY PushedIsTyped DEF InputType
<1>2. view[o].generation <= input.generation /\ view[o].generation \in Nat
      /\ input.generation \in Nat /\ i.generation \in Nat
  BY DEF GenerationsGrow, Keys!TypeOK, InputType
<1>3. Keys!Push(i, e).generation = i.generation /\ i.generation = input.generation
  BY <1>1, <1>2
<1>4. \A n \in DOMAIN i.queue : i.queue[n].generation = i.generation
  BY <1>3
<1> QED BY <1>3, <1>4, PushedIsLearned DEF InputType

(* The translator submits an event: input_submit, with the repeat it starts or
   stops. *)
LEMMA SubmitKeepsTruth ==
  ASSUME Keys!Constants, Keys!TypeOK, TodoIsTrue, Truth, Keys!input_submit
  PROVE  Truth'
<1> DEFINE e == Head(todo)
<1>1. /\ todo \in Seq(Keys!Event) /\ todo # <<>> /\ e \in Keys!Event /\ e = todo[1]
      /\ 1 \in DOMAIN todo
      /\ todo' = Tail(todo)
  BY DEF Keys!input_submit, Keys!TypeOK
<1>2. /\ down' = CASE e.type = "DOWN" -> down \cup {e.key}
                   [] e.type = "UP" -> down \ {e.key}
                   [] OTHER -> down
      /\ input' = [Keys!Push(input, e) EXCEPT !.held = Keys!Held(e)]
      /\ UNCHANGED <<pressed, binding, view, front>>
  BY DEF Keys!input_submit, Keys!readers
<1>3. /\ e.type # "TEXT" => /\ e.key = Sym => e.layer = "base"
                            /\ e.key # Sym =>
                                 \E k \in Key : /\ Code[k] = e.key /\ binding[k] = e.layer
                                                /\ e.type = "DOWN" => k \in pressed
      /\ e.type = "UP" => Len(todo) = 1
  BY <1>1 DEF TodoIsTrue
<1>4. \A i \in DOMAIN todo' : todo'[i].type # "UP"
  <2>1. SUFFICES ASSUME NEW i \in DOMAIN todo', todo'[i].type = "UP" PROVE FALSE
    OBVIOUS
  <2>2. i + 1 \in DOMAIN todo /\ todo'[i] = todo[i + 1] /\ i \in Nat /\ i >= 1
    BY <1>1, <2>1
  <2>3. Len(todo) = 1
    BY <2>1, <2>2 DEF TodoIsTrue
  <2> QED BY <1>1, <2>2, <2>3
<1>5. Holding' = pressed \cap Key
  <2>1. Releasing' = {}
    <3>1. SUFFICES ASSUME todo' # <<>> PROVE todo'[1].type # "UP"
      BY DEF Releasing
    <3>2. 1 \in DOMAIN todo'
      BY <1>1, <3>1
    <3> QED BY <1>4, <3>2
  <2> QED BY <1>2, <2>1 DEF Holding
<1>6. Holding \subseteq Key /\ (e.type # "UP" => Holding = pressed \cap Key)
  BY <1>1 DEF Holding, Releasing
<1>7. \A k \in Holding : k \in pressed \/ (Code[k] = e.key /\ binding[k] = e.layer)
  BY <1>1 DEF Holding, Releasing
<1>8. e.type \in {"DOWN", "UP", "TEXT"}
  BY <1>1 DEF Keys!Event, Keys!KeyEvent, Keys!TextEvent
<1> HIDE DEF e
<1>9. DownIsPressed'
  <2>1. SUFFICES ASSUME NEW c \in down', c # Sym PROVE \E k \in Holding' : Code[k] = c
    BY DEF DownIsPressed
  <2>2. CASE c \in down /\ ~(e.type = "UP" /\ c = e.key)
    <3>1. PICK k \in Holding : Code[k] = c
      BY <2>1, <2>2 DEF Truth, DownIsPressed
    <3> QED BY <1>5, <1>6, <1>7, <2>2, <3>1
  <2>3. CASE e.type = "DOWN" /\ c = e.key
    BY <1>3, <1>5, <2>1, <2>3
  <2> QED BY <1>2, <1>8, <2>1, <2>2, <2>3
<1>10. input'.held = Keys!Held(e) /\ input.held \in Keys!HeldKey
  <2>1. Keys!Push(input, e) \in InputType
    BY <1>1, PushedIsTyped DEF Keys!TypeOK, InputType
  <2>2. input.held \in Keys!HeldKey
    BY DEF Keys!TypeOK
  <2> QED BY <1>2, <2>1, <2>2 DEF InputType
<1>11. HeldIsDown'
  <2> DEFINE h == input.held
  <2>1. h.key \in Keys!Codes \cup {None}
    BY <1>10 DEF Keys!HeldKey
  <2>2. CASE e.type = "DOWN" /\ e.key # Sym
    <3>1. Keys!Held(e) = [key |-> e.key, layer |-> e.layer, text |-> FALSE]
      BY <2>2 DEF Keys!Held
    <3>2. e.key \in down'
      BY <1>2, <2>2
    <3>3. PICK k \in Key : Code[k] = e.key /\ binding[k] = e.layer /\ k \in pressed
      BY <1>3, <2>2
    <3> QED BY <1>2, <1>5, <1>10, <3>1, <3>2, <3>3 DEF HeldIsDown
  <2>3. CASE e.type = "UP" /\ e.key = h.key
    <3>1. Keys!Held(e) = Keys!NoKey
      BY <2>1, <2>3, CodesAreCodes DEF Keys!Held
    <3> QED BY <1>10, <3>1 DEF HeldIsDown, Keys!NoKey
  <2>4. CASE ~(e.type = "DOWN" /\ e.key # Sym) /\ ~(e.type = "UP" /\ e.key = h.key)
    <3>1. Keys!Held(e).key = h.key /\ Keys!Held(e).layer = h.layer
      <4>1. Keys!Held(e) \in {[h EXCEPT !.text = h.key # None], h}
        BY <2>4 DEF Keys!Held
      <4> QED BY <1>10, <4>1 DEF Keys!HeldKey
    <3>2. SUFFICES ASSUME h.key # None
                   PROVE  /\ h.key \in down'
                          /\ \E k \in Holding' : /\ Code[k] = h.key
                                                 /\ h.layer \in {None, binding'[k]}
      BY <1>10, <3>1 DEF HeldIsDown
    <3>3. h.key \in down
      BY <3>2 DEF Truth, HeldIsDown
    <3>4. PICK k \in Holding : Code[k] = h.key /\ h.layer \in {None, binding[k]}
      BY <3>2 DEF Truth, HeldIsDown
    <3>5. h.key \in down'
      BY <1>2, <1>8, <2>4, <3>3
    <3>6. k \in Holding'
      BY <1>5, <1>6, <1>7, <2>4, <3>4
    <3> QED BY <1>2, <3>4, <3>5, <3>6
  <2> QED BY <2>2, <2>3, <2>4
<1>12. /\ input \in InputType /\ Len(input.queue) <= Capacity
       /\ Keys!Push(input, e) \in InputType /\ Keys!Push(input, e).generation >= input.generation
  BY <1>1, PushedIsTyped DEF Keys!TypeOK, InputType
<1>13. input'.queue = Keys!Push(input, e).queue
       /\ input'.generation = Keys!Push(input, e).generation
  BY <1>2, <1>12 DEF InputType
<1>14. GenerationsGrow'
  <2>1. SUFFICES ASSUME NEW o \in Program
                 PROVE  /\ view[o].generation <= input'.generation
                        /\ view[o].generation = input'.generation => front = o
    BY <1>2 DEF GenerationsGrow
  <2>2. /\ view[o].generation <= input.generation
        /\ view[o].generation = input.generation => front = o
    BY DEF Truth, GenerationsGrow
  <2>3. view[o].generation \in Nat /\ input.generation \in Nat /\ input'.generation \in Nat
    BY <1>12, <1>13 DEF Keys!TypeOK, InputType
  <2> QED BY <1>12, <1>13, <2>2, <2>3
<1>15. Knowing'
  <2>1. SUFFICES ASSUME NEW o \in Program, view[o].generation = input'.generation
                 PROVE  /\ Knows(Keys!KnownAfter(view[o].down, input'.queue),
                                  down', Holding', binding')
                        /\ \A i \in DOMAIN input'.queue :
                             input'.queue[i].generation = input'.generation
    BY <1>2 DEF Knowing, Keys!Learned
  <2> DEFINE K == Keys!KnownAfter(view[o].down, input.queue)
  <2>2. /\ view[o].generation = input.generation
        /\ Keys!KnownAfter(view[o].down, input'.queue) = Keys!Learns(K, e)
        /\ \A i \in DOMAIN input'.queue : input'.queue[i].generation = input'.generation
    <3>1. input.generation >= input.generation
      BY <1>12 DEF InputType
    <3>2. view[o].generation = input.generation =>
            \A n \in DOMAIN input.queue : input.queue[n].generation = input.generation
      BY DEF Truth, Knowing
    <3>3. view[o].generation = input.generation
      <4>1. view[o].generation <= input.generation
        BY DEF Truth, GenerationsGrow
      <4>2. view[o].generation \in Nat /\ input.generation \in Nat /\ input'.generation \in Nat
        BY <1>12, <1>13 DEF Keys!TypeOK, InputType
      <4> QED BY <1>12, <1>13, <2>1, <4>1, <4>2
    <3>4. GenerationsGrow /\ Knowing /\ view[o].generation = Keys!Push(input, e).generation
      BY <1>13, <2>1 DEF Truth
    <3> DEFINE known == view[o].down
    <3>5. /\ Keys!KnownAfter(known, Keys!Push(input, e).queue)
             = Keys!Learns(Keys!KnownAfter(known, input.queue), e)
          /\ \A n \in DOMAIN Keys!Push(input, e).queue :
               Keys!Push(input, e).queue[n].generation = Keys!Push(input, e).generation
      <4>1. input \in InputType /\ e \in Keys!Event /\ Len(input.queue) <= Capacity
        BY <1>1, <1>12
      <4>2. /\ Keys!Push(input, e).generation = input.generation
            /\ \A n \in DOMAIN input.queue : input.queue[n].generation = input.generation
        BY <3>2, <3>3, <3>4
      <4> HIDE DEF known, K, e
      <4> QED BY <4>1, <4>2, PushedIsLearned DEF InputType
    <3> QED BY <1>13, <3>3, <3>5
  <2>3. Knows(K, down, Holding, binding)
    BY <2>2 DEF Truth, Knowing, Keys!Learned
  <2> HIDE DEF K
  <2>4. Knows(Keys!Learns(K, e), down', Holding', binding')
    <3>1. CASE e.type = "DOWN"
      <4>1. e.key # Sym => \E k \in Holding : Code[k] = e.key /\ e.layer \in {None, binding[k]}
        BY <1>3, <1>6, <3>1
      <4>2. Knows(Keys!Learns(K, e), down \cup {e.key}, Holding, binding)
        BY <1>1, <1>3, <2>3, <3>1, <4>1, KnowsDown
      <4>3. Holding' = Holding /\ down' = down \cup {e.key}
        BY <1>2, <1>5, <1>6, <3>1
      <4> QED BY <1>2, <4>2, <4>3
    <3>2. CASE e.type = "UP"
      <4>1. e.key # Sym => \E k \in Key : Code[k] = e.key /\ binding[k] = e.layer
        BY <1>3, <3>2
      <4>2. \A k \in Holding : k \in Holding' \/ (Code[k] = e.key /\ binding[k] = e.layer)
        BY <1>5, <1>6, <1>7
      <4>3. Knows(Keys!Learns(K, e), down \ {e.key}, Holding', binding)
        BY <1>1, <1>3, <1>6, <2>3, <3>2, <4>1, <4>2, KnowsUp
      <4>4. down' = down \ {e.key}
        BY <1>2, <3>2
      <4> QED BY <1>2, <4>3, <4>4
    <3>3. CASE e.type = "TEXT"
      <4>1. Keys!Learns(K, e) = K /\ down' = down
        BY <1>2, <3>3 DEF Keys!Learns
      <4>2. Holding' = Holding
        BY <1>5, <1>6, <3>3
      <4> QED BY <1>2, <2>3, <4>1, <4>2
    <3> QED BY <1>8, <3>1, <3>2, <3>3
  <2> QED BY <2>2, <2>4
<1> QED BY <1>9, <1>11, <1>14, <1>15 DEF Truth

(* input_update repeats the held key: one event or two. *)
LEMMA RepeatKeepsTruth ==
  ASSUME Keys!Constants, Keys!TypeOK, Truth, Keys!input_update,
         UNCHANGED <<down, pressed, todo, binding, view, front>>
  PROVE  Truth'
<1> DEFINE h == input.held
<1>1. input \in InputType /\ Len(input.queue) <= Capacity /\ h \in Keys!HeldKey
  BY DEF Keys!TypeOK, InputType
<1>2. Holding' = Holding
  BY DEF Holding, Releasing
<1>3. CASE h.key = None
  <2>1. input' = input
    BY <1>3 DEF Keys!input_update
  <2> QED BY <1>2, <2>1, MatrixKeepsTruth
<1>4. CASE h.key # None
  <2>1. h.key \in Keys!Codes /\ h.layer \in Keys!Layer /\ h.key # Sym
    BY <1>1, <1>4, CodesAreCodes DEF Keys!HeldKey
  <2>2. KeyAgain \in Keys!Event /\ TextAgain \in Keys!Event
    BY <2>1 DEF KeyAgain, TextAgain, Keys!Event, Keys!KeyEvent, Keys!TextEvent
  <2>3. /\ KeyAgain.type = "DOWN" /\ KeyAgain.key = h.key /\ KeyAgain.layer = h.layer
        /\ TextAgain.type = "TEXT"
    BY DEF KeyAgain, TextAgain
  <2>4. input' \in {Keys!Push(input, KeyAgain), Keys!Push(Keys!Push(input, KeyAgain), TextAgain)}
    BY <1>4 DEF Keys!input_update, KeyAgain, TextAgain
  <2> HIDE DEF h
  <2>5. h.key \in down /\ \E k \in Holding : Code[k] = h.key /\ h.layer \in {None, binding[k]}
    BY <1>4 DEF Truth, HeldIsDown, h
  <2> DEFINE one == Keys!Push(input, KeyAgain)
             two == Keys!Push(one, TextAgain)
  <2>6. /\ one \in InputType /\ Len(one.queue) <= Capacity /\ one.held = input.held
        /\ one.generation >= input.generation
    BY <1>1, <2>2, PushedIsTyped DEF InputType
  <2>7. /\ two \in InputType /\ two.held = one.held /\ two.generation >= one.generation
    <3> HIDE DEF one
    <3> QED BY <2>2, <2>6, PushedIsTyped DEF InputType
  <2>8. input'.held = input.held /\ input'.generation >= input.generation /\ input' \in InputType
    <3>1. input.generation \in Nat /\ one.generation \in Nat /\ two.generation \in Nat
      BY <1>1, <2>6, <2>7 DEF InputType
    <3> HIDE DEF one, two
    <3>2. input' \in {one, two}
      BY <2>4 DEF one, two
    <3> QED BY <2>6, <2>7, <3>1, <3>2
  <2>9. DownIsPressed' /\ HeldIsDown'
    BY <1>2, <2>8 DEF Truth, DownIsPressed, HeldIsDown
  <2>10. GenerationsGrow'
    <3>1. ASSUME NEW o \in Program
          PROVE  /\ view[o].generation <= input'.generation
                 /\ view[o].generation = input'.generation => front = o
      <4>1. /\ view[o].generation <= input.generation
            /\ view[o].generation = input.generation => front = o
        BY DEF Truth, GenerationsGrow
      <4>2. view[o].generation \in Nat /\ input.generation \in Nat /\ input'.generation \in Nat
        BY <2>8 DEF Keys!TypeOK, InputType
      <4> QED BY <2>8, <4>1, <4>2
    <3> QED BY <3>1 DEF GenerationsGrow
  <2>11. ASSUME NEW o \in Program, view[o].generation = input'.generation
         PROVE  /\ Knows(Keys!KnownAfter(view[o].down, input'.queue), down, Holding, binding)
                /\ \A n \in DOMAIN input'.queue : input'.queue[n].generation = input'.generation
    <3> DEFINE known == view[o].down
               K == Keys!KnownAfter(known, input.queue)
    <3>1. view[o].generation = input.generation
      <4>1. view[o].generation <= input.generation
        BY DEF Truth, GenerationsGrow
      <4>2. view[o].generation \in Nat /\ input.generation \in Nat /\ input'.generation \in Nat
        BY <2>8 DEF Keys!TypeOK, InputType
      <4> QED BY <2>8, <2>11, <4>1, <4>2
    <3>2. /\ Knows(K, down, Holding, binding)
          /\ \A n \in DOMAIN input.queue : input.queue[n].generation = input.generation
      BY <3>1 DEF Truth, Knowing, Keys!Learned
    <3>3. input.generation >= input.generation /\ GenerationsGrow /\ Knowing
      BY DEF Truth, Keys!TypeOK
    <3> HIDE DEF K
    <3>4. Knows(Keys!Learns(K, KeyAgain), down, Holding, binding)
      <4>1. Knows(Keys!Learns(K, KeyAgain), down \cup {KeyAgain.key}, Holding, binding)
        BY <2>1, <2>2, <2>3, <2>5, <3>2, KnowsDown
      <4>2. down \cup {KeyAgain.key} = down
        BY <2>3, <2>5
      <4> QED BY <4>1, <4>2
    <3>5. Keys!Learns(Keys!Learns(K, KeyAgain), TextAgain) = Keys!Learns(K, KeyAgain)
      BY <2>3 DEF Keys!Learns
    <3>6. one.generation = input.generation
          => /\ Keys!KnownAfter(known, one.queue)
                  = Keys!Learns(Keys!KnownAfter(known, input.queue), KeyAgain)
             /\ \A n \in DOMAIN one.queue : one.queue[n].generation = one.generation
      <4>1. SUFFICES ASSUME view[o].generation = one.generation
                     PROVE  /\ Keys!KnownAfter(known, one.queue)
                                 = Keys!Learns(Keys!KnownAfter(known, input.queue), KeyAgain)
                            /\ \A n \in DOMAIN one.queue :
                                 one.queue[n].generation = one.generation
        BY <3>1
      <4> HIDE DEF known
      <4> QED BY <1>1, <2>2, <3>2, <3>3, <4>1, PushKeepsKnowing, Zenon
    <3>7. CASE input' = one
      <4> HIDE DEF one
      <4> QED BY <2>11, <3>1, <3>4, <3>6, <3>7 DEF K
    <3>8. CASE input' = two
      <4>1. one.generation = input.generation
        <5>1. input.generation \in Nat /\ one.generation \in Nat /\ two.generation \in Nat
          BY <1>1, <2>6, <2>7 DEF InputType
        <5>2. two.generation = input.generation
          BY <2>11, <3>1, <3>8
        <5>3. one.generation >= input.generation /\ two.generation >= one.generation
          BY <2>6, <2>7
        <5> HIDE DEF one, two
        <5> QED BY <5>1, <5>2, <5>3
      <4>2. /\ Keys!KnownAfter(known, two.queue)
                 = Keys!Learns(Keys!KnownAfter(known, one.queue), TextAgain)
            /\ \A n \in DOMAIN two.queue : two.queue[n].generation = two.generation
        <5>1. view[o].generation = two.generation
          BY <2>11, <3>8
        <5> HIDE DEF known, one
        <5> QED BY <2>2, <2>6, <3>3, <3>6, <4>1, <5>1, PushKeepsKnowing, Zenon
      <4> HIDE DEF one, two
      <4> QED BY <3>4, <3>5, <3>6, <3>8, <4>1, <4>2 DEF K
    <3> QED BY <2>4, <3>7, <3>8
  <2>12. Knowing'
    <3>1. \A o \in Program : Keys!Learned(o)' = Keys!KnownAfter(view[o].down, input'.queue)
      BY DEF Keys!Learned
    <3> QED BY <1>2, <2>11, <3>1 DEF Knowing
  <2> QED BY <2>9, <2>10, <2>12 DEF Truth
<1> QED BY <1>3, <1>4

(* A program takes an event with tabos_input_poll. *)
LEMMA PollKeepsTruth ==
  ASSUME Keys!Constants, Keys!TypeOK, Truth, NEW p \in Program, Keys!tabos_input_poll(p)
  PROVE  Truth'
<1> DEFINE q == Head(input.queue)
<1>1. /\ input \in InputType /\ input.queue \in Seq(Keys!Queued) /\ input.queue # <<>>
      /\ input' = [input EXCEPT !.queue = Tail(@)] /\ front = p
      /\ UNCHANGED <<down, pressed, todo, binding, front>>
      /\ view' = IF q.generation # view[p].generation THEN view
                 ELSE [view EXCEPT ![p].down = Keys!Learns(@, q.event)]
  BY DEF Keys!tabos_input_poll, Keys!TypeOK, InputType, Keys!matrix
<1>2. /\ input'.queue = Tail(input.queue) /\ input'.held = input.held
      /\ input'.generation = input.generation
  BY <1>1 DEF InputType
<1>3. Holding' = Holding
  BY <1>1 DEF Holding, Releasing
<1>4. DownIsPressed' /\ HeldIsDown'
  BY <1>1, <1>2, <1>3 DEF Truth, DownIsPressed, HeldIsDown
<1>5. \A o \in Program : view'[o].generation = view[o].generation
  BY <1>1 DEF Keys!TypeOK
<1>6. GenerationsGrow'
  BY <1>1, <1>2, <1>5 DEF Truth, GenerationsGrow
<1>7. ASSUME NEW o \in Program, view'[o].generation = input'.generation
      PROVE  /\ Knows(Keys!KnownAfter(view'[o].down, input'.queue), down, Holding, binding)
             /\ \A n \in DOMAIN input'.queue : input'.queue[n].generation = input'.generation
  <2>1. view[o].generation = input.generation /\ o = p
    BY <1>1, <1>2, <1>5, <1>7 DEF Truth, GenerationsGrow
  <2>2. /\ Knows(Keys!KnownAfter(view[o].down, input.queue), down, Holding, binding)
        /\ \A n \in DOMAIN input.queue : input.queue[n].generation = input.generation
    BY <2>1 DEF Truth, Knowing, Keys!Learned
  <2>3. q.generation = view[p].generation
    BY <1>1, <2>1, <2>2
  <2>4. view'[o].down = Keys!Learns(view[o].down, q.event)
    BY <1>1, <2>1, <2>3 DEF Keys!TypeOK
  <2>5. Keys!KnownAfter(view[o].down, input.queue) = Keys!KnownAfter(view'[o].down, input'.queue)
    <3> DEFINE known == view[o].down
    <3>1. Keys!KnownAfter(known, input.queue)
            = Keys!KnownAfter(Keys!Learns(known, Head(input.queue).event), Tail(input.queue))
      <4> HIDE DEF known
      <4> QED BY <1>1, KnownAfterHead
    <3> QED BY <1>2, <2>4, <3>1
  <2>6. \A n \in DOMAIN Tail(input.queue) :
          n + 1 \in DOMAIN input.queue /\ Tail(input.queue)[n] = input.queue[n + 1]
    BY <1>1
  <2> QED BY <1>2, <2>2, <2>5, <2>6
<1>8. Knowing'
  <2>1. \A o \in Program : Keys!Learned(o)' = Keys!KnownAfter(view'[o].down, input'.queue)
    BY DEF Keys!Learned
  <2> QED BY <1>1, <1>3, <1>7, <2>1 DEF Knowing
<1> QED BY <1>4, <1>6, <1>8 DEF Truth

(* A program takes the state with input_get_state, and with it the generation. *)
LEMMA StateKeepsTruth ==
  ASSUME Keys!Constants, Keys!TypeOK, Truth, NEW p \in Program, Keys!input_get_state(p)
  PROVE  Truth'
<1>1. /\ input \in InputType /\ front = p /\ input.generation \in Nat
      /\ input' = [input EXCEPT !.queue = <<>>, !.generation = @ + 1]
      /\ UNCHANGED <<down, pressed, todo, binding, front>>
      /\ view' = [view EXCEPT ![p] = [down |-> down \X {None}, generation |-> input.generation + 1]]
  BY DEF Keys!input_get_state, Keys!TypeOK, InputType, Keys!matrix
<1>2. /\ input'.queue = <<>> /\ input'.held = input.held
      /\ input'.generation = input.generation + 1
  BY <1>1 DEF InputType
<1>3. Holding' = Holding
  BY <1>1 DEF Holding, Releasing
<1>4. DownIsPressed' /\ HeldIsDown'
  BY <1>1, <1>2, <1>3 DEF Truth, DownIsPressed, HeldIsDown
<1>5. /\ view'[p] = [down |-> down \X {None}, generation |-> input.generation + 1]
      /\ \A o \in Program \ {p} : view'[o] = view[o]
  BY <1>1 DEF Keys!TypeOK
<1>6. ASSUME NEW o \in Program
      PROVE  /\ view'[o].generation <= input'.generation
             /\ view'[o].generation = input'.generation => o = p
  <2>1. view[o].generation <= input.generation /\ view[o].generation \in Nat
    BY DEF Truth, GenerationsGrow, Keys!TypeOK
  <2> QED BY <1>1, <1>2, <1>5, <2>1
<1>7. GenerationsGrow'
  BY <1>1, <1>6 DEF GenerationsGrow
<1>8. Knows(down \X {None}, down, Holding, binding)
  <2>1. down \X {None} \subseteq Keys!Belief
    BY DEF Keys!TypeOK, Keys!Belief
  <2>2. down \subseteq {b[1] : b \in down \X {None}}
    <3>1. ASSUME NEW d \in down PROVE \E b \in down \X {None} : b[1] = d
      <4>1. <<d, None>> \in down \X {None} /\ <<d, None>>[1] = d
        OBVIOUS
      <4> QED BY <4>1
    <3> QED BY <3>1
  <2>3. ASSUME NEW b \in down \X {None}
        PROVE  /\ b[1] \in down /\ b[2] = None
               /\ b[1] # Sym => \E k \in Holding : Code[k] = b[1]
    BY DEF Truth, DownIsPressed
  <2> QED BY <2>1, <2>2, <2>3 DEF Knows
<1>9. Knowing'
  <2>1. SUFFICES ASSUME NEW o \in Program, view'[o].generation = input'.generation
                 PROVE  /\ Knows(Keys!KnownAfter(view'[o].down, input'.queue),
                                  down', Holding', binding')
                        /\ \A n \in DOMAIN input'.queue :
                             input'.queue[n].generation = input'.generation
    BY DEF Knowing, Keys!Learned
  <2>2. view'[o].down = down \X {None}
    BY <1>5, <1>6, <2>1
  <2>3. Keys!KnownAfter(view'[o].down, input'.queue) = down \X {None}
    BY <1>2, <2>2, KnownAfterNothing
  <2>4. DOMAIN input'.queue = {}
    BY <1>2
  <2>5. Knows(Keys!KnownAfter(view'[o].down, input'.queue), down', Holding', binding')
    BY <1>1, <1>3, <1>8, <2>3
  <2> QED BY <2>4, <2>5
<1> QED BY <1>4, <1>7, <1>9 DEF Truth

(* Every step keeps the rest of the invariant. *)
LEMMA TruthNext ==
  ASSUME Keys!Constants, Keys!TypeOK, ReportsLeft, TodoIsTrue, Truth, [Keys!Next]_(Keys!vars)
  PROVE  Truth'
<1> USE DEF Keys!matrix, Keys!service, Keys!readers
<1>1. CASE Keys!submit_matrix_event BY <1>1, ReportKeepsTruth
<1>2. CASE Keys!input_submit BY <1>2, SubmitKeepsTruth
<1>3. CASE Keys!input_update BY <1>3, RepeatKeepsTruth DEF Keys!input_update
<1>4. CASE Keys!DrainFails BY <1>4, ResetKeepsTruth DEF Keys!DrainFails
<1>5. CASE Keys!tabos_console_release BY <1>5, ResetKeepsTruth DEF Keys!tabos_console_release
<1>6. ASSUME NEW o \in Program, Keys!tabos_console_acquire(o) PROVE Truth'
  BY <1>6, ResetKeepsTruth DEF Keys!tabos_console_acquire
<1>7. ASSUME NEW o \in Program, Keys!tabos_input_poll(o) PROVE Truth'
  BY <1>7, PollKeepsTruth
<1>8. ASSUME NEW o \in Program, Keys!input_get_state(o) PROVE Truth'
  BY <1>8, StateKeepsTruth
<1>9. CASE UNCHANGED <<down, input, view, front, pressed, todo, binding>>
  BY <1>9, MatrixKeepsTruth DEF Holding, Releasing
<1> QED
  BY <1>1, <1>2, <1>3, <1>4, <1>5, <1>6, <1>7, <1>8, <1>9
  DEF Keys!Next, Keys!Boot, Keys!Update, Keys!Handler, Keys!Tap, Keys!keyboard_interrupt,
      Keys!InterruptNotify, Keys!BootClear, Keys!EnableInterrupt, Keys!CheckLine,
      Keys!BeginUpdate, Keys!tab5_keyboard_poll, Keys!ReadCount, Keys!NextReport,
      Keys!ClearStatus, Keys!Recheck, Keys!AfterDrain, Keys!TellPower, Keys!TimerFires, Keys!vars

(* In every reachable state of the keyboard, its drain and its readers, the
   translator's latch, bindings and events to submit, the service's queue, the
   held key and what the programs have read are of their types and agree as
   KeysInv says, whatever the taps, the interrupts and the owners do. *)
THEOREM KeysInvariance == ASSUME Keys!Constants PROVE Keys!Spec => []KeysInv
<1>1. Keys!Init => KeysInv
  BY KeysInit
<1>2. KeysInv /\ [Keys!Next]_(Keys!vars) => KeysInv'
  <2>1. SUFFICES ASSUME KeysInv, [Keys!Next]_(Keys!vars) PROVE KeysInv'
    OBVIOUS
  <2>2. Keys!Constants'
    BY DEF Keys!Constants, Keys!Codes, KeysInv
  <2> QED BY <2>1, <2>2, KeysReportsNext, TodoNext, KeysTypeNext, TruthNext DEF KeysInv, Truth
<1> QED BY <1>1, <1>2, PTL DEF Keys!Spec

(* What agrees with the matrix is what the property asks. *)
LEMMA TruthTells == KeysInv => GenerationTellsAll
<1> SUFFICES ASSUME KeysInv, NEW o \in Program, view[o].generation = input.generation
             PROVE  /\ down \subseteq {b[1] : b \in Keys!Learned(o)}
                    /\ {b[1] : b \in Keys!Learned(o)} \subseteq down \cup Keys!SharedCodes
                    /\ \A b \in Keys!Learned(o) : b[1] # Sym =>
                         \E k \in Key : /\ k \in pressed \/ todo # <<>>
                                       /\ Code[k] = b[1] /\ b[2] \in {None, binding[k]}
                    /\ \A i \in DOMAIN input.queue : input.queue[i].generation = input.generation
  BY DEF GenerationTellsAll, Learned, Keys!Learned, KnownAfter, Keys!KnownAfter, Learns,
         Keys!Learns, SharedCodes, Keys!SharedCodes
<1>1. /\ Knows(Keys!Learned(o), down, Holding, binding)
      /\ \A i \in DOMAIN input.queue : input.queue[i].generation = input.generation
  BY DEF KeysInv, Knowing
<1>2. \A k \in Holding : k \in Key /\ (k \in pressed \/ todo # <<>>)
  BY DEF Holding, Releasing
<1> QED BY <1>1, <1>2 DEF Knows

(* A program that keeps the generation it read, from tabos_input_poll or
   input_get_state, believes what is down once it has read its queue: a full
   queue that drops an event and a change of the foreground show in the
   generation before the program can be wrong. *)
THEOREM GenerationsTell == ASSUME Keys!Constants PROVE Keys!Spec => []GenerationTellsAll
  BY KeysInvariance, TruthTells, PTL

-----------------------------------------------------------------------------
(* What Select computes is a run along the sequence. *)
Keeps(f, s, T, n) == IF s[n] \in T THEN Append(f[n - 1], s[n]) ELSE f[n - 1]

SelectingTo(m, f, s, T) == f = [n \in 0 .. m |-> IF n = 0 THEN <<>> ELSE Keeps(f, s, T, n)]

(* Such a run exists for every sequence, and is Select. *)
LEMMA SelectingExists ==
  ASSUME NEW s, NEW T, NEW N \in Nat
  PROVE  \E f : SelectingTo(N, f, s, T)
<1> DEFINE S == {m \in Nat : \E f : SelectingTo(m, f, s, T)}
<1>1. 0 \in S
  <2> DEFINE g == [n \in 0 .. 0 |-> <<>>]
  <2>1. SelectingTo(0, g, s, T)
    BY DEF SelectingTo
  <2> QED BY <2>1
<1>2. ASSUME NEW m \in Nat, m \in S PROVE m + 1 \in S
  <2>1. PICK f : SelectingTo(m, f, s, T)
    BY <1>2
  <2> DEFINE next == IF s[m + 1] \in T THEN Append(f[m], s[m + 1]) ELSE f[m]
             g == [n \in 0 .. m + 1 |-> IF n = m + 1 THEN next ELSE f[n]]
             step(h, n) == IF n = 0 THEN <<>> ELSE Keeps(h, s, T, n)
  <2>2. \A n \in 0 .. m : g[n] = f[n] /\ f[n] = step(f, n)
    BY <2>1 DEF SelectingTo
  <2>3. g[m + 1] = next /\ (m + 1) - 1 = m /\ m + 1 # 0 /\ m \in 0 .. m
    OBVIOUS
  <2>4. g = [n \in 0 .. m + 1 |-> g[n]]
    OBVIOUS
  <2> HIDE DEF g
  <2>5. ASSUME NEW n \in 0 .. m + 1 PROVE g[n] = step(g, n)
    <3>1. CASE n = m + 1
      BY <2>2, <2>3, <3>1 DEF Keeps
    <3>2. CASE n \in 0 .. m
      <4>1. n # 0 => g[n - 1] = f[n - 1]
        BY <2>2, <3>2
      <4> QED BY <2>2, <3>2, <4>1 DEF Keeps
    <3> QED BY <3>1, <3>2
  <2>6. SelectingTo(m + 1, g, s, T)
    BY <2>4, <2>5 DEF SelectingTo
  <2> QED BY <2>6
<1>3. Nat \subseteq S
  <2> HIDE DEF S
  <2> QED BY <1>1, <1>2, SetInduction
<1> QED BY <1>3

(* A sequence as the set of its members: first, last, and two in a row *)
Holds(s, e) == \E i \in DOMAIN s : s[i] = e

LEMMA HoldsAppend ==
  ASSUME NEW T, NEW s \in Seq(T), NEW x \in T, NEW e
  PROVE  Holds(Append(s, x), e) <=> Holds(s, e) \/ x = e
<1> DEFINE a == Append(s, x)
<1>1. /\ DOMAIN a = 1 .. Len(s) + 1 /\ DOMAIN s = 1 .. Len(s) /\ Len(s) \in Nat
      /\ a[Len(s) + 1] = x
      /\ \A i \in 1 .. Len(s) : a[i] = s[i]
  OBVIOUS
<1> HIDE DEF a
<1>2. ASSUME Holds(a, e) PROVE Holds(s, e) \/ x = e
  <2>1. PICK i \in 1 .. Len(s) + 1 : a[i] = e
    BY <1>1, <1>2 DEF Holds
  <2>2. i = Len(s) + 1 \/ i \in 1 .. Len(s)
    BY <1>1
  <2> QED BY <1>1, <2>1, <2>2 DEF Holds
<1>3. ASSUME Holds(s, e) PROVE Holds(a, e)
  BY <1>1, <1>3 DEF Holds
<1>4. ASSUME x = e PROVE Holds(a, e)
  <2>1. Len(s) + 1 \in DOMAIN a
    BY <1>1
  <2> QED BY <1>1, <1>4, <2>1 DEF Holds
<1> QED BY <1>2, <1>3, <1>4 DEF a

LEMMA HoldsTail ==
  ASSUME NEW T, NEW s \in Seq(T), s # <<>>, NEW e
  PROVE  Holds(s, e) <=> Head(s) = e \/ Holds(Tail(s), e)
<1> DEFINE t == Tail(s)
<1>1. /\ DOMAIN s = 1 .. Len(s) /\ Len(s) \in Nat /\ Len(s) >= 1 /\ Head(s) = s[1]
      /\ DOMAIN t = 1 .. Len(s) - 1
      /\ \A i \in 1 .. Len(s) - 1 : t[i] = s[i + 1]
  OBVIOUS
<1> HIDE DEF t
<1>2. ASSUME Holds(s, e) PROVE Head(s) = e \/ Holds(t, e)
  <2>1. PICK i \in 1 .. Len(s) : s[i] = e
    BY <1>1, <1>2 DEF Holds
  <2>2. i = 1 \/ (i - 1 \in 1 .. Len(s) - 1 /\ (i - 1) + 1 = i)
    BY <1>1
  <2>3. i # 1 => t[i - 1] = e
    BY <1>1, <2>1, <2>2
  <2> QED BY <1>1, <2>1, <2>2, <2>3 DEF Holds
<1>3. ASSUME Holds(t, e) PROVE Holds(s, e)
  <2>1. PICK i \in 1 .. Len(s) - 1 : t[i] = e
    BY <1>1, <1>3 DEF Holds
  <2>2. i + 1 \in 1 .. Len(s) /\ s[i + 1] = e
    BY <1>1, <2>1
  <2> QED BY <1>1, <2>2 DEF Holds
<1>4. ASSUME Head(s) = e PROVE Holds(s, e)
  <2>1. 1 \in DOMAIN s
    BY <1>1
  <2> QED BY <1>1, <1>4, <2>1 DEF Holds
<1> QED BY <1>2, <1>3, <1>4 DEF t

LEMMA HoldsConcat ==
  ASSUME NEW T, NEW s \in Seq(T), NEW t \in Seq(T), NEW e
  PROVE  Holds(s \o t, e) <=> Holds(s, e) \/ Holds(t, e)
<1> DEFINE a == s \o t
<1>1. /\ DOMAIN s = 1 .. Len(s) /\ Len(s) \in Nat /\ DOMAIN t = 1 .. Len(t) /\ Len(t) \in Nat
      /\ DOMAIN a = 1 .. Len(s) + Len(t)
      /\ \A i \in 1 .. Len(s) + Len(t) : a[i] = IF i <= Len(s) THEN s[i] ELSE t[i - Len(s)]
  OBVIOUS
<1> HIDE DEF a
<1>2. ASSUME Holds(a, e) PROVE Holds(s, e) \/ Holds(t, e)
  <2>1. PICK i \in 1 .. Len(s) + Len(t) : a[i] = e
    BY <1>1, <1>2 DEF Holds
  <2>2. i \in 1 .. Len(s) \/ (~(i <= Len(s)) /\ i - Len(s) \in 1 .. Len(t))
    BY <1>1
  <2> QED BY <1>1, <2>1, <2>2 DEF Holds
<1>3. ASSUME Holds(s, e) PROVE Holds(a, e)
  <2>1. PICK i \in 1 .. Len(s) : s[i] = e
    BY <1>1, <1>3 DEF Holds
  <2>2. i \in 1 .. Len(s) + Len(t) /\ i <= Len(s)
    BY <1>1
  <2> QED BY <1>1, <2>1, <2>2 DEF Holds
<1>4. ASSUME Holds(t, e) PROVE Holds(a, e)
  <2>1. PICK i \in 1 .. Len(t) : t[i] = e
    BY <1>1, <1>4 DEF Holds
  <2>2. /\ i + Len(s) \in 1 .. Len(s) + Len(t) /\ ~(i + Len(s) <= Len(s))
        /\ (i + Len(s)) - Len(s) = i
    BY <1>1
  <2>3. a[i + Len(s)] = e
    BY <1>1, <2>1, <2>2
  <2> QED BY <1>1, <2>2, <2>3 DEF Holds
<1> QED BY <1>2, <1>3, <1>4 DEF a

(* The members of the sequence that are in the set, and nothing else *)
LEMMA SelectSelects ==
  ASSUME NEW s, NEW T, Len(s) \in Nat, DOMAIN s = 1 .. Len(s)
  PROVE  /\ Pad!Select(s, T) \in Seq(T)
         /\ Len(Pad!Select(s, T)) <= Len(s)
         /\ \A e : Holds(Pad!Select(s, T), e) <=> e \in T /\ Holds(s, e)
<1> DEFINE N == Len(s)
           kept == CHOOSE f : SelectingTo(N, f, s, T)
<1>1. SelectingTo(N, kept, s, T)
  BY SelectingExists, Zenon
<1>2. Pad!Select(s, T) = kept[N]
  BY DEF Pad!Select, SelectingTo, Keeps
<1> HIDE DEF kept
<1> DEFINE S == {n \in Nat : n <= N =>
                   /\ kept[n] \in Seq(T) /\ Len(kept[n]) <= n
                   /\ \A e : Holds(kept[n], e) <=> e \in T /\ \E i \in 1 .. n : s[i] = e}
<1>3. 0 \in S
  <2>1. kept[0] = <<>>
    BY <1>1 DEF SelectingTo
  <2>2. <<>> \in Seq(T) /\ Len(<<>>) = 0 /\ DOMAIN <<>> = {}
    OBVIOUS
  <2>3. \A e : ~Holds(<<>>, e) /\ ~\E i \in 1 .. 0 : s[i] = e
    BY <2>2 DEF Holds
  <2>4. 0 \in Nat /\ 0 <= 0
    OBVIOUS
  <2>5. kept[0] \in Seq(T) /\ Len(kept[0]) <= 0
    BY <2>1, <2>2, <2>4
  <2>6. \A e : Holds(kept[0], e) <=> e \in T /\ \E i \in 1 .. 0 : s[i] = e
    BY <2>1, <2>3
  <2> QED BY <2>4, <2>5, <2>6
<1>4. ASSUME NEW n \in Nat, n \in S PROVE n + 1 \in S
  <2>1. SUFFICES ASSUME n + 1 <= N
                 PROVE  /\ kept[n + 1] \in Seq(T) /\ Len(kept[n + 1]) <= n + 1
                        /\ \A e : Holds(kept[n + 1], e)
                                    <=> e \in T /\ \E i \in 1 .. n + 1 : s[i] = e
    OBVIOUS
  <2>2. /\ kept[n] \in Seq(T) /\ Len(kept[n]) <= n
        /\ \A e : Holds(kept[n], e) <=> e \in T /\ \E i \in 1 .. n : s[i] = e
    BY <1>4, <2>1
  <2>3. kept[n + 1] = IF s[n + 1] \in T THEN Append(kept[n], s[n + 1]) ELSE kept[n]
    <3>1. kept[n + 1] = Keeps(kept, s, T, n + 1)
      BY <1>1, <2>1 DEF SelectingTo
    <3>2. (n + 1) - 1 = n
      OBVIOUS
    <3> QED BY <3>1, <3>2 DEF Keeps
  <2>4. \A e : (\E i \in 1 .. n + 1 : s[i] = e) <=> (\E i \in 1 .. n : s[i] = e) \/ s[n + 1] = e
    <3>1. 1 .. n + 1 = (1 .. n) \cup {n + 1}
      OBVIOUS
    <3> QED BY <3>1
  <2> HIDE DEF S
  <2>5. CASE s[n + 1] \notin T
    BY <2>2, <2>3, <2>4, <2>5
  <2>6. CASE s[n + 1] \in T
    <3> DEFINE k == kept[n]
               x == s[n + 1]
    <3>1. /\ Append(k, x) \in Seq(T) /\ Len(Append(k, x)) = Len(k) + 1 /\ Len(k) \in Nat
      BY <2>2, <2>6
    <3>2. \A e : Holds(Append(k, x), e) <=> Holds(k, e) \/ x = e
      <4> HIDE DEF k, x
      <4>1. k \in Seq(T) /\ x \in T
        BY <2>2, <2>6 DEF k, x
      <4> QED BY <4>1, HoldsAppend
    <3> HIDE DEF k, x
    <3>3. kept[n + 1] = Append(k, x)
      BY <2>3, <2>6 DEF k, x
    <3>4. ASSUME NEW e
          PROVE  Holds(Append(k, x), e) <=> e \in T /\ \E i \in 1 .. n + 1 : s[i] = e
      BY <2>2, <2>4, <2>6, <3>2 DEF k, x
    <3>5. Len(Append(k, x)) <= n + 1
      BY <2>2, <3>1 DEF k
    <3> QED BY <3>1, <3>3, <3>4, <3>5
  <2> QED BY <2>5, <2>6
<1>5. N \in S
  <2> HIDE DEF S, N
  <2>1. Nat \subseteq S
    BY <1>3, <1>4, SetInduction
  <2> QED BY <2>1 DEF N
<1>6. \A e : (\E i \in 1 .. N : s[i] = e) <=> Holds(s, e)
  BY DEF Holds
<1> QED BY <1>2, <1>5, <1>6

-----------------------------------------------------------------------------
(* What a queue makes of what is believed *)
Says(e, known) ==
  IF e.type \in {"DOWN", "MOVE"} THEN known \cup {e.contact} ELSE known \ {e.contact}

(* BelievedAfter, from both ends of the queue *)
LEMMA BelievedNothing ==
  ASSUME NEW b \in SUBSET Pad!Contact
  PROVE  Pad!BelievedAfter(b, <<>>) = b
<1>1. DOMAIN <<>> = {}
  OBVIOUS
<1> QED BY <1>1 DEF Pad!BelievedAfter

LEMMA BelievedAppend ==
  ASSUME NEW b, NEW q \in Seq(Pad!PointerEvent), NEW e \in Pad!PointerEvent
  PROVE  Pad!BelievedAfter(b, Append(q, e)) = Says(e, Pad!BelievedAfter(b, q))
<1> DEFINE a == Append(q, e)
           N == Len(q)
           was(c) == {i \in DOMAIN q : q[i].contact = c}
           now(c) == {i \in DOMAIN a : a[i].contact = c}
           lands(r, i) == r[i].type \in {"DOWN", "MOVE"}
<1>1. /\ N \in Nat /\ DOMAIN q = 1 .. N /\ DOMAIN a = 1 .. N + 1
      /\ a[N + 1] = e /\ \A i \in 1 .. N : a[i] = q[i]
  OBVIOUS
<1>2. e.contact \in Pad!Contact
  BY DEF Pad!PointerEvent
<1>3. /\ Pad!BelievedAfter(b, a) = {c \in Pad!Contact : IF now(c) = {} THEN c \in b
                ELSE \E i \in now(c) : lands(a, i) /\ \A j \in now(c) : j <= i}
      /\ Pad!BelievedAfter(b, q) = {c \in Pad!Contact : IF was(c) = {} THEN c \in b
                ELSE \E i \in was(c) : lands(q, i) /\ \A j \in was(c) : j <= i}
  BY DEF Pad!BelievedAfter
<1> HIDE DEF a
<1>4. ASSUME NEW c \in Pad!Contact, c # e.contact
      PROVE  /\ now(c) = was(c)
             /\ \A i \in was(c) : lands(a, i) = lands(q, i)
  <2>1. ASSUME NEW i \in now(c) PROVE i \in was(c)
    <3>1. i \in 1 .. N + 1 /\ a[i].contact = c
      BY <1>1
    <3>2. i # N + 1
      BY <1>1, <1>4, <3>1
    <3>3. i \in 1 .. N
      BY <1>1, <3>1, <3>2
    <3> QED BY <1>1, <3>1, <3>3
  <2>2. ASSUME NEW i \in was(c) PROVE i \in now(c) /\ lands(a, i) = lands(q, i)
    <3>1. i \in 1 .. N /\ i \in 1 .. N + 1
      BY <1>1
    <3> QED BY <1>1, <3>1
  <2> QED BY <2>1, <2>2
<1>5. /\ N + 1 \in now(e.contact) /\ a[N + 1] = e
      /\ \A j \in now(e.contact) : j <= N + 1
      /\ \A i \in now(e.contact) : N + 1 <= i => i = N + 1
  BY <1>1
<1> HIDE DEF N, now, was
<1>6. ASSUME NEW c \in Pad!Contact, c # e.contact
      PROVE  c \in Pad!BelievedAfter(b, a) <=> c \in Pad!BelievedAfter(b, q)
  <2>1. (\E i \in was(c) : lands(a, i) /\ \A j \in was(c) : j <= i)
          <=> (\E i \in was(c) : lands(q, i) /\ \A j \in was(c) : j <= i)
    BY <1>4, <1>6
  <2> HIDE DEF lands
  <2> QED BY <1>3, <1>4, <1>6, <2>1
<1>7. e.contact \in Pad!BelievedAfter(b, a) <=> e.type \in {"DOWN", "MOVE"}
  <2>1. (\E i \in now(e.contact) : lands(a, i) /\ \A j \in now(e.contact) : j <= i)
          <=> e.type \in {"DOWN", "MOVE"}
    <3>1. ASSUME NEW i \in now(e.contact), \A j \in now(e.contact) : j <= i PROVE i = N + 1
      BY <1>5, <3>1
    <3> QED BY <1>5, <3>1
  <2>2. now(e.contact) # {}
    BY <1>5
  <2> HIDE DEF lands
  <2> QED BY <1>2, <1>3, <2>1, <2>2
<1>8. Pad!BelievedAfter(b, a) \subseteq Pad!Contact /\ Pad!BelievedAfter(b, q) \subseteq Pad!Contact
  BY <1>3
<1> QED BY <1>2, <1>6, <1>7, <1>8 DEF a, Says

LEMMA BelievedHead ==
  ASSUME NEW b \in SUBSET Pad!Contact, NEW q \in Seq(Pad!PointerEvent), q # <<>>
  PROVE  Pad!BelievedAfter(b, q) = Pad!BelievedAfter(Says(Head(q), b), Tail(q))
<1> DEFINE t == Tail(q)
           e == Head(q)
           N == Len(q) - 1
           was(c) == {i \in DOMAIN q : q[i].contact = c}
           now(c) == {i \in DOMAIN t : t[i].contact = c}
           lands(r, i) == r[i].type \in {"DOWN", "MOVE"}
<1>1. /\ N \in Nat /\ DOMAIN q = 1 .. N + 1 /\ DOMAIN t = 1 .. N /\ e = q[1]
      /\ \A i \in 1 .. N : t[i] = q[i + 1]
  OBVIOUS
<1>2. e \in Pad!PointerEvent /\ e.contact \in Pad!Contact
  <2>1. e \in Pad!PointerEvent
    OBVIOUS
  <2> QED BY <2>1 DEF Pad!PointerEvent
<1>3. /\ Pad!BelievedAfter(b, q) = {c \in Pad!Contact : IF was(c) = {} THEN c \in b
                ELSE \E i \in was(c) : lands(q, i) /\ \A j \in was(c) : j <= i}
      /\ Pad!BelievedAfter(Says(e, b), t) =
         {c \in Pad!Contact : IF now(c) = {} THEN c \in Says(e, b)
                ELSE \E i \in now(c) : lands(t, i) /\ \A j \in now(c) : j <= i}
  BY DEF Pad!BelievedAfter
<1> HIDE DEF t, e, N
<1>4. ASSUME NEW c \in Pad!Contact
      PROVE  /\ \A i \in now(c) : i \in Nat /\ i >= 1 /\ i + 1 \in was(c)
                     /\ lands(t, i) = lands(q, i + 1)
             /\ \A i \in was(c) : i \in Nat /\ i >= 1 /\
                                        (i # 1 => i - 1 \in now(c) /\ (i - 1) + 1 = i)
             /\ 1 \in was(c) <=> c = e.contact
             /\ lands(q, 1) <=> e.type \in {"DOWN", "MOVE"}
  <2>1. ASSUME NEW i \in now(c)
        PROVE  i \in Nat /\ i >= 1 /\ i + 1 \in was(c) /\ lands(t, i) = lands(q, i + 1)
    <3>1. i \in 1 .. N /\ t[i] = q[i + 1] /\ t[i].contact = c /\ i + 1 \in 1 .. N + 1
      BY <1>1
    <3> QED BY <1>1, <3>1
  <2>2. ASSUME NEW i \in was(c)
        PROVE  i \in Nat /\ i >= 1 /\ (i # 1 => i - 1 \in now(c) /\ (i - 1) + 1 = i)
    <3>1. i \in 1 .. N + 1 /\ q[i].contact = c
      BY <1>1
    <3>2. i # 1 => i - 1 \in 1 .. N /\ (i - 1) + 1 = i
      BY <1>1, <3>1
    <3> QED BY <1>1, <3>1, <3>2
  <2>3. 1 \in DOMAIN q
    BY <1>1
  <2> QED BY <1>1, <2>1, <2>2, <2>3
<1> HIDE DEF now, was, lands
<1>5. ASSUME NEW c \in Pad!Contact
      PROVE  c \in Pad!BelievedAfter(b, q) <=> c \in Pad!BelievedAfter(Says(e, b), t)
  <2>1. CASE now(c) = {}
    <3>1. was(c) \subseteq {1}
      BY <1>4, <2>1
    <3>2. CASE c = e.contact
      <4>1. was(c) = {1}
        BY <1>4, <3>1, <3>2
      <4>2. c \in Pad!BelievedAfter(b, q) <=> lands(q, 1)
        BY <1>3, <4>1
      <4> QED BY <1>3, <1>4, <2>1, <3>2, <4>2 DEF Says
    <3>3. CASE c # e.contact
      <4>1. was(c) = {}
        BY <1>4, <3>1, <3>3
      <4> QED BY <1>3, <2>1, <3>3, <4>1 DEF Says
    <3> QED BY <3>2, <3>3
  <2>2. CASE now(c) # {}
    <3>1. was(c) # {}
      BY <1>4, <2>2
    <3>2. ASSUME NEW i \in now(c), lands(t, i), \A j \in now(c) : j <= i
          PROVE  \E k \in was(c) : lands(q, k) /\ \A j \in was(c) : j <= k
      <4>1. i + 1 \in was(c) /\ lands(q, i + 1) /\ i \in Nat
        BY <1>4, <3>2
      <4>2. ASSUME NEW j \in was(c) PROVE j <= i + 1
        BY <1>4, <3>2, <4>1
      <4> QED BY <4>1, <4>2
    <3>3. ASSUME NEW i \in was(c), lands(q, i), \A j \in was(c) : j <= i
          PROVE  \E k \in now(c) : lands(t, k) /\ \A j \in now(c) : j <= k
      <4>1. i # 1 /\ i \in Nat
        <5>1. PICK k \in now(c) : TRUE
          BY <2>2
        <5>2. k + 1 \in was(c) /\ k >= 1 /\ k \in Nat
          BY <1>4
        <5>3. k + 1 <= i
          BY <3>3, <5>2
        <5> QED BY <1>4, <5>2, <5>3
      <4>2. i - 1 \in now(c) /\ (i - 1) + 1 = i
        BY <1>4, <4>1
      <4>3. lands(t, i - 1)
        BY <1>4, <3>3, <4>2
      <4>4. ASSUME NEW j \in now(c) PROVE j <= i - 1
        <5>1. j + 1 \in was(c) /\ j \in Nat
          BY <1>4
        <5>2. j + 1 <= i
          BY <3>3, <5>1
        <5> QED BY <4>1, <5>1, <5>2
      <4> QED BY <4>2, <4>3, <4>4
    <3> QED BY <1>3, <2>2, <3>1, <3>2, <3>3
  <2> QED BY <2>1, <2>2
<1>6. Pad!BelievedAfter(b, q) \subseteq Pad!Contact
       /\ Pad!BelievedAfter(Says(e, b), t) \subseteq Pad!Contact
  BY <1>3
<1> QED BY <1>5, <1>6 DEF t, e

-----------------------------------------------------------------------------
(* The sequences of events the driver and the service make *)
LEMMA EachHolds ==
  ASSUME Pad!Constants, NEW type
  PROVE  /\ Len(Pad!Each(type)) = Contacts /\ DOMAIN Pad!Each(type) = 1 .. Contacts
         /\ \A e : Holds(Pad!Each(type), e) <=> \E c \in Pad!Contact : e = Pad!Event(type, c)
<1>1. DOMAIN Pad!Each(type) = 1 .. Contacts
  BY DEF Pad!Each, Pad!Contact
<1>2. Len(Pad!Each(type)) = Contacts
  <2>1. Pad!Each(type) \in Seq({Pad!Event(type, c) : c \in Pad!Contact})
    <3>1. \A c \in 1 .. Contacts : Pad!Each(type)[c] \in {Pad!Event(type, d) : d \in Pad!Contact}
      BY DEF Pad!Each, Pad!Contact
    <3>2. Contacts \in Nat
      BY DEF Pad!Constants
    <3> QED BY <3>1, <3>2 DEF Pad!Each, Pad!Contact
  <2> QED BY <1>1, <2>1 DEF Pad!Constants
<1>3. \A e : Holds(Pad!Each(type), e) <=> \E c \in Pad!Contact : e = Pad!Event(type, c)
  BY <1>1 DEF Holds, Pad!Each, Pad!Contact
<1> QED BY <1>1, <1>2, <1>3

LEMMA CancelsHold ==
  ASSUME Pad!Constants, NEW S \in SUBSET Pad!Contact
  PROVE  /\ Pad!Cancels(S) \in Seq(Pad!PointerEvent) /\ Len(Pad!Cancels(S)) <= Contacts
         /\ \A e : Holds(Pad!Cancels(S), e) <=> \E c \in S : e = Pad!Event("CANCEL", c)
<1> DEFINE T == {e \in Pad!PointerEvent : e.contact \in S}
           each == Pad!Each("CANCEL")
<1>1. /\ Len(each) = Contacts /\ DOMAIN each = 1 .. Contacts /\ Contacts \in Nat
      /\ \A e : Holds(each, e) <=> \E c \in Pad!Contact : e = Pad!Event("CANCEL", c)
  BY EachHolds DEF Pad!Constants
<1> HIDE DEF each, T
<1>2. /\ Pad!Select(each, T) \in Seq(T) /\ Len(Pad!Select(each, T)) <= Contacts
      /\ \A e : Holds(Pad!Select(each, T), e) <=> e \in T /\ Holds(each, e)
  BY <1>1, SelectSelects
<1>3. Pad!Cancels(S) = Pad!Select(each, T)
  BY DEF Pad!Cancels, each, T
<1>4. Pad!Select(each, T) \in Seq(Pad!PointerEvent)
  <2>1. T \subseteq Pad!PointerEvent
    BY DEF T
  <2> QED BY <1>2, <2>1
<1>5. \A e : e \in T /\ (\E c \in Pad!Contact : e = Pad!Event("CANCEL", c))
               <=> \E c \in S : e = Pad!Event("CANCEL", c)
  <2>1. \A c \in Pad!Contact : /\ Pad!Event("CANCEL", c) \in Pad!PointerEvent
                               /\ Pad!Event("CANCEL", c).contact = c
    BY DEF Pad!Event, Pad!PointerEvent
  <2> QED BY <2>1 DEF T
<1> QED BY <1>1, <1>2, <1>3, <1>4, <1>5

LEMMA BelievedCancels ==
  ASSUME Pad!Constants, NEW S \in SUBSET Pad!Contact, NEW b \in SUBSET Pad!Contact
  PROVE  Pad!BelievedAfter(b, Pad!Cancels(S)) = b \ S
<1> DEFINE q == Pad!Cancels(S)
           about(c) == {i \in DOMAIN q : q[i].contact = c}
<1>1. \A e : Holds(q, e) <=> \E c \in S : e = Pad!Event("CANCEL", c)
  BY CancelsHold
<1> HIDE DEF q
<1>2. ASSUME NEW c \in Pad!Contact, c \notin S PROVE about(c) = {}
  <2>1. SUFFICES ASSUME NEW i \in DOMAIN q, q[i].contact = c PROVE FALSE
    OBVIOUS
  <2>2. PICK d \in S : q[i] = Pad!Event("CANCEL", d)
    BY <1>1 DEF Holds
  <2> QED BY <1>2, <2>1, <2>2 DEF Pad!Event
<1>3. ASSUME NEW c \in S PROVE about(c) # {}
  <2>1. Holds(q, Pad!Event("CANCEL", c))
    BY <1>1
  <2> QED BY <2>1 DEF Holds, Pad!Event
<1>4. ASSUME NEW i \in DOMAIN q PROVE q[i].type \notin {"DOWN", "MOVE"}
  <2>1. PICK d \in S : q[i] = Pad!Event("CANCEL", d)
    BY <1>1 DEF Holds
  <2> QED BY <2>1 DEF Pad!Event
<1> QED BY <1>2, <1>3, <1>4 DEF Pad!BelievedAfter, q

LEMMA LeastExists ==
  ASSUME NEW S \in SUBSET Nat, S # {}
  PROVE  Pad!Min(S) \in S
<1> DEFINE R == {ss \in Nat \X Nat : ss[1] < ss[2]}
<1>1. IsWellFoundedOn(R, Nat)
  BY NatLessThanWellFounded, Zenon DEF OpToRel
<1>2. PICK x \in S : \A y \in S : ~ (<<y, x>> \in R)
  <2> HIDE DEF R
  <2> QED BY <1>1, WFMin
<1>3. ASSUME NEW y \in S PROVE x <= y
  <2>1. x \in Nat /\ y \in Nat
    OBVIOUS
  <2>2. ~ (<<y, x>> \in R)
    BY <1>2
  <2>3. ~ (y < x)
    BY <2>1, <2>2
  <2> QED BY <2>1, <2>3
<1> QED BY <1>3 DEF Pad!Min

(* The sequence says something of these types about the contact. *)
Tells(q, types, c) == \E e \in Pad!PointerEvent : Holds(q, e) /\ e.type \in types /\ e.contact = c

LEMMA TellsTail ==
  ASSUME NEW q \in Seq(Pad!PointerEvent), q # <<>>, NEW types, NEW c
  PROVE  Tells(q, types, c)
           <=> (Head(q).type \in types /\ Head(q).contact = c) \/ Tells(Tail(q), types, c)
<1>1. Head(q) \in Pad!PointerEvent
  OBVIOUS
<1>2. \A e : Holds(q, e) <=> Head(q) = e \/ Holds(Tail(q), e)
  BY HoldsTail
<1> QED BY <1>1, <1>2 DEF Tells

(* Where reconcile may have the contacts *)
Positions == [Pad!Contact -> Nat \cup {Pad!Up}]

LEMMA ReconciledIsTyped ==
  ASSUME NEW points \in Seq(Nat), NEW m
  PROVE  Pad!Reconciled(points, m) \in Positions
<1> DEFINE rest == {i \in DOMAIN points : m[i] = 0}
           goesTo(i) == {c \in Pad!Contact \ Pad!Active(state) :
                           Pad!Cardinality({d \in 1 .. c - 1 : state[d] = Pad!Up})
                             = Pad!Cardinality({j \in rest : j < i})}
           of(c) == {i \in DOMAIN points : m[i] = c} \cup {i \in rest : c \in goesTo(i)}
<1>1. Pad!Reconciled(points, m) =
            [c \in Pad!Contact |-> IF of(c) = {} THEN Pad!Up ELSE points[Pad!Min(of(c))]]
  BY DEF Pad!Reconciled
<1>2. ASSUME NEW c \in Pad!Contact PROVE of(c) \subseteq DOMAIN points
  OBVIOUS
<1> HIDE DEF of
<1>3. ASSUME NEW c \in Pad!Contact, of(c) # {} PROVE points[Pad!Min(of(c))] \in Nat
  <2>1. DOMAIN points \subseteq Nat /\ \A i \in DOMAIN points : points[i] \in Nat
    OBVIOUS
  <2>2. of(c) \in SUBSET Nat
    BY <1>2, <2>1
  <2>3. Pad!Min(of(c)) \in of(c)
    BY <1>3, <2>2, LeastExists
  <2> QED BY <1>2, <2>1, <2>3
<1> QED BY <1>1, <1>3 DEF Positions

(* What ReadPoints submits: a DOWN for exactly the contacts that land, an UP or
   CANCEL for exactly those that leave. *)
LEMMA EventsTell ==
  ASSUME Pad!Constants, NEW points \in Seq(Nat), NEW m, NEW new
  PROVE  /\ Pad!Events(points, m, new) \in Seq(Pad!PointerEvent)
         /\ \A c \in Pad!Contact :
              /\ Tells(Pad!Events(points, m, new), {"DOWN"}, c)
                   <=> state[c] = Pad!Up /\ new[c] # Pad!Up
              /\ Tells(Pad!Events(points, m, new), {"UP", "CANCEL"}, c)
                   <=> state[c] # Pad!Up /\ new[c] = Pad!Up
<1> DEFINE moved == {e \in Pad!PointerEvent : new[e.contact] # state[e.contact]}
           lifted == {e \in Pad!PointerEvent : state[e.contact] # Pad!Up /\ new[e.contact] = Pad!Up}
           landed == {e \in Pad!PointerEvent : state[e.contact] = Pad!Up /\ new[e.contact] # Pad!Up}
           moves == [i \in DOMAIN points |-> Pad!Event("MOVE", m[i])]
           first == Pad!Select(moves, moved)
           second == Pad!Select(Pad!Each("UP"), lifted)
           third == Pad!Select(Pad!Each("DOWN"), landed)
<1>1. Pad!Events(points, m, new) = first \o second \o third
  BY DEF Pad!Events
<1>2. moved \subseteq Pad!PointerEvent /\ lifted \subseteq Pad!PointerEvent
       /\ landed \subseteq Pad!PointerEvent
  OBVIOUS
<1>3. /\ Len(moves) \in Nat /\ DOMAIN moves = 1 .. Len(moves)
      /\ \A e : Holds(moves, e) => e.type = "MOVE"
  <2>1. moves \in Seq({Pad!Event("MOVE", m[i]) : i \in DOMAIN points})
    <3>1. DOMAIN points = 1 .. Len(points) /\ Len(points) \in Nat
      OBVIOUS
    <3> QED BY <3>1
  <2>2. DOMAIN moves = DOMAIN points /\ \A i \in DOMAIN points : moves[i] = Pad!Event("MOVE", m[i])
    OBVIOUS
  <2> HIDE DEF moves
  <2> QED BY <2>1, <2>2 DEF Holds, Pad!Event
<1> HIDE DEF moves
<1>4. first \in Seq(moved) /\ \A e : Holds(first, e) <=> e \in moved /\ Holds(moves, e)
  <2> HIDE DEF moved
  <2> QED BY <1>3, SelectSelects
<1>5. /\ second \in Seq(lifted)
      /\ \A e : Holds(second, e) <=> e \in lifted /\ \E c \in Pad!Contact : e = Pad!Event("UP", c)
  <2> HIDE DEF lifted
  <2>1. /\ Len(Pad!Each("UP")) \in Nat /\ DOMAIN Pad!Each("UP") = 1 .. Len(Pad!Each("UP"))
        /\ \A e : Holds(Pad!Each("UP"), e) <=> \E c \in Pad!Contact : e = Pad!Event("UP", c)
    BY EachHolds DEF Pad!Constants
  <2> QED BY <2>1, SelectSelects
<1>6. /\ third \in Seq(landed)
      /\ \A e : Holds(third, e) <=> e \in landed /\ \E c \in Pad!Contact : e = Pad!Event("DOWN", c)
  <2> HIDE DEF landed
  <2>1. /\ Len(Pad!Each("DOWN")) \in Nat /\ DOMAIN Pad!Each("DOWN") = 1 .. Len(Pad!Each("DOWN"))
        /\ \A e : Holds(Pad!Each("DOWN"), e) <=> \E c \in Pad!Contact : e = Pad!Event("DOWN", c)
    BY EachHolds DEF Pad!Constants
  <2> QED BY <2>1, SelectSelects
<1> HIDE DEF first, second, third
<1>7. /\ first \in Seq(Pad!PointerEvent) /\ second \in Seq(Pad!PointerEvent)
      /\ third \in Seq(Pad!PointerEvent) /\ first \o second \in Seq(Pad!PointerEvent)
      /\ Pad!Events(points, m, new) \in Seq(Pad!PointerEvent)
  <2>1. first \in Seq(Pad!PointerEvent) /\ second \in Seq(Pad!PointerEvent)
        /\ third \in Seq(Pad!PointerEvent)
    <3> HIDE DEF moved, lifted, landed
    <3> QED BY <1>2, <1>4, <1>5, <1>6
  <2> QED BY <1>1, <2>1
<1>8. \A e : Holds(Pad!Events(points, m, new), e)
               <=> Holds(first, e) \/ Holds(second, e) \/ Holds(third, e)
  <2>1. \A e : Holds(first \o second, e) <=> Holds(first, e) \/ Holds(second, e)
    BY <1>7, HoldsConcat
  <2> DEFINE both == first \o second
  <2>2. \A e : Holds(both \o third, e) <=> Holds(both, e) \/ Holds(third, e)
    <3> HIDE DEF both
    <3>1. both \in Seq(Pad!PointerEvent)
      BY <1>7 DEF both
    <3> QED BY <1>7, <3>1, HoldsConcat
  <2> QED BY <1>1, <2>1, <2>2
<1>9. ASSUME NEW c \in Pad!Contact
      PROVE  /\ Pad!Event("UP", c) \in Pad!PointerEvent /\ Pad!Event("UP", c).type = "UP"
             /\ Pad!Event("UP", c).contact = c
             /\ Pad!Event("DOWN", c) \in Pad!PointerEvent /\ Pad!Event("DOWN", c).type = "DOWN"
             /\ Pad!Event("DOWN", c).contact = c
  BY DEF Pad!Event, Pad!PointerEvent
<1>10. ASSUME NEW c \in Pad!Contact
       PROVE  Tells(Pad!Events(points, m, new), {"DOWN"}, c)
                <=> state[c] = Pad!Up /\ new[c] # Pad!Up
  <2>1. ASSUME NEW e \in Pad!PointerEvent, Holds(Pad!Events(points, m, new), e), e.type = "DOWN",
               e.contact = c
        PROVE  state[c] = Pad!Up /\ new[c] # Pad!Up
    <3>1. ~Holds(first, e) /\ ~Holds(second, e)
      BY <1>3, <1>4, <1>5, <1>9, <2>1
    <3> QED BY <1>6, <1>8, <2>1, <3>1
  <2>2. ASSUME state[c] = Pad!Up /\ new[c] # Pad!Up
        PROVE  Holds(Pad!Events(points, m, new), Pad!Event("DOWN", c))
    BY <1>6, <1>8, <1>9, <2>2
  <2> QED BY <1>9, <2>1, <2>2 DEF Tells
<1>11. ASSUME NEW c \in Pad!Contact
       PROVE  Tells(Pad!Events(points, m, new), {"UP", "CANCEL"}, c)
                <=> state[c] # Pad!Up /\ new[c] = Pad!Up
  <2>1. ASSUME NEW e \in Pad!PointerEvent, Holds(Pad!Events(points, m, new), e),
               e.type \in {"UP", "CANCEL"}, e.contact = c
        PROVE  state[c] # Pad!Up /\ new[c] = Pad!Up
    <3>1. ~Holds(first, e) /\ ~Holds(third, e)
      BY <1>3, <1>4, <1>6, <1>9, <2>1
    <3> QED BY <1>5, <1>8, <2>1, <3>1
  <2>2. ASSUME state[c] # Pad!Up /\ new[c] = Pad!Up
        PROVE  Holds(Pad!Events(points, m, new), Pad!Event("UP", c))
    BY <1>5, <1>8, <1>9, <2>2
  <2> QED BY <1>9, <2>1, <2>2 DEF Tells
<1> QED BY <1>7, <1>10, <1>11

(* What a failed read submits: a CANCEL for every contact that was down *)
LEMMA CancelsTell ==
  ASSUME Pad!Constants, NEW S \in SUBSET Pad!Contact
  PROVE  \A c \in Pad!Contact : /\ ~Tells(Pad!Cancels(S), {"DOWN"}, c)
                                /\ Tells(Pad!Cancels(S), {"UP", "CANCEL"}, c) <=> c \in S
<1>1. \A e : Holds(Pad!Cancels(S), e) <=> \E c \in S : e = Pad!Event("CANCEL", c)
  BY CancelsHold
<1>2. \A c \in Pad!Contact : /\ Pad!Event("CANCEL", c) \in Pad!PointerEvent
                             /\ Pad!Event("CANCEL", c).type = "CANCEL"
                             /\ Pad!Event("CANCEL", c).contact = c
  BY DEF Pad!Event, Pad!PointerEvent
<1> QED BY <1>1, <1>2 DEF Tells

(* Between the parts of a drain the service has the contacts of the last
   report; within one, all but those about which there is more to submit. *)
PowerIsKept ==
  /\ at \in {"submit", "faulting"} => \A c \in Pad!Contact :
       /\ Tells(touchTodo, {"DOWN"}, c) => state[c] # Pad!Up
       /\ Tells(touchTodo, {"UP", "CANCEL"}, c) => state[c] = Pad!Up
       /\ ~Tells(touchTodo, {"DOWN"}, c) /\ ~Tells(touchTodo, {"UP", "CANCEL"}, c)
            => (c \in power <=> state[c] # Pad!Up)
  /\ at \notin {"submit", "faulting"} => power = Pad!Active(state)
  /\ at = "faulting" => Pad!Active(state) = {}
  /\ at = "idle" => held = (power # {})
  /\ at \in {"read", "level"} => touchLeft > 0

(* The stream of a program that believes some contacts are down, some of them
   wrongly *)
Sound(s, known, wrongly, fore, opens) ==
  /\ s.open => ~opens /\ Pad!BelievedAfter(known, s.queue) = s.contacts \cup wrongly
  /\ ~s.open => s = Pad!Closed /\ known = {} /\ wrongly = {}
  /\ wrongly \subseteq known /\ wrongly \cap s.contacts = {}
  /\ \A e \in Pad!PointerEvent : Holds(s.queue, e) => e.contact \notin wrongly
  /\ ~fore \/ s.hangup =>
       /\ s.contacts = {}
       /\ \A e \in Pad!PointerEvent : Holds(s.queue, e) => e.type = "CANCEL"

(* For every program *)
Streams ==
  \A o \in Owner : Sound(stream[o], believed[o], lost[o], o = foreground, o \in opening)

(* The inductive invariant. That a contact is stuck only for a release that was
   dropped is not kept by itself: no event of such a contact may be queued, and
   a hung up or withdrawn stream may hold only cancellations. *)
TouchInv == Pad!Constants /\ Pad!TypeOK /\ PowerIsKept /\ Streams

(* submit on a full queue, a lost foreground and a removed device all cancel
   the stream: what was believed and not among its contacts is lost. *)
LEMMA CancelledIsSound ==
  ASSUME Pad!Constants, NEW s \in Pad!Stream, NEW b \in SUBSET Pad!Contact,
         NEW l \in SUBSET Pad!Contact,
         NEW f, NEW g, NEW p, Sound(s, b, l, f, p), s.open,
         NEW h \in BOOLEAN
  PROVE  LET r == [Pad!Cancelled(s) EXCEPT !.hangup = h] IN
         /\ r \in Pad!Stream /\ Len(r.queue) < TouchCapacity /\ r.open /\ r.hangup = h
         /\ Sound(r, b, l \cup (b \ s.contacts), g, p)
<1> DEFINE r == [Pad!Cancelled(s) EXCEPT !.hangup = h]
           q == Pad!Cancels(s.contacts)
           k == l \cup (b \ s.contacts)
<1>1. s.contacts \in SUBSET Pad!Contact /\ s.queue \in Seq(Pad!PointerEvent)
  BY DEF Pad!Stream
<1>2. /\ q \in Seq(Pad!PointerEvent) /\ Len(q) <= Contacts
      /\ \A e : Holds(q, e) <=> \E c \in s.contacts : e = Pad!Event("CANCEL", c)
      /\ Pad!BelievedAfter(b, q) = b \ s.contacts
  BY <1>1, CancelsHold, BelievedCancels
<1>3. r = [s EXCEPT !.queue = q, !.contacts = {}, !.hangup = h]
  BY DEF Pad!Cancelled, Pad!Stream
<1> HIDE DEF q, r
<1>4. /\ r.open = s.open /\ r.queue = q /\ r.contacts = {} /\ r.hangup = h /\ r \in Pad!Stream
  BY <1>2, <1>3 DEF Pad!Stream
<1>5. Len(r.queue) < TouchCapacity
  BY <1>2, <1>4 DEF Pad!Constants
<1>6. l \subseteq b /\ l \cap s.contacts = {} /\ ~p
  BY DEF Sound
<1>7. k = b \ s.contacts /\ k \subseteq b
  BY <1>6
<1>8. \A e : Holds(q, e) => e.type = "CANCEL" /\ e.contact \in s.contacts
  BY <1>2 DEF Pad!Event
<1> HIDE DEF k
<1>9. Sound(r, b, k, g, p)
  BY <1>2, <1>4, <1>6, <1>7, <1>8 DEF Sound
<1> QED BY <1>4, <1>5, <1>9 DEF r, k

(* An event that finds room is believed, and repairs what was lost of its
   contact. *)
LEMMA EnqueuedIsSound ==
  ASSUME Pad!Constants, NEW s \in Pad!Stream, NEW b \in SUBSET Pad!Contact,
         NEW l \in SUBSET Pad!Contact,
         NEW p, Sound(s, b, l, TRUE, p), s.open, ~s.hangup, Len(s.queue) < TouchCapacity,
         NEW e \in Pad!PointerEvent
  PROVE  /\ Pad!Enqueued(s, e) \in Pad!Stream /\ Len(Pad!Enqueued(s, e).queue) <= TouchCapacity
         /\ Sound(Pad!Enqueued(s, e), b, l \ {e.contact}, TRUE, p)
<1> DEFINE r == Pad!Enqueued(s, e)
           q == Append(s.queue, e)
           contacts == IF e.type \in {"DOWN", "MOVE"} THEN s.contacts \cup {e.contact}
                       ELSE s.contacts \ {e.contact}
<1>1. s.contacts \in SUBSET Pad!Contact /\ s.queue \in Seq(Pad!PointerEvent)
       /\ e.contact \in Pad!Contact
  BY DEF Pad!Stream, Pad!PointerEvent
<1>2. /\ q \in Seq(Pad!PointerEvent) /\ Len(q) = Len(s.queue) + 1 /\ Len(s.queue) \in Nat
      /\ \A d : Holds(q, d) <=> Holds(s.queue, d) \/ e = d
      /\ Pad!BelievedAfter(b, q) = Says(e, Pad!BelievedAfter(b, s.queue))
  <2>1. \A d : Holds(q, d) <=> Holds(s.queue, d) \/ e = d
    BY <1>1, HoldsAppend
  <2> QED BY <1>1, <2>1, BelievedAppend
<1>3. r = [s EXCEPT !.queue = q, !.contacts = contacts]
  BY DEF Pad!Enqueued
<1>4. contacts \in SUBSET Pad!Contact
  BY <1>1
<1> HIDE DEF q, r, contacts
<1>5. r.open /\ r.queue = q /\ r.contacts = contacts /\ ~r.hangup /\ r \in Pad!Stream
  BY <1>2, <1>3, <1>4 DEF Pad!Stream
<1>6. Len(r.queue) <= TouchCapacity
  BY <1>2, <1>5 DEF Pad!Constants
<1>7. /\ ~p /\ Pad!BelievedAfter(b, s.queue) = s.contacts \cup l
      /\ l \subseteq b /\ l \cap s.contacts = {}
      /\ \A d \in Pad!PointerEvent : Holds(s.queue, d) => d.contact \notin l
  BY DEF Sound
<1>8. Says(e, s.contacts \cup l) = contacts \cup (l \ {e.contact})
  BY DEF Says, contacts
<1>9. (l \ {e.contact}) \cap contacts = {}
  BY <1>7 DEF contacts
<1>10. \A d \in Pad!PointerEvent : Holds(q, d) => d.contact \notin l \ {e.contact}
  BY <1>2, <1>7
<1>11. Sound(r, b, l \ {e.contact}, TRUE, p)
  BY <1>2, <1>5, <1>7, <1>8, <1>9, <1>10 DEF Sound
<1> QED BY <1>5, <1>6, <1>11 DEF r

(* What submit makes of lost *)
Losing(o, e) ==
  IF ~Pad!Serves(o) THEN lost[o]
  ELSE (IF Pad!Full(o) THEN lost[o] \cup Pad!Dropped(o) ELSE lost[o]) \ {e.contact}

(* Whichever of these submit does, the stream is sound again. *)
LEMMA SubmittedIsSound ==
  ASSUME Pad!Constants, Pad!TypeOK, Streams, NEW o \in Owner, NEW e \in Pad!PointerEvent
  PROVE  /\ Pad!Submitted(o, e) \in Pad!Stream /\ Len(Pad!Submitted(o, e).queue) <= TouchCapacity
         /\ Losing(o, e) \in SUBSET Pad!Contact
         /\ Sound(Pad!Submitted(o, e), believed[o], Losing(o, e), o = foreground, o \in opening)
<1> DEFINE s == stream[o]
           b == believed[o]
           l == lost[o]
           p == o \in opening
<1>1. /\ s \in Pad!Stream /\ b \in SUBSET Pad!Contact /\ l \in SUBSET Pad!Contact
      /\ Len(s.queue) <= TouchCapacity
  BY DEF Pad!TypeOK
<1>2. Sound(s, b, l, o = foreground, p)
  BY DEF Streams
<1>3. s.open \in BOOLEAN /\ s.hangup \in BOOLEAN /\ s.queue \in Seq(Pad!PointerEvent)
  BY <1>1 DEF Pad!Stream
<1>4. CASE ~Pad!Serves(o)
  BY <1>1, <1>2, <1>4 DEF Pad!Submitted, Losing
<1>5. CASE Pad!Serves(o) /\ ~Pad!Full(o)
  <2>1. s.open /\ ~s.hangup /\ (o = foreground) = TRUE
    BY <1>5 DEF Pad!Serves
  <2>2. Len(s.queue) < TouchCapacity
    BY <1>1, <1>3, <1>5 DEF Pad!Full, Pad!Constants
  <2>3. Pad!Submitted(o, e) = Pad!Enqueued(s, e) /\ Losing(o, e) = l \ {e.contact}
    BY <1>5 DEF Pad!Submitted, Losing
  <2> HIDE DEF s, b, l, p
  <2>4. /\ Pad!Enqueued(s, e) \in Pad!Stream /\ Len(Pad!Enqueued(s, e).queue) <= TouchCapacity
        /\ Sound(Pad!Enqueued(s, e), b, l \ {e.contact}, TRUE, p)
    BY <1>1, <1>2, <2>1, <2>2, EnqueuedIsSound
  <2> QED BY <1>1, <2>1, <2>3, <2>4 DEF b, p
<1>6. CASE Pad!Serves(o) /\ Pad!Full(o)
  <2> DEFINE r == [Pad!Cancelled(s) EXCEPT !.hangup = FALSE]
             k == l \cup (b \ s.contacts)
  <2>1. s.open /\ ~s.hangup /\ (o = foreground) = TRUE
    BY <1>6 DEF Pad!Serves
  <2>2. Losing(o, e) = k \ {e.contact}
    BY <1>6 DEF Losing, Pad!Dropped
  <2>3. Pad!Submitted(o, e) = Pad!Enqueued(r, e)
    <3>1. Pad!Cancelled(s) = r
      BY <1>1, <2>1 DEF Pad!Cancelled, Pad!Stream
    <3> HIDE DEF r, s
    <3> QED BY <1>6, <3>1 DEF Pad!Submitted, s
  <2> HIDE DEF s, b, l, p
  <2>4. /\ r \in Pad!Stream /\ Len(r.queue) < TouchCapacity /\ r.open /\ r.hangup = FALSE
        /\ Sound(r, b, k, TRUE, p)
    BY <1>1, <1>2, <2>1, CancelledIsSound
  <2>5. k \in SUBSET Pad!Contact
    BY <1>1
  <2> HIDE DEF r, k
  <2>6. /\ Pad!Enqueued(r, e) \in Pad!Stream /\ Len(Pad!Enqueued(r, e).queue) <= TouchCapacity
        /\ Sound(Pad!Enqueued(r, e), b, k \ {e.contact}, TRUE, p)
    BY <1>1, <2>4, <2>5, EnqueuedIsSound
  <2> QED BY <2>1, <2>2, <2>3, <2>5, <2>6 DEF b, p
<1> QED BY <1>4, <1>5, <1>6

(* Touch, its invariant *)
LEMMA TouchInit == Pad!Constants /\ Pad!Init => TouchInv
<1> SUFFICES ASSUME Pad!Constants, Pad!Init PROVE TouchInv
  OBVIOUS
<1> USE DEF Pad!Init
<1>1. Pad!Closed \in Pad!Stream /\ Len(Pad!Closed.queue) = 0 /\ Pad!Closed.queue = <<>>
      /\ ~Pad!Closed.open
      /\ Pad!Closed.contacts = {} /\ ~Pad!Closed.hangup
  BY DEF Pad!Closed, Pad!Stream
<1>2. Pad!TypeOK
  <2>1. panel \in Reports /\ touches \in 0 .. MaxTouches /\ touchLeft \in 0 .. TouchPasses
    BY DEF Pad!Constants
  <2>2. state \in [Pad!Contact -> Nat \cup {Pad!Up}] /\ touchTodo \in Seq(Pad!PointerEvent)
    OBVIOUS
  <2>3. stream \in [Owner -> Pad!Stream] /\ \A o \in Owner : Len(stream[o].queue) <= TouchCapacity
    BY <1>1 DEF Pad!Constants
  <2>4. believed \in [Owner -> SUBSET Pad!Contact] /\ lost \in [Owner -> SUBSET Pad!Contact]
    OBVIOUS
  <2>5. /\ line \in BOOLEAN /\ touchEdge \in {"none", "handler", "notify"}
        /\ touchFlag \in BOOLEAN /\ touchOwed \in BOOLEAN /\ ready \in BOOLEAN
        /\ at = "idle" /\ detected \in BOOLEAN /\ foreground \in Owner \cup {NoOwner}
        /\ opening \in SUBSET Owner /\ power \in SUBSET Pad!Contact /\ held \in BOOLEAN
    OBVIOUS
  <2> HIDE DEF Pad!Init
  <2> QED BY <2>1, <2>2, <2>3, <2>4, <2>5 DEF Pad!TypeOK
<1>3. PowerIsKept
  BY DEF PowerIsKept, Pad!Active
<1>4. ASSUME NEW o \in Owner
      PROVE  Sound(stream[o], believed[o], lost[o], o = foreground, o \in opening)
  <2>1. stream[o] = Pad!Closed /\ believed[o] = {} /\ lost[o] = {}
    OBVIOUS
  <2>2. \A e : ~Holds(<<>>, e)
    BY DEF Holds
  <2> QED BY <1>1, <2>1, <2>2 DEF Sound
<1> QED BY <1>2, <1>3, <1>4 DEF TouchInv, Streams

(* A stream that is closed, and every step, keep the types. *)
LEMMA ClosedIsTyped ==
  ASSUME Pad!Constants
  PROVE  /\ Pad!Closed \in Pad!Stream /\ Len(Pad!Closed.queue) <= TouchCapacity
         /\ [Pad!Closed EXCEPT !.open = TRUE] \in Pad!Stream
         /\ Len([Pad!Closed EXCEPT !.open = TRUE].queue) <= TouchCapacity
<1>1. Len(<<>>) = 0 /\ 0 <= TouchCapacity /\ <<>> \in Seq(Pad!PointerEvent)
  BY DEF Pad!Constants
<1>2. Pad!Closed \in Pad!Stream /\ Pad!Closed.queue = <<>>
  BY <1>1 DEF Pad!Closed, Pad!Stream
<1> HIDE DEF Pad!Closed
<1>3. [Pad!Closed EXCEPT !.open = TRUE] \in Pad!Stream
      /\ [Pad!Closed EXCEPT !.open = TRUE].queue = <<>>
  BY <1>2 DEF Pad!Stream
<1> QED BY <1>1, <1>2, <1>3

LEMMA TouchTypeNext ==
  ASSUME Pad!Constants, Pad!TypeOK, PowerIsKept, Streams, [Pad!Next]_(Pad!vars)
  PROVE  Pad!TypeOK'
<1> USE DEF Pad!TypeOK, Pad!external, Pad!driver, Pad!service, Pad!programs, Pad!Rest
<1>0. /\ \A r \in Reports : r \in Seq(Nat)
      /\ MaxTouches \in Nat /\ TouchPasses \in Nat \ {0}
  BY DEF Pad!Constants
<1>1. CASE Pad!FingersMove
  <2>1. touches' \in 0 .. MaxTouches /\ panel' \in Reports
    BY <1>0, <1>1 DEF Pad!FingersMove
  <2> QED BY <1>1, <2>1 DEF Pad!FingersMove
<1>2. CASE Pad!Interrupt BY <1>2 DEF Pad!Interrupt
<1>3. CASE Pad!InterruptNotify BY <1>3 DEF Pad!InterruptNotify
<1>4. CASE Pad!Wake BY <1>4 DEF Pad!Wake
<1>5. CASE Pad!Exchange
  <2>1. touchLeft' \in 0 .. TouchPasses /\ at' \in {"read", "level"} /\ touchFlag' = FALSE
    BY <1>0, <1>5 DEF Pad!Exchange
  <2> QED BY <1>5, <2>1 DEF Pad!Exchange
<1>6. CASE Pad!Level BY <1>6 DEF Pad!Level
<1>7. CASE Pad!ReadPoints
  <2>1. panel \in Seq(Nat)
    BY <1>0
  <2>2. /\ state' = Pad!Reconciled(panel, Pad!Matching(panel))
        /\ touchTodo' = Pad!Events(panel, Pad!Matching(panel),
                                Pad!Reconciled(panel, Pad!Matching(panel)))
    BY <1>7 DEF Pad!ReadPoints
  <2>3. state' \in [Pad!Contact -> Nat \cup {Pad!Up}]
    BY <2>1, <2>2, ReconciledIsTyped DEF Positions
  <2>4. touchTodo' \in Seq(Pad!PointerEvent)
    BY <2>1, <2>2, EventsTell
  <2>5. touchLeft' \in 0 .. TouchPasses
    BY <1>0, <1>7 DEF Pad!ReadPoints, PowerIsKept
  <2>6. line' \in BOOLEAN /\ at' = "submit"
    BY <1>7 DEF Pad!ReadPoints
  <2> QED BY <1>7, <2>3, <2>4, <2>5, <2>6 DEF Pad!ReadPoints
<1>8. CASE Pad!ReadFails
  <2>1. Pad!Cancels(Pad!Active(state)) \in Seq(Pad!PointerEvent)
    BY CancelsHold DEF Pad!Active
  <2> QED BY <1>8, <2>1 DEF Pad!ReadFails
<1>9. CASE Pad!SubmitNext
  <2> DEFINE e == Head(touchTodo)
  <2>1. e \in Pad!PointerEvent /\ Tail(touchTodo) \in Seq(Pad!PointerEvent)
    BY <1>9 DEF Pad!SubmitNext
  <2>2. e.contact \in Pad!Contact
    BY <2>1 DEF Pad!PointerEvent
  <2>3. Pad!submit(e) /\ touchTodo' = Tail(touchTodo)
    BY <1>9 DEF Pad!SubmitNext
  <2> HIDE DEF e
  <2>4. /\ stream' = [o \in Owner |-> Pad!Submitted(o, e)]
        /\ lost' = [o \in Owner |-> Losing(o, e)]
        /\ UNCHANGED <<detected, foreground>>
    BY <2>3 DEF Pad!submit, Losing
  <2>5. \A o \in Owner : /\ Pad!Submitted(o, e) \in Pad!Stream
                         /\ Len(Pad!Submitted(o, e).queue) <= TouchCapacity
                         /\ Losing(o, e) \in SUBSET Pad!Contact
    BY <2>1, SubmittedIsSound
  <2>6. /\ stream' \in [Owner -> Pad!Stream]
        /\ \A o \in Owner : Len(stream'[o].queue) <= TouchCapacity
        /\ lost' \in [Owner -> SUBSET Pad!Contact]
    BY <2>4, <2>5
  <2>7. power' \in SUBSET Pad!Contact
    BY <2>2, <2>3 DEF Pad!submit
  <2>8. UNCHANGED <<touchFlag, touchOwed, ready, at, touchLeft, state, Pad!Rest>>
    BY <1>9 DEF Pad!SubmitNext
  <2> QED BY <2>1, <2>3, <2>4, <2>6, <2>7, <2>8
<1>10. CASE Pad!Asserted BY <1>10 DEF Pad!Asserted
<1>11. CASE Pad!AfterDrain BY <1>11 DEF Pad!AfterDrain
<1>12. CASE Pad!Rearm BY <1>12 DEF Pad!Rearm
<1>13. ASSUME NEW o \in Owner, stream[o].open, NEW h \in BOOLEAN
       PROVE  /\ [Pad!Cancelled(stream[o]) EXCEPT !.hangup = h] \in Pad!Stream
              /\ Len([Pad!Cancelled(stream[o]) EXCEPT !.hangup = h].queue) < TouchCapacity
  <2> DEFINE s == stream[o]
  <2>1. s \in Pad!Stream /\ believed[o] \in SUBSET Pad!Contact /\ lost[o] \in SUBSET Pad!Contact
    OBVIOUS
  <2>2. Sound(s, believed[o], lost[o], o = foreground, o \in opening)
    BY DEF Streams
  <2> HIDE DEF s, Pad!TypeOK
  <2> QED BY <1>13, <2>1, <2>2, CancelledIsSound DEF s
<1>14. CASE Pad!Fault
  <2>1. Pad!RemoveDevice
    BY <1>14 DEF Pad!Fault
  <2>2. stream' \in [Owner -> Pad!Stream] /\ \A o \in Owner : Len(stream'[o].queue) <= TouchCapacity
    <3>1. \A o \in Owner : stream'[o] = IF stream[o].open
                                         THEN [Pad!Cancelled(stream[o]) EXCEPT !.hangup = TRUE]
                                         ELSE stream[o]
      BY <2>1 DEF Pad!RemoveDevice
    <3>2. ASSUME NEW o \in Owner
          PROVE stream'[o] \in Pad!Stream /\ Len(stream'[o].queue) <= TouchCapacity
      <4>1. CASE stream[o].open
        <5>1. /\ stream'[o] \in Pad!Stream /\ Len(stream'[o].queue) < TouchCapacity
          BY <1>13, <3>1, <4>1
        <5>2. Len(stream'[o].queue) \in Nat /\ TouchCapacity \in Nat
          BY <5>1 DEF Pad!Stream, Pad!Constants
        <5> QED BY <5>1, <5>2
      <4>2. CASE ~stream[o].open
        BY <3>1, <4>2
      <4> QED BY <4>1, <4>2
    <3> QED BY <2>1, <3>2 DEF Pad!RemoveDevice
  <2>3. lost' \in [Owner -> SUBSET Pad!Contact] /\ power' = {} /\ UNCHANGED foreground
        /\ detected' = FALSE
    BY <2>1 DEF Pad!RemoveDevice, Pad!Dropped
  <2> QED BY <1>14, <2>2, <2>3 DEF Pad!Fault
<1>15. CASE Pad!TellPower BY <1>15 DEF Pad!TellPower
<1>16. ASSUME NEW n \in Owner \cup {NoOwner}, Pad!SetForeground(n) PROVE Pad!TypeOK'
  <2>1. \A o \in Owner : stream'[o] = IF stream[o].open /\ o = foreground
                                       THEN Pad!Cancelled(stream[o]) ELSE stream[o]
    BY <1>16 DEF Pad!SetForeground
  <2>2. ASSUME NEW o \in Owner
        PROVE stream'[o] \in Pad!Stream /\ Len(stream'[o].queue) <= TouchCapacity
    <3>1. CASE stream[o].open /\ o = foreground
      <4>1. stream[o].hangup \in BOOLEAN /\ Pad!Cancelled(stream[o])
              = [Pad!Cancelled(stream[o]) EXCEPT !.hangup = stream[o].hangup]
        BY DEF Pad!Stream, Pad!Cancelled
      <4>2. stream'[o] \in Pad!Stream /\ Len(stream'[o].queue) < TouchCapacity
        BY <1>13, <2>1, <3>1, <4>1
      <4>3. Len(stream'[o].queue) \in Nat /\ TouchCapacity \in Nat
        BY <4>2 DEF Pad!Stream, Pad!Constants
      <4> QED BY <4>2, <4>3
    <3>2. CASE ~(stream[o].open /\ o = foreground)
      BY <2>1, <3>2
    <3> QED BY <3>1, <3>2
  <2>3. stream' \in [Owner -> Pad!Stream] /\ lost' \in [Owner -> SUBSET Pad!Contact]
    BY <1>16, <2>2 DEF Pad!SetForeground, Pad!Dropped
  <2> QED BY <1>16, <2>2, <2>3 DEF Pad!SetForeground
<1>17. ASSUME NEW o \in Owner, Pad!Open(o) PROVE Pad!TypeOK'
  BY <1>17 DEF Pad!Open
<1>18. /\ Pad!Closed \in Pad!Stream /\ Len(Pad!Closed.queue) <= TouchCapacity
       /\ [Pad!Closed EXCEPT !.open = TRUE] \in Pad!Stream
       /\ Len([Pad!Closed EXCEPT !.open = TRUE].queue) <= TouchCapacity
  BY ClosedIsTyped
<1>19. ASSUME NEW o \in Owner, Pad!OpenStream(o) PROVE Pad!TypeOK'
  BY <1>18, <1>19 DEF Pad!OpenStream
<1>20. ASSUME NEW o \in Owner, Pad!Read(o) PROVE Pad!TypeOK'
  <2> DEFINE s == stream[o]
             r == [s EXCEPT !.queue = Tail(s.queue)]
             e == Head(s.queue)
  <2>1. s \in Pad!Stream /\ s.queue \in Seq(Pad!PointerEvent) /\ s.queue # <<>>
        /\ Len(s.queue) <= TouchCapacity
    BY <1>20 DEF Pad!Read, Pad!Stream
  <2>2. e \in Pad!PointerEvent /\ Tail(s.queue) \in Seq(Pad!PointerEvent)
        /\ Len(Tail(s.queue)) <= TouchCapacity
    BY <2>1 DEF Pad!Constants
  <2>3. e.contact \in Pad!Contact
    BY <2>2 DEF Pad!PointerEvent
  <2>4. r \in Pad!Stream /\ Len(r.queue) <= TouchCapacity
    <3> HIDE DEF s, Pad!TypeOK
    <3> QED BY <2>1, <2>2 DEF Pad!Stream
  <2>5. stream' = [stream EXCEPT ![o] = r]
    BY <1>20 DEF Pad!Read
  <2>6. believed' \in [Owner -> SUBSET Pad!Contact]
    BY <1>20, <2>3 DEF Pad!Read
  <2> HIDE DEF r
  <2>7. stream' \in [Owner -> Pad!Stream] /\ \A p \in Owner : Len(stream'[p].queue) <= TouchCapacity
    BY <2>4, <2>5
  <2>8. UNCHANGED <<Pad!external, Pad!driver, detected, foreground, power, held, opening, lost>>
    BY <1>20 DEF Pad!Read
  <2> QED BY <2>6, <2>7, <2>8
<1>21. ASSUME NEW o \in Owner, Pad!Close(o) PROVE Pad!TypeOK'
  BY <1>18, <1>21 DEF Pad!Close, Pad!Forget
<1>22. ASSUME NEW o \in Owner, Pad!CloseOwner(o) PROVE Pad!TypeOK'
  BY <1>18, <1>22 DEF Pad!CloseOwner, Pad!Forget
<1>23. CASE UNCHANGED Pad!vars BY <1>23 DEF Pad!vars
<1> QED
  BY <1>1, <1>2, <1>3, <1>4, <1>5, <1>6, <1>7, <1>8, <1>9, <1>10, <1>11, <1>12, <1>14, <1>15,
     <1>16, <1>17, <1>19, <1>20, <1>21, <1>22, <1>23
  DEF Pad!Next

(* Every step of the drain keeps the service in step with the last report. *)
LEMMA PowerNext ==
  ASSUME Pad!Constants, Pad!TypeOK, PowerIsKept, [Pad!Next]_(Pad!vars)
  PROVE  PowerIsKept'
<1> USE DEF Pad!external, Pad!driver, Pad!service, Pad!programs, Pad!Rest
<1>0. state \in [Pad!Contact -> Nat \cup {Pad!Up}] /\ touchTodo \in Seq(Pad!PointerEvent)
      /\ touchLeft \in Nat
      /\ power \in SUBSET Pad!Contact
  BY DEF Pad!TypeOK, Pad!Constants
<1>1. ASSUME UNCHANGED <<power, state>>, at \notin {"submit", "faulting"},
             at' \notin {"submit", "faulting"},
             at' = "idle" => held' = (power # {}),
             at' \in {"read", "level"} => touchLeft' > 0
      PROVE  PowerIsKept'
  BY <1>1 DEF PowerIsKept, Pad!Active
<1>2. CASE Pad!Exchange
  BY <1>1, <1>2 DEF Pad!Exchange, Pad!Constants
<1>3. CASE Pad!ReadPoints
  <2> DEFINE m == Pad!Matching(panel)
             new == Pad!Reconciled(panel, m)
  <2>1. panel \in Seq(Nat)
    BY DEF Pad!TypeOK, Pad!Constants
  <2>2. state' = new /\ touchTodo' = Pad!Events(panel, m, new) /\ at' = "submit"
        /\ power' = power
    BY <1>3 DEF Pad!ReadPoints
  <2>3. power = Pad!Active(state)
    BY <1>3 DEF Pad!ReadPoints, PowerIsKept
  <2> HIDE DEF m, new
  <2>4. \A c \in Pad!Contact :
          /\ Tells(touchTodo', {"DOWN"}, c) <=> state[c] = Pad!Up /\ new[c] # Pad!Up
          /\ Tells(touchTodo', {"UP", "CANCEL"}, c) <=> state[c] # Pad!Up /\ new[c] = Pad!Up
    BY <2>1, <2>2, EventsTell
  <2>5. \A c \in Pad!Contact : c \in power <=> state[c] # Pad!Up
    BY <2>3 DEF Pad!Active
  <2>6. ASSUME NEW c \in Pad!Contact
        PROVE  /\ Tells(touchTodo', {"DOWN"}, c) => state'[c] # Pad!Up
               /\ Tells(touchTodo', {"UP", "CANCEL"}, c) => state'[c] = Pad!Up
               /\ ~Tells(touchTodo', {"DOWN"}, c) /\ ~Tells(touchTodo', {"UP", "CANCEL"}, c)
                    => (c \in power' <=> state'[c] # Pad!Up)
    BY <2>2, <2>4, <2>5
  <2> QED BY <2>2, <2>6 DEF PowerIsKept
<1>4. CASE Pad!ReadFails
  <2>1. /\ state' = [c \in Pad!Contact |-> Pad!Up] /\ touchTodo' = Pad!Cancels(Pad!Active(state))
        /\ at' = "faulting" /\ power' = power
    BY <1>4 DEF Pad!ReadFails
  <2>2. power = Pad!Active(state)
    BY <1>4 DEF Pad!ReadFails, PowerIsKept
  <2>3. \A c \in Pad!Contact : /\ ~Tells(touchTodo', {"DOWN"}, c)
                               /\ Tells(touchTodo', {"UP", "CANCEL"}, c) <=> c \in Pad!Active(state)
    BY <2>1, CancelsTell DEF Pad!Active
  <2>4. ASSUME NEW c \in Pad!Contact
        PROVE  /\ Tells(touchTodo', {"DOWN"}, c) => state'[c] # Pad!Up
               /\ Tells(touchTodo', {"UP", "CANCEL"}, c) => state'[c] = Pad!Up
               /\ ~Tells(touchTodo', {"DOWN"}, c) /\ ~Tells(touchTodo', {"UP", "CANCEL"}, c)
                    => (c \in power' <=> state'[c] # Pad!Up)
    <3>1. state'[c] = Pad!Up /\ (c \in power' <=> c \in Pad!Active(state))
      BY <2>1, <2>2
    <3>2. /\ ~Tells(touchTodo', {"DOWN"}, c)
          /\ Tells(touchTodo', {"UP", "CANCEL"}, c) <=> c \in Pad!Active(state)
      BY <2>3, Zenon
    <3> QED BY <3>1, <3>2
  <2>5. Pad!Active(state)' = {}
    BY <2>1 DEF Pad!Active
  <2> QED BY <2>1, <2>4, <2>5 DEF PowerIsKept
<1>5. CASE Pad!SubmitNext
  <2> DEFINE e == Head(touchTodo)
  <2>1. /\ at \in {"submit", "faulting"} /\ touchTodo # <<>> /\ touchTodo' = Tail(touchTodo)
        /\ UNCHANGED <<at, state>>
        /\ power' = CASE e.type = "DOWN" -> power \cup {e.contact}
                      [] e.type \in {"UP", "CANCEL"} -> power \ {e.contact}
                      [] OTHER -> power
    BY <1>5 DEF Pad!SubmitNext, Pad!submit
  <2>2. \A c, types : Tells(touchTodo, types, c)
                        <=> (e.type \in types /\ e.contact = c) \/ Tells(touchTodo', types, c)
    BY <1>0, <2>1, TellsTail
  <2>3. e.contact \in Pad!Contact
    <3>1. e \in Pad!PointerEvent
      BY <1>0, <2>1
    <3> QED BY <3>1 DEF Pad!PointerEvent
  <2> HIDE DEF e
  <2>4. \A c \in Pad!Contact :
          /\ Tells(touchTodo, {"DOWN"}, c) => state[c] # Pad!Up
          /\ Tells(touchTodo, {"UP", "CANCEL"}, c) => state[c] = Pad!Up
          /\ ~Tells(touchTodo, {"DOWN"}, c) /\ ~Tells(touchTodo, {"UP", "CANCEL"}, c)
               => (c \in power <=> state[c] # Pad!Up)
    BY <2>1 DEF PowerIsKept
  <2>5. ASSUME NEW c \in Pad!Contact
        PROVE  /\ Tells(touchTodo', {"DOWN"}, c) => state[c] # Pad!Up
               /\ Tells(touchTodo', {"UP", "CANCEL"}, c) => state[c] = Pad!Up
               /\ ~Tells(touchTodo', {"DOWN"}, c) /\ ~Tells(touchTodo', {"UP", "CANCEL"}, c)
                    => (c \in power' <=> state[c] # Pad!Up)
    <3>1. /\ Tells(touchTodo', {"DOWN"}, c) => state[c] # Pad!Up
          /\ Tells(touchTodo', {"UP", "CANCEL"}, c) => state[c] = Pad!Up
      BY <2>2, <2>4
    <3>2. ASSUME ~Tells(touchTodo', {"DOWN"}, c), ~Tells(touchTodo', {"UP", "CANCEL"}, c)
          PROVE  c \in power' <=> state[c] # Pad!Up
      <4>1. CASE e.type = "DOWN" /\ e.contact = c
        <5>1. state[c] # Pad!Up
          BY <2>2, <2>4, <4>1
        <5> QED BY <2>1, <4>1, <5>1
      <4>2. CASE e.type \in {"UP", "CANCEL"} /\ e.contact = c
        <5>1. state[c] = Pad!Up
          BY <2>2, <2>4, <4>2
        <5> QED BY <2>1, <4>2, <5>1
      <4>3. CASE ~(e.type = "DOWN" /\ e.contact = c)
                 /\ ~(e.type \in {"UP", "CANCEL"} /\ e.contact = c)
        <5>1. c \in power <=> state[c] # Pad!Up
          BY <2>2, <2>4, <3>2, <4>3
        <5>2. c \in power' <=> c \in power
          BY <2>1, <4>3
        <5> QED BY <5>1, <5>2
      <4> QED BY <4>1, <4>2, <4>3
    <3> QED BY <3>1, <3>2
  <2>6. at' = "faulting" => Pad!Active(state)' = {}
    BY <2>1 DEF PowerIsKept, Pad!Active
  <2> QED BY <2>1, <2>5, <2>6 DEF PowerIsKept
<1>6. ASSUME at \in {"submit", "faulting"}, touchTodo = <<>> PROVE power = Pad!Active(state)
  <2>1. \A c \in Pad!Contact : \A types : ~Tells(touchTodo, types, c)
    BY <1>6 DEF Tells, Holds
  <2> QED BY <1>0, <1>6, <2>1 DEF PowerIsKept, Pad!Active
<1>7. CASE Pad!Asserted
  <2>1. power = Pad!Active(state)
    BY <1>6, <1>7 DEF Pad!Asserted
  <2>2. /\ at' \in {"after", "read", "still"} /\ UNCHANGED <<power, state, touchLeft>>
        /\ at' = "read" => touchLeft > 0
    BY <1>7 DEF Pad!Asserted
  <2> QED BY <2>1, <2>2 DEF PowerIsKept, Pad!Active
<1>8. CASE Pad!Fault
  <2>1. at' = "power" /\ power' = {} /\ UNCHANGED state /\ at = "faulting"
    BY <1>8 DEF Pad!Fault, Pad!RemoveDevice
  <2> QED BY <2>1 DEF PowerIsKept, Pad!Active
<1>9. CASE Pad!TellPower
  BY <1>1, <1>9 DEF Pad!TellPower
<1>10. CASE Pad!Level
  BY <1>1, <1>10 DEF Pad!Level, PowerIsKept
<1>11. CASE Pad!Wake \/ Pad!AfterDrain \/ Pad!Rearm
  BY <1>1, <1>11 DEF Pad!Wake, Pad!AfterDrain, Pad!Rearm
<1>12. CASE UNCHANGED <<at, state, touchTodo, power, held, touchLeft>>
  BY <1>12 DEF PowerIsKept, Pad!Active
<1> QED
  BY <1>2, <1>3, <1>4, <1>5, <1>7, <1>8, <1>9, <1>10, <1>11, <1>12
  DEF Pad!Next, Pad!FingersMove, Pad!Interrupt, Pad!InterruptNotify, Pad!SetForeground, Pad!Open,
      Pad!OpenStream, Pad!Read, Pad!Close, Pad!CloseOwner, Pad!vars

(* Every step keeps every stream sound. *)
LEMMA StreamsNext ==
  ASSUME Pad!Constants, Pad!TypeOK, Streams, [Pad!Next]_(Pad!vars)
  PROVE  Streams'
<1> USE DEF Pad!external, Pad!driver, Pad!service, Pad!programs, Pad!Rest
<1>0. ASSUME NEW o \in Owner
      PROVE  /\ stream[o] \in Pad!Stream /\ believed[o] \in SUBSET Pad!Contact
             /\ lost[o] \in SUBSET Pad!Contact
             /\ Sound(stream[o], believed[o], lost[o], o = foreground, o \in opening)
  BY DEF Pad!TypeOK, Streams
<1>1. CASE UNCHANGED <<stream, believed, lost, foreground, opening>>
  BY <1>1 DEF Streams
<1>2. CASE Pad!SubmitNext
  <2> DEFINE e == Head(touchTodo)
  <2>1. e \in Pad!PointerEvent
    BY <1>2 DEF Pad!SubmitNext, Pad!TypeOK
  <2>2. Pad!submit(e) /\ UNCHANGED Pad!Rest
    BY <1>2 DEF Pad!SubmitNext
  <2> HIDE DEF e
  <2>3. /\ \A o \in Owner : stream'[o] = Pad!Submitted(o, e) /\ lost'[o] = Losing(o, e)
        /\ UNCHANGED <<believed, foreground, opening>>
    BY <2>2 DEF Pad!submit, Losing
  <2> QED BY <2>1, <2>3, SubmittedIsSound DEF Streams
<1>3. CASE Pad!Fault
  <2>1. /\ \A o \in Owner : /\ stream'[o] = IF stream[o].open
                                 THEN [Pad!Cancelled(stream[o]) EXCEPT !.hangup = TRUE]
                                 ELSE stream[o]
                            /\ lost'[o] = IF stream[o].open THEN lost[o] \cup Pad!Dropped(o)
                                          ELSE lost[o]
        /\ UNCHANGED <<believed, foreground, opening>>
    BY <1>3 DEF Pad!Fault, Pad!RemoveDevice
  <2>2. ASSUME NEW o \in Owner
        PROVE  Sound(stream'[o], believed[o], lost'[o], o = foreground, o \in opening)
    <3> DEFINE s == stream[o]
               b == believed[o]
               l == lost[o]
    <3>1. CASE stream[o].open
      <4>1. /\ stream'[o] = [Pad!Cancelled(s) EXCEPT !.hangup = TRUE]
            /\ lost'[o] = l \cup (b \ s.contacts)
        BY <2>1, <3>1 DEF Pad!Dropped
      <4>2. s \in Pad!Stream /\ b \in SUBSET Pad!Contact /\ l \in SUBSET Pad!Contact /\ s.open
            /\ Sound(s, b, l, o = foreground, o \in opening)
        BY <1>0, <3>1
      <4> HIDE DEF s, b, l
      <4>3. Sound([Pad!Cancelled(s) EXCEPT !.hangup = TRUE], b, l \cup (b \ s.contacts),
                  o = foreground, o \in opening)
        BY <4>2, CancelledIsSound
      <4> QED BY <4>1, <4>3 DEF b
    <3>2. CASE ~stream[o].open
      BY <1>0, <2>1, <3>2
    <3> QED BY <3>1, <3>2
  <2> QED BY <2>1, <2>2 DEF Streams
<1>4. ASSUME NEW n \in Owner \cup {NoOwner}, Pad!SetForeground(n) PROVE Streams'
  <2>1. /\ \A o \in Owner : /\ stream'[o] = IF stream[o].open /\ o = foreground
                                 THEN Pad!Cancelled(stream[o]) ELSE stream[o]
                            /\ lost'[o] = IF stream[o].open /\ o = foreground
                                          THEN lost[o] \cup Pad!Dropped(o) ELSE lost[o]
        /\ UNCHANGED <<believed, opening>> /\ foreground' = n /\ n # foreground
    BY <1>4 DEF Pad!SetForeground
  <2>2. ASSUME NEW o \in Owner
        PROVE  Sound(stream'[o], believed[o], lost'[o], o = n, o \in opening)
    <3> DEFINE s == stream[o]
               b == believed[o]
               l == lost[o]
               h == stream[o].hangup
    <3>1. CASE stream[o].open /\ o = foreground
      <4>1. /\ stream'[o] = Pad!Cancelled(s) /\ lost'[o] = l \cup (b \ s.contacts)
        BY <2>1, <3>1 DEF Pad!Dropped
      <4>2. s \in Pad!Stream /\ b \in SUBSET Pad!Contact /\ l \in SUBSET Pad!Contact /\ s.open
            /\ Sound(s, b, l, o = foreground, o \in opening)
        BY <1>0, <3>1
      <4>3. h \in BOOLEAN /\ Pad!Cancelled(s) = [Pad!Cancelled(s) EXCEPT !.hangup = h]
        BY <4>2 DEF Pad!Cancelled, Pad!Stream
      <4> HIDE DEF s, b, l, h
      <4>4. Sound([Pad!Cancelled(s) EXCEPT !.hangup = h], b, l \cup (b \ s.contacts),
                  o = n, o \in opening)
        BY <4>2, <4>3, CancelledIsSound
      <4> QED BY <4>1, <4>3, <4>4 DEF b
    <3>2. CASE o # foreground
      <4>1. Sound(stream[o], believed[o], lost[o], FALSE, o \in opening)
        BY <1>0, <3>2
      <4>2. stream'[o] = stream[o] /\ lost'[o] = lost[o]
        BY <2>1, <3>2
      <4> QED BY <4>1, <4>2 DEF Sound
    <3>3. CASE ~stream[o].open
      <4>1. stream'[o] = stream[o] /\ lost'[o] = lost[o]
        BY <2>1, <3>3
      <4>2. Sound(stream[o], believed[o], lost[o], o = foreground, o \in opening)
        BY <1>0
      <4>3. stream[o].contacts = {} /\ \A e \in Pad!PointerEvent : ~Holds(stream[o].queue, e)
        BY <3>3, <4>2 DEF Sound, Pad!Closed, Holds
      <4> QED BY <3>3, <4>1, <4>2, <4>3 DEF Sound
    <3> QED BY <3>1, <3>2, <3>3
  <2> QED BY <2>1, <2>2 DEF Streams
<1>5. ASSUME NEW p \in Owner, Pad!Open(p) PROVE Streams'
  <2>1. UNCHANGED <<stream, believed, lost, foreground>> /\ opening' = opening \cup {p}
        /\ ~stream[p].open
    BY <1>5 DEF Pad!Open
  <2>2. ASSUME NEW o \in Owner
        PROVE  Sound(stream[o], believed[o], lost[o], o = foreground, o \in opening')
    <3>1. CASE o = p
      <4>1. Sound(stream[o], believed[o], lost[o], o = foreground, o \in opening)
        BY <1>0
      <4> QED BY <2>1, <3>1, <4>1 DEF Sound
    <3>2. CASE o # p
      <4>1. (o \in opening') = (o \in opening)
        BY <2>1, <3>2
      <4> QED BY <1>0, <4>1
    <3> QED BY <3>1, <3>2
  <2> QED BY <2>1, <2>2 DEF Streams
<1>6. \A e : ~Holds(<<>>, e)
  BY DEF Holds
<1>7. /\ Pad!Closed.queue = <<>> /\ Pad!Closed.contacts = {} /\ ~Pad!Closed.open
      /\ ~Pad!Closed.hangup
  BY DEF Pad!Closed
<1>8. ASSUME NEW p \in Owner, Pad!OpenStream(p) PROVE Streams'
  <2> DEFINE fresh == [Pad!Closed EXCEPT !.open = TRUE]
  <2>1. /\ stream' = [stream EXCEPT ![p] = fresh] /\ opening' = opening \ {p} /\ p \in opening
        /\ UNCHANGED <<believed, lost, foreground>>
    BY <1>8 DEF Pad!OpenStream
  <2>2. fresh.open /\ fresh.queue = <<>> /\ fresh.contacts = {} /\ ~fresh.hangup
    BY DEF Pad!Closed
  <2> HIDE DEF fresh
  <2>3. ASSUME NEW o \in Owner
        PROVE  Sound(stream'[o], believed[o], lost[o], o = foreground, o \in opening')
    <3>1. CASE o = p
      <4>1. believed[o] = {} /\ lost[o] = {}
        BY <1>0, <2>1, <3>1 DEF Sound
      <4>2. Pad!BelievedAfter(believed[o], <<>>) = {}
        BY <1>0, <4>1, BelievedNothing
      <4>3. stream'[o] = fresh /\ o \notin opening'
        BY <2>1, <3>1 DEF Pad!TypeOK
      <4> QED BY <1>6, <2>2, <4>1, <4>2, <4>3 DEF Sound
    <3>2. CASE o # p
      <4>1. (o \in opening') = (o \in opening) /\ stream'[o] = stream[o]
        BY <2>1, <3>2 DEF Pad!TypeOK
      <4> QED BY <1>0, <4>1
    <3> QED BY <3>1, <3>2
  <2> QED BY <2>1, <2>3 DEF Streams
<1>9. ASSUME NEW p \in Owner, Pad!Read(p) PROVE Streams'
  <2> DEFINE s == stream[p]
             e == Head(s.queue)
             r == [s EXCEPT !.queue = Tail(s.queue)]
  <2>1. /\ s.open /\ p = foreground /\ s.queue # <<>> /\ s \in Pad!Stream
        /\ UNCHANGED <<lost, foreground, opening>>
        /\ stream' = [stream EXCEPT ![p] = r]
        /\ believed' = [believed EXCEPT ![p] = Says(e, believed[p])]
    BY <1>0, <1>9 DEF Pad!Read, Says
  <2>2. /\ r.open = s.open /\ r.queue = Tail(s.queue) /\ r.contacts = s.contacts
        /\ r.hangup = s.hangup /\ s.queue \in Seq(Pad!PointerEvent)
    BY <2>1 DEF Pad!Stream
  <2>3. e \in Pad!PointerEvent
    BY <2>1, <2>2
  <2>4. Sound(s, believed[p], lost[p], TRUE, p \in opening)
    BY <1>0, <2>1
  <2>5. Pad!BelievedAfter(believed[p], s.queue)
          = Pad!BelievedAfter(Says(e, believed[p]), Tail(s.queue))
    <3> DEFINE q == s.queue
    <3>1. believed[p] \in SUBSET Pad!Contact /\ q \in Seq(Pad!PointerEvent) /\ q # <<>>
      BY <1>0, <2>1, <2>2
    <3> HIDE DEF s, q
    <3>2. Pad!BelievedAfter(believed[p], q)
          = Pad!BelievedAfter(Says(Head(q), believed[p]), Tail(q))
      BY <3>1, BelievedHead
    <3> QED BY <3>2 DEF q
  <2>6. \A d : Holds(s.queue, d) <=> e = d \/ Holds(Tail(s.queue), d)
    BY <2>1, <2>2, HoldsTail
  <2> HIDE DEF s, e, r
  <2>7. e.contact \notin lost[p] /\ lost[p] \subseteq believed[p]
    BY <2>1, <2>3, <2>4, <2>6 DEF Sound
  <2>8. lost[p] \subseteq Says(e, believed[p])
    BY <2>7 DEF Says
  <2>9. Sound(r, Says(e, believed[p]), lost[p], TRUE, p \in opening)
    BY <2>1, <2>2, <2>4, <2>5, <2>6, <2>8 DEF Sound
  <2>10. ASSUME NEW o \in Owner
         PROVE  Sound(stream'[o], believed'[o], lost[o], o = foreground, o \in opening)
    <3>1. CASE o = p
      <4>1. stream'[o] = r /\ believed'[o] = Says(e, believed[p]) /\ (o = foreground) = TRUE
        BY <2>1, <3>1 DEF Pad!TypeOK
      <4> QED BY <2>9, <3>1, <4>1
    <3>2. CASE o # p
      <4>1. stream'[o] = stream[o] /\ believed'[o] = believed[o]
        BY <2>1, <3>2 DEF Pad!TypeOK
      <4> QED BY <1>0, <4>1
    <3> QED BY <3>1, <3>2
  <2> QED BY <2>1, <2>10 DEF Streams
<1>10. ASSUME NEW p \in Owner, Pad!Forget(p), UNCHANGED opening,
              foreground' \in {foreground, NoOwner}, foreground # p => foreground' = foreground
       PROVE  Streams'
  <2>1. /\ stream'[p] = Pad!Closed /\ believed'[p] = {} /\ lost'[p] = {}
        /\ \A o \in Owner \ {p} : /\ stream'[o] = stream[o] /\ believed'[o] = believed[o]
                                  /\ lost'[o] = lost[o]
    BY <1>10 DEF Pad!Forget, Pad!TypeOK
  <2>2. ASSUME NEW o \in Owner
        PROVE  Sound(stream'[o], believed'[o], lost'[o], o = foreground', o \in opening)
    <3>1. CASE o = p
      BY <1>6, <1>7, <2>1, <3>1 DEF Sound
    <3>2. CASE o # p
      <4>1. (o = foreground') = (o = foreground)
        BY <1>10, <3>2 DEF Pad!Constants
      <4> QED BY <1>0, <2>1, <3>2, <4>1
    <3> QED BY <3>1, <3>2
  <2> QED BY <1>10, <2>2 DEF Streams
<1>11. ASSUME NEW p \in Owner, Pad!Close(p) PROVE Streams'
  BY <1>10, <1>11 DEF Pad!Close
<1>12. ASSUME NEW p \in Owner, Pad!CloseOwner(p) PROVE Streams'
  BY <1>10, <1>12 DEF Pad!CloseOwner
<1> QED
  BY <1>1, <1>2, <1>3, <1>4, <1>5, <1>8, <1>9, <1>11, <1>12
  DEF Pad!Next, Pad!FingersMove, Pad!Interrupt, Pad!InterruptNotify, Pad!Wake, Pad!Exchange,
      Pad!Level, Pad!ReadPoints, Pad!ReadFails, Pad!Asserted, Pad!AfterDrain, Pad!Rearm,
      Pad!TellPower, Pad!vars

(* In every reachable state of the controller, its drain and its streams, what
   is left to submit, the service's contacts and every program's queue agree as
   TouchInv says, for any sequence of reports, failures and openings. *)
THEOREM TouchInvariance == ASSUME Pad!Constants PROVE Pad!Spec => []TouchInv
<1>1. Pad!Init => TouchInv
  BY TouchInit
<1>2. TouchInv /\ [Pad!Next]_(Pad!vars) => TouchInv'
  <2>1. SUFFICES ASSUME TouchInv, [Pad!Next]_(Pad!vars) PROVE TouchInv'
    OBVIOUS
  <2>2. Pad!Constants'
    BY DEF Pad!Constants, TouchInv
  <2> QED BY <2>1, <2>2, PowerNext, StreamsNext, TouchTypeNext DEF TouchInv
<1> QED BY <1>1, <1>2, PTL DEF Pad!Spec

(* What the invariant says of a stream is what the property asks. *)
LEMMA StreamsAreSound == TouchInv => NoOtherStuckContact
<1> SUFFICES ASSUME TouchInv, NEW o \in Owner
             PROVE  /\ stream[o].open => Pad!Believes(o) = stream[o].contacts \cup lost[o]
                    /\ o # foreground \/ stream[o].hangup =>
                         /\ stream[o].contacts = {}
                         /\ \A i \in DOMAIN stream[o].queue : stream[o].queue[i].type = "CANCEL"
  BY DEF NoOtherStuckContact, Believes, Pad!Believes, BelievedAfter, Pad!BelievedAfter,
         Contact, Pad!Contact
<1>1. Sound(stream[o], believed[o], lost[o], o = foreground, o \in opening)
  BY DEF TouchInv, Streams
<1>2. \A i \in DOMAIN stream[o].queue : /\ stream[o].queue[i] \in Pad!PointerEvent
                                        /\ Holds(stream[o].queue, stream[o].queue[i])
  BY DEF TouchInv, Pad!TypeOK, Pad!Stream, Holds
<1> QED BY <1>1, <1>2 DEF Sound, Pad!Believes

(* A program that reads its stream to the end believes the contacts the service
   has for it, and besides only those whose release was in a queue that was
   emptied, by an event that did not fit, a lost foreground or a removed device;
   a stream that is hung up or in the background holds only cancellations. *)
THEOREM NoneStuck == ASSUME Pad!Constants PROVE Pad!Spec => []NoOtherStuckContact
  BY TouchInvariance, StreamsAreSound, PTL

(* Whenever the drain is idle, what was told to the power manager is whether the
   last report had a contact, also after a read that failed between events. *)
THEOREM DisplayFollows == ASSUME Pad!Constants PROVE Pad!Spec => []PowerFollows
<1>1. TouchInv => PowerFollows
  BY DEF TouchInv, PowerIsKept, PowerFollows, Active, Pad!Active, Contact, Pad!Contact,
         Up, Pad!Up
<1> QED BY <1>1, TouchInvariance, PTL

-----------------------------------------------------------------------------
(* The notification task is published exactly while platform_run is inside. *)
TaskIsPublished == task <=> loop \notin {"start", "ended"}

(* Only between the exchange and the update does the loop hold bits. *)
HandsFree == loop \in {"start", "exchange", "block", "again", "ended"} => events = {}

(* From the exchange on, not only in the wait: a bit published after the
   exchange has its notification behind it. *)
WakeupOnItsWay == loop \in {"look", "block"} /\ bits # {} => Notified

IInv == TypeOK /\ TaskIsPublished /\ HandsFree /\ WakeupOnItsWay

USE EventAssumption DEF Places, Steps

-----------------------------------------------------------------------------
LEMMA InitInv == Init => IInv
  BY DEF Init, IInv, TypeOK, TaskIsPublished, HandsFree, WakeupOnItsWay

(* A source that continues its notification, or a loop that goes on. *)
LEMMA TypeNext == TypeOK /\ [Next]_vars => TypeOK'
<1> SUFFICES ASSUME TypeOK, [Next]_vars PROVE TypeOK'
  OBVIOUS
<1> USE DEF TypeOK
<1>1. ASSUME NEW s \in Source, Notify(s) PROVE TypeOK'
  BY <1>1 DEF Notify, Publish
<1>2. ASSUME NEW s \in Source, LoadTask(s) PROVE TypeOK'
  BY <1>2 DEF LoadTask
<1>3. ASSUME NEW s \in Source, GiveToken(s) PROVE TypeOK'
  BY <1>3 DEF GiveToken
<1>4. ASSUME NEW s \in Source, RequestAction(s) PROVE TypeOK'
  BY <1>4 DEF RequestAction
<1>5. ASSUME NEW s \in Source, RequestStop(s) PROVE TypeOK'
  BY <1>5 DEF RequestStop
<1>6. ASSUME NEW s \in Source, NotifyStop(s) PROVE TypeOK'
  BY <1>6 DEF NotifyStop, Publish
<1>7. CASE Run BY <1>7 DEF Run
<1>8. CASE Exchange BY <1>8 DEF Exchange
<1>9. CASE Look BY <1>9 DEF Look, Seen
<1>10. CASE Block BY <1>10 DEF Block
<1>11. CASE Clear BY <1>11 DEF Clear
<1>12. CASE While BY <1>12 DEF While, End
<1>13. CASE Update BY <1>13 DEF Update
<1>14. CASE Again BY <1>14 DEF Again, End
<1>15. CASE TimePasses BY <1>15 DEF TimePasses
<1>16. CASE UNCHANGED vars BY <1>16 DEF vars
<1> QED
  BY <1>1, <1>2, <1>3, <1>4, <1>5, <1>6, <1>7, <1>8, <1>9, <1>10, <1>11, <1>12,
     <1>13, <1>14, <1>15, <1>16 DEF Next

(* No step of a source touches what the loop holds, and a bit it publishes
   leaves it at "load". *)
LEMMA SourceInv ==
  ASSUME IInv, NEW s \in Source,
         \/ Notify(s) \/ LoadTask(s) \/ GiveToken(s)
         \/ RequestAction(s) \/ RequestStop(s) \/ NotifyStop(s)
  PROVE  TaskIsPublished' /\ HandsFree' /\ WakeupOnItsWay'
<1> USE DEF IInv, TypeOK
<1>1. UNCHANGED <<task, loop, events>>
  BY DEF Notify, LoadTask, GiveToken, RequestAction, RequestStop, NotifyStop
<1>2. TaskIsPublished' /\ HandsFree'
  BY <1>1 DEF TaskIsPublished, HandsFree
<1>3. CASE Notify(s) \/ NotifyStop(s)
  <2>1. who'[s] = "load"
    BY <1>3 DEF Notify, NotifyStop, Publish
  <2> QED BY <1>2, <2>1 DEF WakeupOnItsWay, Notified
<1>4. CASE LoadTask(s)
  <2>1. SUFFICES ASSUME loop' \in {"look", "block"}, bits' # {} PROVE Notified'
    BY <1>2 DEF WakeupOnItsWay
  <2>2. task
    BY <1>1, <2>1 DEF TaskIsPublished
  <2>3. who'[s] = "give"
    BY <1>4, <2>2 DEF LoadTask
  <2> QED BY <2>3 DEF Notified
<1>5. CASE GiveToken(s)
  BY <1>2, <1>5 DEF GiveToken, WakeupOnItsWay, Notified
<1>6. CASE RequestAction(s) \/ RequestStop(s)
  <2>1. SUFFICES ASSUME loop' \in {"look", "block"}, bits' # {} PROVE Notified'
    BY <1>2 DEF WakeupOnItsWay
  <2>2. bits' = bits /\ token' = token
    BY <1>6 DEF RequestAction, RequestStop
  <2>3. Notified
    BY <1>1, <2>1, <2>2 DEF WakeupOnItsWay
  <2>4. ASSUME NEW t \in Source, who[t] \in {"load", "give"} PROVE who'[t] = who[t]
    BY <1>6, <2>4 DEF RequestAction, RequestStop
  <2> QED BY <2>2, <2>3, <2>4 DEF Notified
<1> QED BY <1>2, <1>3, <1>4, <1>5, <1>6

LEMMA LoopInv ==
  ASSUME IInv, Run \/ Thread \/ TimePasses \/ UNCHANGED vars
  PROVE  TaskIsPublished' /\ HandsFree' /\ WakeupOnItsWay'
<1> USE DEF IInv, TypeOK, TaskIsPublished, HandsFree, WakeupOnItsWay, Notified
<1>1. CASE Run BY <1>1 DEF Run
<1>2. CASE Exchange BY <1>2 DEF Exchange
<1>3. CASE Look BY <1>3 DEF Look, Seen
<1>4. CASE Block BY <1>4 DEF Block
<1>5. CASE Clear BY <1>5 DEF Clear
<1>6. CASE While BY <1>6 DEF While, End
<1>7. CASE Update BY <1>7 DEF Update
<1>8. CASE Again BY <1>8 DEF Again, End
<1>9. CASE TimePasses BY <1>9 DEF TimePasses
<1>10. CASE UNCHANGED vars BY <1>10 DEF vars
<1> QED BY <1>1, <1>2, <1>3, <1>4, <1>5, <1>6, <1>7, <1>8, <1>9, <1>10 DEF Thread

LEMMA NextInv == IInv /\ [Next]_vars => IInv'
<1> SUFFICES ASSUME IInv, [Next]_vars PROVE IInv'
  OBVIOUS
<1>1. TypeOK'
  BY TypeNext DEF IInv
<1>2. TaskIsPublished' /\ HandsFree' /\ WakeupOnItsWay'
  BY SourceInv, LoopInv DEF Next, Thread
<1> QED BY <1>1, <1>2 DEF IInv

(* The inductive invariant holds in every reachable state. *)
THEOREM Invariance == Spec => []IInv
  BY InitInv, NextInv, PTL DEF Spec

(* Whoever notifies, from a task or an interrupt, before or after the loop has
   started: a loop that blocks with a bit set has been notified or is about to
   be (platform_runtime_wait_until against platform_runtime_notify). *)
THEOREM WakeupsAreKept == Spec => []NoLostWakeup
<1>1. IInv => NoLostWakeup
  BY DEF IInv, WakeupOnItsWay, NoLostWakeup
<1> QED BY Invariance, <1>1, PTL

-----------------------------------------------------------------------------
(* Refinement: what each step does to the bits owed and in hand. *)

LEMMA DeliveryInit == Init => Promise!Init
  BY DEF Init, Promise!Init

LEMMA SourceDelivers ==
  ASSUME IInv, NEW s \in Source,
         \/ Notify(s) \/ LoadTask(s) \/ GiveToken(s)
         \/ RequestAction(s) \/ RequestStop(s) \/ NotifyStop(s)
  PROVE  [Promise!Next]_(Promise!promise)
<1> USE DEF IInv, TypeOK, Promise!promise
<1>1. CASE Notify(s) \/ NotifyStop(s)
  <2>1. \E some \in SUBSET Event : bits' = bits \cup some
    BY <1>1 DEF Notify, NotifyStop, Publish
  <2>2. UNCHANGED <<events, handled, stop>>
    BY <1>1 DEF Notify, NotifyStop
  <2>3. Promise!Post
    BY <2>1, <2>2 DEF Promise!Post
  <2> QED BY <2>3 DEF Promise!Next
<1>2. CASE RequestStop(s)
  <2>1. Promise!Close
    BY <1>2 DEF RequestStop, Promise!Close
  <2> QED BY <2>1 DEF Promise!Next
<1>3. CASE LoadTask(s) \/ GiveToken(s) \/ RequestAction(s)
  BY <1>3 DEF LoadTask, GiveToken, RequestAction
<1> QED BY <1>1, <1>2, <1>3

LEMMA LoopDelivers ==
  ASSUME IInv, Run \/ Thread \/ TimePasses \/ UNCHANGED vars
  PROVE  [Promise!Next]_(Promise!promise)
<1> USE DEF IInv, TypeOK, HandsFree, Promise!promise
<1>1. CASE Exchange
  <2>1. events = {} /\ events' = bits /\ bits' = {} /\ bits \subseteq Event
    BY <1>1 DEF Exchange
  <2>2. events' \ {DEADLINE} = bits
    BY <2>1
  <2>3. UNCHANGED <<handled, stop>>
    BY <1>1 DEF Exchange
  <2>4. CASE bits = {}
    BY <2>1, <2>3, <2>4
  <2>5. CASE bits # {}
    <3>1. Promise!Collect
      BY <2>1, <2>2, <2>3, <2>5 DEF Promise!Collect
    <3> QED BY <3>1 DEF Promise!Next
  <2> QED BY <2>4, <2>5
<1>2. CASE Look
  <2>1. events' \ {DEADLINE} = events \ {DEADLINE}
    BY <1>2 DEF Look, Seen
  <2> QED BY <1>2, <2>1 DEF Look
<1>3. CASE While
  <2>1. CASE ~stop
    BY <1>3, <2>1 DEF While
  <2>2. CASE stop /\ events \ {DEADLINE} = {}
    BY <1>3, <2>2 DEF While, End
  <2>3. CASE stop /\ events \ {DEADLINE} # {}
    <3>1. Promise!Discard
      BY <1>3, <2>3 DEF While, End, Promise!Discard
    <3> QED BY <3>1 DEF Promise!Next
  <2> QED BY <2>1, <2>2, <2>3
<1>4. CASE Update
  <2>1. CASE events \subseteq {DEADLINE}
    BY <1>4, <2>1 DEF Update
  <2>2. CASE ~(events \subseteq {DEADLINE})
    <3>1. Promise!Deliver
      BY <1>4, <2>2 DEF Update, Promise!Deliver
    <3> QED BY <3>1 DEF Promise!Next
  <2> QED BY <2>1, <2>2
<1>5. CASE Again
  BY <1>5 DEF Again, End
<1>6. CASE Run \/ Block \/ Clear \/ TimePasses \/ UNCHANGED vars
  BY <1>6 DEF Run, Block, Clear, TimePasses, vars
<1> QED BY <1>1, <1>2, <1>3, <1>4, <1>5, <1>6 DEF Thread

(* The loop implements the safety part of Delivery: every bit is owed, in hand
   or handled, an update gets what one exchange took, whole, and bits are
   dropped only by a loop that was told to stop. *)
THEOREM LoopImplementsDelivery == Spec => Promise!Safety
<1>1. IInv /\ [Next]_vars => [Promise!Next]_(Promise!promise)
  BY SourceDelivers, LoopDelivers DEF Next, Thread
<1> QED BY DeliveryInit, Invariance, <1>1, PTL DEF Spec, Promise!Safety
=============================================================================
