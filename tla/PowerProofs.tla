----------------------------- MODULE PowerProofs -----------------------------
(***************************************************************************)
(* Proofs about Power, for any participants and dependencies, any policies *)
(* and any number of suspends: the order power_manager_finalize computes   *)
(* is one of the dependencies, participants go down and come up along it,  *)
(* and no stage of the display is entered early or lights a dark panel.    *)
(***************************************************************************)
EXTENDS Power, FiniteSetTheorems, SequenceTheorems, TLAPS

(* The type invariant, by the groups of variables the steps change together *)
Walk == [mark : [Participants -> 0 .. 2],
         path : Seq([of : Participants, next : Nat \ {0}]), root : 1 .. Count + 1]
DisplayRecord ==
  [desired : Nat, brightness : Nat, brightnessValid : BOOLEAN, enabled : BOOLEAN,
   enabledValid : BOOLEAN, screenOff : BOOLEAN, panelOff : BOOLEAN, lamp : Nat,
   panel : BOOLEAN]
Places == {"finalize", "none", "inhibit", "take", "deadline", "wake", "start", "drive", "done"}
CallRecord ==
  [pc : Places, first : BOOLEAN, deadline : BOOLEAN, power : BOOLEAN, active : BOOLEAN,
   request : BOOLEAN]
PartStates == {"up", "stopping", "down", "starting", "failed"}

ClockTypes == now \in 0 .. MaxTime /\ last \in 0 .. MaxTime /\ policy \in Policies
GraphTypes ==
  setup \in Setups /\ order \in Seq(Participants) /\ available \in BOOLEAN /\ walk \in Walk
FlagTypes ==
  /\ inhibited \in BOOLEAN /\ panicked \in BOOLEAN
  /\ requested \in BOOLEAN /\ wake \in BOOLEAN /\ notified \in BOOLEAN
TurnTypes ==
  /\ state \in States
  /\ phase \in {"NONE", "SUSPEND", "WAIT_SUSPEND", "SLEEP", "RESUME", "WAIT_RESUME"}
  /\ cursor \in 0 .. Count /\ suspended \in Seq(Participants)
  /\ Len(suspended) <= Count
  /\ generation \in 0 .. MaxGeneration
  /\ expected \in Tokens
  /\ answer \in {"none", "success", "failure"}
  /\ part \in [Participants -> PartStates]

-----------------------------------------------------------------------------
(* Finalization *)

mark == walk.mark
path == walk.path

(* The calls of visit are of different participants, and each has dealt with
   the dependencies before the next: they are in the order, but for the last
   one of a call that waits for the call above it. *)
Nested ==
  /\ \A k \in 1 .. Len(path) : mark[path[k].of] = 1
  /\ \A k, l \in 1 .. Len(path) : path[k].of = path[l].of => k = l
  /\ \A k \in 1 .. Len(path) : \A j \in DOMAIN deps[path[k].of] :
       j < path[k].next =>
         LET d == deps[path[k].of][j]
         IN /\ d # 0
            /\ \/ mark[d] = 2
               \/ k < Len(path) /\ j = path[k].next - 1 /\ d = path[k + 1].of

Before(d, i) == \E j \in 1 .. i - 1 : order[j] = d

(* The order holds the participants that are done, once, behind all they depend on. *)
Sorted ==
  /\ \A p \in Participants : mark[p] = 2 <=> \E i \in 1 .. Len(order) : order[i] = p
  /\ \A i, j \in 1 .. Len(order) : order[i] = order[j] => i = j
  /\ \A i \in 1 .. Len(order) : \A d \in Range(deps[order[i]]) : Before(d, i)

(* The loop of power_manager_finalize *)
Looped ==
  /\ path # <<>> => walk.root <= Count /\ path[1].of = walk.root
  /\ available => \A p \in 1 .. walk.root - 1 : mark[p] = 2
  /\ call.pc # "finalize" => path = <<>> /\ walk.root = Count + 1

Ordering == Nested /\ Sorted /\ Looped

(* What finalization promises to the transitions *)
SoundOrder ==
  available /\ call.pc # "finalize" =>
    /\ Len(order) = Count
    /\ \A p \in Participants : \E i \in 1 .. Count : order[i] = p
    /\ \A i, j \in 1 .. Count : order[i] = order[j] => i = j
    /\ \A i \in 1 .. Count : \A d \in Range(deps[order[i]]) : Before(d, i)

-----------------------------------------------------------------------------
(* Transitions *)

(* A participant no transition is at: it is up, or has said that it failed. *)
Risen == {"up", "failed"}

(* The m last of the order are down, the one before them is in one of the states
   given, the rest have risen. *)
InTurn(m, here) ==
  \A i \in 1 .. Count :
    /\ i > Count - m => part[order[i]] = "down"
    /\ i = Count - m => part[order[i]] \in here
    /\ i < Count - m => part[order[i]] \in Risen

Lowered(m) == InTurn(m, Risen)

AllUp == \A p \in Participants : part[p] \in Risen

(* Where a shutdown may find them *)
Halfway == \E m \in 0 .. Count : InTurn(m, PartStates)

(* Where the answer waited for leaves the one whose turn it is *)
Stopping == IF answer = "none" THEN {"stopping"}
            ELSE IF answer = "success" THEN {"down"} ELSE Risen
Starting == IF answer = "none" THEN {"starting"} ELSE Risen

Stacked == \A j \in 1 .. Len(suspended) : suspended[j] = order[Count + 1 - j]

(* The state says which phase the transition is in. *)
Staged ==
  /\ call.pc = "finalize" => state = "ACTIVE"
  /\ phase = "NONE" <=> state \in {"ACTIVE", "IDLE", "SHUTTING_DOWN"}
  /\ phase \in {"SUSPEND", "WAIT_SUSPEND"} <=> state = "SUSPENDING"
  /\ phase = "SLEEP" <=> state = "SUSPENDED"
  /\ phase \in {"RESUME", "WAIT_RESUME"} <=> state = "RESUMING"
  /\ phase # "NONE" => available /\ Stacked

Resting ==
  /\ state \in {"ACTIVE", "IDLE"} => AllUp
  /\ ~available => AllUp
  /\ state = "SHUTTING_DOWN" /\ available => Halfway

GoingDown ==
  /\ phase \in {"SUSPEND", "WAIT_SUSPEND"} => Len(suspended) = cursor
  /\ phase = "SUSPEND" => Lowered(cursor)
  /\ phase = "WAIT_SUSPEND" =>
       /\ cursor < Count
       /\ expected = token(order[Count - cursor], "suspend")
       /\ InTurn(cursor, Stopping)
  /\ phase = "SLEEP" => Len(suspended) = Count /\ Lowered(Count)

ComingUp ==
  /\ phase = "RESUME" =>
       cursor <= Len(suspended) /\ Lowered(Len(suspended) - cursor)
  /\ phase = "WAIT_RESUME" =>
       /\ cursor < Len(suspended)
       /\ expected = token(suspended[Len(suspended) - cursor], "resume")
       /\ InTurn(Len(suspended) - cursor - 1, Starting)

Turns == Staged /\ Resting /\ GoingDown /\ ComingUp

(* What the manager believes of the display is so. *)
Belief(d) ==
  /\ d.brightnessValid => d.lamp = d.brightness
  /\ d.enabledValid => d.panel = d.enabled
  /\ d.lamp # 0 => d.panel

IInv == TypeOK /\ Ordering /\ SoundOrder /\ Turns /\ Belief(display) /\ DimmingIsEarned

-----------------------------------------------------------------------------
(* Sequences *)

LEMMA FrontFacts ==
  ASSUME NEW S, NEW s \in Seq(S), s # <<>>
  PROVE  /\ Front(s) \in Seq(S) /\ Len(Front(s)) = Len(s) - 1
         /\ \A i \in 1 .. Len(s) - 1 : Front(s)[i] = s[i]
         /\ Last(s) \in S /\ Last(s) = s[Len(s)] /\ Len(s) \in Nat \ {0}
<1>1. Len(s) \in Nat \ {0} /\ \A i \in 1 .. Len(s) : s[i] \in S
  BY EmptySeq, ElementOfSeq
<1>2. /\ SubSeq(s, 1, Len(s) - 1) \in Seq(S)
      /\ Len(SubSeq(s, 1, Len(s) - 1)) = IF 1 <= Len(s) - 1 THEN Len(s) - 1 ELSE 0
      /\ \A i \in 1 .. Len(s) - 1 : SubSeq(s, 1, Len(s) - 1)[i] = s[i]
  <2>1. 1 \in Int /\ Len(s) - 1 \in Int /\ \A i \in 1 .. Len(s) - 1 : s[i] \in S
    BY <1>1
  <2> QED
    BY <2>1, SubSeqProperties, <1>1
<1>3. Len(Front(s)) = Len(s) - 1
  <2>1. \A n \in Nat \ {0} : (IF 1 <= n - 1 THEN n - 1 ELSE 0) = n - 1
    OBVIOUS
  <2>2. Len(SubSeq(s, 1, Len(s) - 1)) = Len(s) - 1
    BY <1>1, <1>2, <2>1, Zenon
  <2> QED
    BY <2>2, Zenon DEF Front
<1>4. Front(s) \in Seq(S) /\ \A i \in 1 .. Len(s) - 1 : Front(s)[i] = s[i]
  BY <1>2 DEF Front
<1> QED
  BY <1>1, <1>3, <1>4 DEF Last

LEMMA AppendFacts ==
  ASSUME NEW S, NEW s \in Seq(S), NEW x \in S
  PROVE  /\ Append(s, x) \in Seq(S) /\ Len(Append(s, x)) = Len(s) + 1
         /\ \A i \in 1 .. Len(s) : Append(s, x)[i] = s[i]
         /\ Append(s, x)[Len(s) + 1] = x /\ Append(s, x) # <<>>
         /\ Len(s) \in Nat
OBVIOUS

LEMMA SetupFacts ==
  ASSUME setup \in Setups
  PROVE  /\ Count \in Nat /\ MaxGeneration \in Nat /\ Faulty \in BOOLEAN
         /\ \A p \in Participants : /\ deps[p] \in Seq(0 .. Count)
                                    /\ Len(deps[p]) \in Nat /\ DOMAIN deps[p] = 1 .. Len(deps[p])
<1>1. setup \in Setup /\ \A p \in DOMAIN deps : deps[p] \in Seq(0 .. Len(deps))
  BY SetupsAssumption DEF deps
<1>2. deps \in Seq(Seq(Nat)) /\ MaxGeneration \in Nat /\ Faulty \in BOOLEAN
  BY <1>1 DEF Setup, deps, MaxGeneration, Faulty
<1>3. Count \in Nat /\ DOMAIN deps = Participants
  BY <1>2 DEF Count, Participants
<1> QED
  BY <1>1, <1>2, <1>3 DEF Count

LEMMA DependencyFacts ==
  ASSUME setup \in Setups, NEW p \in Participants, NEW j \in DOMAIN deps[p]
  PROVE  j \in Nat \ {0} /\ deps[p][j] \in 0 .. Count
<1>1. /\ deps[p] \in Seq(0 .. Count)
      /\ Len(deps[p]) \in Nat /\ DOMAIN deps[p] = 1 .. Len(deps[p])
  BY SetupFacts
<1> HIDE DEF deps, Count
<1>2. j \in 1 .. Len(deps[p]) /\ j \in Nat \ {0}
  BY <1>1
<1> QED
  BY <1>1, <1>2, ElementOfSeq

LEMMA SameSetup ==
  ASSUME setup' = setup
  PROVE  /\ deps' = deps /\ Count' = Count /\ Participants' = Participants
         /\ MaxGeneration' = MaxGeneration /\ Faulty' = Faulty /\ Walk' = Walk
BY DEF deps, Count, Participants, MaxGeneration, Faulty, Walk

-----------------------------------------------------------------------------
(* The steps of power_manager_finalize *)

Frame == [of : Participants, next : Nat \ {0}]

LEMMA WalkFacts ==
  ASSUME GraphTypes
  PROVE  /\ mark \in [Participants -> 0 .. 2] /\ path \in Seq(Frame)
         /\ walk.root \in 1 .. Count + 1 /\ Count \in Nat /\ Len(path) \in Nat
         /\ \A k \in 1 .. Len(path) : path[k] \in Frame
<1>1. walk \in Walk /\ Count \in Nat
  BY SetupFacts DEF GraphTypes
<1>2. mark \in [Participants -> 0 .. 2] /\ path \in Seq(Frame) /\ walk.root \in 1 .. Count + 1
  BY <1>1 DEF Walk, mark, path, Frame
<1> QED
  BY <1>1, <1>2, LenProperties, ElementOfSeq

LEMMA SortedFrame ==
  ASSUME Sorted, UNCHANGED <<setup, order, mark>>
  PROVE  Sorted'
BY SameSetup DEF Sorted, Before

LEMMA SortedMarks ==
  ASSUME Sorted, UNCHANGED <<setup, order>>, NEW M, mark' = M,
         \A p \in Participants : M[p] = 2 <=> mark[p] = 2
  PROVE  Sorted'
<1>1. deps' = deps /\ Participants' = Participants /\ order' = order
  BY SameSetup
<1>2. (\A p \in Participants : mark[p] = 2 <=> \E i \in 1 .. Len(order) : order[i] = p)'
  BY <1>1 DEF Sorted
<1> QED
  BY <1>1, <1>2 DEF Sorted, Before

(* What is to be shown of a step of finalization, whose call goes on *)
WalkStep ==
  /\ setup' = setup /\ call' = call /\ call.pc = "finalize"

LEMMA FailKept ==
  ASSUME GraphTypes, Ordering, WalkStep, walk.root <= Count,
         walk' = [walk EXCEPT !.path = <<>>, !.root = @ + 1],
         available' = FALSE, order' = order
  PROVE  GraphTypes' /\ Ordering'
<1>1. /\ walk' \in Walk'
      /\ mark' = mark /\ path' = <<>> /\ walk'.root = walk.root + 1
  <2>1. walk \in Walk /\ Walk' = Walk
    BY SameSetup DEF GraphTypes, WalkStep
  <2>2. walk.root + 1 \in 1 .. Count + 1 /\ <<>> \in Seq([of : Participants, next : Nat \ {0}])
    BY WalkFacts, EmptySeq
  <2> QED
    BY <2>1, <2>2 DEF Walk, mark, path
<1>2. GraphTypes'
  BY <1>1, SameSetup DEF GraphTypes, WalkStep
<1>3. Nested'
  BY <1>1 DEF Nested
<1>4. Sorted'
  BY <1>1, SameSetup DEF Ordering, Sorted, Before, WalkStep
<1>5. Looped'
  BY <1>1 DEF Looped, WalkStep
<1> QED
  BY <1>2, <1>3, <1>4, <1>5 DEF Ordering

(* The loop of power_manager_finalize meets a participant that is done. *)
LEMMA SkipKept ==
  ASSUME GraphTypes, Ordering, WalkStep, path = <<>>, walk.root <= Count,
         mark[walk.root] = 2, walk' = [walk EXCEPT !.root = @ + 1],
         UNCHANGED <<order, available>>
  PROVE  GraphTypes' /\ Ordering'
<1>1. /\ walk' \in Walk'
      /\ mark' = mark /\ path' = <<>> /\ walk'.root = walk.root + 1
  <2>1. walk \in Walk /\ Walk' = Walk
    BY SameSetup DEF GraphTypes, WalkStep
  <2>2. walk.root + 1 \in 1 .. Count + 1 /\ <<>> \in Seq([of : Participants, next : Nat \ {0}])
    BY WalkFacts, EmptySeq
  <2> QED
    BY <2>1, <2>2 DEF Walk, mark, path
<1>2. GraphTypes'
  BY <1>1, SameSetup DEF GraphTypes, WalkStep
<1>3. Nested'
  BY <1>1 DEF Nested
<1>4. Sorted'
  BY <1>1, SameSetup DEF Ordering, Sorted, Before, WalkStep
<1>5. Looped'
  BY <1>1, WalkFacts DEF Ordering, Looped, WalkStep
<1> QED
  BY <1>2, <1>3, <1>4, <1>5 DEF Ordering

LEMMA NextDependency ==
  ASSUME NEW f \in Frame
  PROVE  LET g == [f EXCEPT !.next = @ + 1]
         IN g \in Frame /\ g.of = f.of /\ g.next = f.next + 1
BY DEF Frame

LEMMA AdvancedFacts ==
  ASSUME GraphTypes, path # <<>>
  PROVE  LET n == Len(path) c == Append(Front(path), [Last(path) EXCEPT !.next = @ + 1])
         IN /\ c \in Seq(Frame) /\ Len(c) = n /\ n \in Nat \ {0} /\ c # <<>>
            /\ \A k \in 1 .. n : c[k].of = path[k].of
            /\ \A k \in 1 .. n - 1 : c[k] = path[k]
            /\ c[n].next = path[n].next + 1
            /\ path[n] \in Frame
<1> DEFINE n == Len(path)
           x == [Last(path) EXCEPT !.next = @ + 1]
           c == Append(Front(path), x)
<1>1. /\ path \in Seq(Frame) /\ n \in Nat \ {0} /\ path[n] \in Frame
      /\ Front(path) \in Seq(Frame) /\ Len(Front(path)) = n - 1
      /\ \A k \in 1 .. n - 1 : Front(path)[k] = path[k]
      /\ Last(path) = path[n]
  BY WalkFacts, FrontFacts
<1>2. x \in Frame /\ x.of = path[n].of /\ x.next = path[n].next + 1
  <2>1. x = [path[n] EXCEPT !.next = @ + 1]
    BY <1>1
  <2> QED
    BY <1>1, <2>1, NextDependency
<1> HIDE DEF x
<1>3. /\ c \in Seq(Frame) /\ Len(c) = n /\ c # <<>>
      /\ \A k \in 1 .. n - 1 : c[k] = Front(path)[k]
      /\ c[n] = x
  <2>1. /\ c \in Seq(Frame) /\ Len(c) = (n - 1) + 1 /\ c # <<>>
        /\ \A k \in 1 .. n - 1 : c[k] = Front(path)[k]
        /\ c[(n - 1) + 1] = x
    BY <1>1, <1>2, AppendFacts
  <2>2. (n - 1) + 1 = n
    BY <1>1
  <2> QED
    BY <2>1, <2>2
<1> HIDE DEF c
<1>4. \A k \in 1 .. n : k = n \/ k \in 1 .. n - 1
  BY <1>1
<1>5. \A k \in 1 .. n : c[k].of = path[k].of
  BY <1>1, <1>2, <1>3, <1>4
<1> QED
  BY <1>1, <1>2, <1>3, <1>5 DEF c, x

(* What the dependencies before the next of a call are. *)
Handled(k, j) ==
  LET d == deps[path[k].of][j]
  IN /\ d # 0
     /\ \/ mark[d] = 2
        \/ k < Len(path) /\ j = path[k].next - 1 /\ d = path[k + 1].of

LEMMA NestedHandled ==
  Nested => \A k \in 1 .. Len(path) : \A j \in DOMAIN deps[path[k].of] :
              j < path[k].next => Handled(k, j)
BY DEF Nested, Handled

(* The innermost call meets a dependency that is done. *)
LEMMA AdvanceKept ==
  ASSUME GraphTypes, Ordering, WalkStep, path # <<>>,
         path[Len(path)].next \in DOMAIN deps[path[Len(path)].of],
         NEW d \in Participants, d = deps[path[Len(path)].of][path[Len(path)].next],
         mark[d] = 2,
         walk' = [walk EXCEPT !.path = Append(Front(path), [Last(path) EXCEPT !.next = @ + 1])],
         UNCHANGED <<order, available>>
  PROVE  GraphTypes' /\ Ordering'
<1> DEFINE n == Len(path)
           c == Append(Front(path), [Last(path) EXCEPT !.next = @ + 1])
<1>1. /\ c \in Seq(Frame) /\ Len(c) = n /\ n \in Nat \ {0} /\ c # <<>>
      /\ \A k \in 1 .. n : c[k].of = path[k].of
      /\ \A k \in 1 .. n - 1 : c[k] = path[k]
      /\ c[n].next = path[n].next + 1
      /\ path[n] \in Frame /\ path[n].next \in Nat
  BY AdvancedFacts DEF Frame
<1>2. walk' = [walk EXCEPT !.path = c]
  OBVIOUS
<1> HIDE DEF c
<1>3. /\ walk' \in Walk' /\ mark' = mark /\ path' = c /\ walk'.root = walk.root
  <2>1. walk \in Walk /\ Walk' = Walk
    BY SameSetup DEF GraphTypes, WalkStep
  <2> QED
    BY <1>1, <1>2, <2>1 DEF Walk, mark, path, Frame
<1>4. /\ deps' = deps /\ Participants' = Participants /\ Count' = Count
  BY SameSetup DEF WalkStep
<1>5. GraphTypes'
  BY <1>3, <1>4 DEF GraphTypes, WalkStep
<1>6. \A k \in 1 .. n : k = n \/ k \in 1 .. n - 1
  BY <1>1
<1>7. Nested'
  <2>1. \A k \in 1 .. n : mark'[c[k].of] = 1
    BY <1>1, <1>3 DEF Ordering, Nested
  <2>2. \A k, l \in 1 .. n : c[k].of = c[l].of => k = l
    BY <1>1 DEF Ordering, Nested
  <2>3. ASSUME NEW k \in 1 .. n, NEW j \in DOMAIN deps[c[k].of], j < c[k].next
        PROVE  /\ deps[c[k].of][j] # 0
               /\ \/ mark[deps[c[k].of][j]] = 2
                  \/ k < n /\ j = c[k].next - 1 /\ deps[c[k].of][j] = c[k + 1].of
    <3>0. c[k].of = path[k].of /\ j \in DOMAIN deps[path[k].of] /\ j \in Nat
          /\ path[k].of \in Participants
      <4>1. c[k].of = path[k].of /\ path[k].of \in Participants
        BY <1>1, WalkFacts DEF Frame
      <4> QED
        BY <4>1, <2>3, SetupFacts DEF GraphTypes
    <3>1. CASE k \in 1 .. n - 1
      <4>1. c[k] = path[k] /\ k + 1 \in 1 .. n /\ k < n /\ c[k + 1].of = path[k + 1].of
        BY <1>1, <3>1
      <4>2. Handled(k, j)
        BY <2>3, <3>0, <4>1, NestedHandled DEF Ordering
      <4> QED
        BY <4>1, <4>2 DEF Handled
    <3>2. CASE k = n /\ j < path[n].next
      <4>1. Handled(n, j) /\ ~(n < n)
        BY <1>1, <2>3, <3>0, <3>2, NestedHandled DEF Ordering
      <4> QED
        BY <3>0, <3>2, <4>1 DEF Handled
    <3>3. CASE k = n /\ j = path[n].next
      BY <1>1, <3>0, <3>3, WalkFacts DEF Participants
    <3> QED
      BY <1>1, <1>6, <2>3, <3>0, <3>1, <3>2, <3>3
  <2> QED
    BY <1>1, <1>3, <1>4, <2>1, <2>2, <2>3 DEF Nested
<1>8. Sorted'
  BY <1>3, SortedFrame DEF Ordering, WalkStep
<1>9. Looped'
  <2>1. c[1].of = path[1].of
    BY <1>1
  <2> QED
    BY <1>1, <1>3, <1>4, <2>1 DEF Ordering, Looped, WalkStep
<1> QED
  BY <1>5, <1>7, <1>8, <1>9 DEF Ordering

(* A call begins: of the participant the loop is at, or of the next dependency
   of the innermost call. *)
LEMMA CallKept ==
  ASSUME GraphTypes, Ordering, WalkStep, NEW d \in Participants, mark[d] = 0,
         NEW c \in Seq(Frame), Len(c) = Len(path),
         \A k \in 1 .. Len(path) : c[k].of = path[k].of,
         \A k \in 1 .. Len(path) - 1 : c[k] = path[k],
         Len(path) = 0 => d = walk.root /\ walk.root <= Count,
         Len(path) # 0 => /\ c[Len(path)].next = path[Len(path)].next + 1
                          /\ path[Len(path)].next \in DOMAIN deps[path[Len(path)].of]
                          /\ d = deps[path[Len(path)].of][path[Len(path)].next],
         walk' = [walk EXCEPT !.mark[d] = 1, !.path = Append(c, [of |-> d, next |-> 1])],
         UNCHANGED <<order, available>>
  PROVE  GraphTypes' /\ Ordering'
<1> DEFINE n == Len(path)
           x == [of |-> d, next |-> 1]
           P == Append(c, x)
           M == [mark EXCEPT ![d] = 1]
<1>1. x \in Frame /\ x.of = d /\ x.next = 1
  BY DEF Frame
<1> HIDE DEF x
<1>2. /\ P \in Seq(Frame) /\ Len(P) = n + 1 /\ n \in Nat /\ P # <<>>
      /\ \A k \in 1 .. n : P[k] = c[k]
      /\ P[n + 1] = x
  BY <1>1, AppendFacts
<1> HIDE DEF P
<1>3. /\ M \in [Participants -> 0 .. 2] /\ M[d] = 1
      /\ \A p \in Participants : p # d => M[p] = mark[p]
  BY WalkFacts
<1> HIDE DEF M
<1>4. /\ walk' \in Walk' /\ mark' = M /\ path' = P /\ walk'.root = walk.root
  <2>1. walk \in Walk /\ Walk' = Walk
    BY SameSetup DEF GraphTypes, WalkStep
  <2>2. walk' = [walk EXCEPT !.mark = M, !.path = P]
    BY <2>1 DEF P, M, x, mark, Walk
  <2> QED
    BY <1>2, <1>3, <2>1, <2>2 DEF Walk, mark, path, Frame
<1>5. /\ deps' = deps /\ Participants' = Participants /\ Count' = Count /\ call' = call
      /\ order' = order /\ available' = available /\ setup' = setup
  BY SameSetup DEF WalkStep
<1>6. GraphTypes'
  BY <1>4, <1>5 DEF GraphTypes
<1>7. /\ \A k \in 1 .. n : path[k] \in Frame /\ path[k].of \in Participants /\ path[k].next \in Nat
      /\ \A k \in 1 .. n : mark[path[k].of] = 1
      /\ \A k, l \in 1 .. n : path[k].of = path[l].of => k = l
  BY WalkFacts DEF Ordering, Nested, Frame
<1>8. \A k \in 1 .. n + 1 : k = n + 1 \/ k \in 1 .. n
  BY <1>2
<1>9. \A k \in 1 .. n : P[k].of = path[k].of /\ P[k].of # d /\ P[k].of \in Participants
  BY <1>2, <1>7
<1>10. d # 0 /\ 0 \notin Participants
  BY WalkFacts DEF Participants
<1>11. Nested'
  <2>1. \A k \in 1 .. n + 1 : M[P[k].of] = 1
    BY <1>1, <1>2, <1>3, <1>7, <1>8, <1>9
  <2>2. \A k, l \in 1 .. n + 1 : P[k].of = P[l].of => k = l
    BY <1>1, <1>2, <1>7, <1>8, <1>9
  <2>3. ASSUME NEW k \in 1 .. n + 1, NEW j \in DOMAIN deps[P[k].of], j < P[k].next
        PROVE  /\ deps[P[k].of][j] # 0
               /\ \/ M[deps[P[k].of][j]] = 2
                  \/ k < n + 1 /\ j = P[k].next - 1 /\ deps[P[k].of][j] = P[k + 1].of
    <3>0. P[k].of \in Participants /\ j \in Nat \ {0} /\ deps[P[k].of][j] \in 0 .. Count
      <4>1. P[k].of \in Participants
        BY <1>1, <1>2, <1>8, <1>9
      <4> QED
        BY <2>3, <4>1, DependencyFacts DEF GraphTypes
    <3>1. CASE k = n + 1
      BY <1>1, <1>2, <2>3, <3>0, <3>1
    <3>2. CASE k \in 1 .. n /\ j < path[k].next
      <4>1. Handled(k, j)
        BY <1>9, <2>3, <3>2, NestedHandled DEF Ordering
      <4>2. deps[P[k].of][j] # 0 /\ deps[P[k].of][j] \in Participants
        BY <1>9, <3>0, <3>2, <4>1, WalkFacts DEF Handled, Participants
      <4>3. CASE mark[deps[P[k].of][j]] = 2
        BY <1>3, <4>2, <4>3
      <4>4. CASE k < n /\ j = path[k].next - 1 /\ deps[path[k].of][j] = path[k + 1].of
        <5>1. k \in 1 .. n - 1 /\ k + 1 \in 1 .. n
          BY <1>2, <3>2, <4>4
        <5>2. P[k] = path[k] /\ P[k + 1].of = path[k + 1].of
          BY <1>2, <1>9, <5>1, <3>2
        <5> QED
          BY <1>2, <4>2, <4>4, <5>1, <5>2
      <4> QED
        BY <1>9, <3>2, <4>1, <4>3, <4>4 DEF Handled
    <3>3. CASE k \in 1 .. n /\ ~(j < path[k].next)
      <4>1. k = n /\ P[n] = c[n] /\ n # 0
        <5>1. k \in 1 .. n - 1 => P[k] = path[k]
          BY <1>2, <3>3
        <5> QED
          BY <1>2, <2>3, <3>3, <5>1
      <4>2. j = path[n].next /\ j = P[n].next - 1
        BY <1>2, <1>7, <2>3, <3>0, <3>3, <4>1
      <4> QED
        BY <1>1, <1>2, <1>9, <1>10, <4>1, <4>2, <3>3
    <3> QED
      BY <1>8, <3>1, <3>2, <3>3
  <2> QED
    BY <1>2, <1>4, <1>5, <2>1, <2>2, <2>3 DEF Nested
<1>12. Sorted'
  <2>1. \A p \in Participants : M[p] = 2 <=> mark[p] = 2
    BY <1>3
  <2> QED
    BY <1>4, <1>5, <2>1, SortedMarks DEF Ordering
<1>13. Looped'
  <2>1. walk.root <= Count /\ P[1].of = walk.root
    <3>1. CASE n = 0
      BY <1>1, <1>2, <3>1
    <3>2. CASE n # 0
      <4>1. path # <<>> /\ 1 \in 1 .. n
        BY <1>2, <3>2
      <4> QED
        BY <1>9, <4>1 DEF Ordering, Looped
    <3> QED
      BY <3>1, <3>2
  <2>2. available => \A p \in 1 .. walk.root - 1 : M[p] = 2
    <3>1. \A p \in 1 .. walk.root - 1 : p \in Participants
      BY WalkFacts DEF Participants
    <3> QED
      BY <1>3, <3>1 DEF Ordering, Looped
  <2> QED
    BY <1>4, <1>5, <2>1, <2>2 DEF Looped, WalkStep
<1> QED
  BY <1>6, <1>11, <1>12, <1>13 DEF Ordering

(* The innermost call has seen all its dependencies and returns. *)
LEMMA ReturnKept ==
  ASSUME GraphTypes, Ordering, WalkStep, path # <<>>,
         NEW t, t = path[Len(path)].of, path[Len(path)].next > Len(deps[t]),
         walk' = BackToLoop([walk EXCEPT !.mark[t] = 2, !.path = Front(path)]),
         order' = Append(order, t), available' = available
  PROVE  GraphTypes' /\ Ordering'
<1> DEFINE n == Len(path)
           P == Front(path)
           M == [mark EXCEPT ![t] = 2]
           w == [walk EXCEPT !.mark[t] = 2, !.path = Front(path)]
           N == Len(order)
           O == Append(order, t)
<1>1. /\ P \in Seq(Frame) /\ Len(P) = n - 1 /\ n \in Nat \ {0}
      /\ \A k \in 1 .. n - 1 : P[k] = path[k]
  BY WalkFacts, FrontFacts
<1>2. /\ t \in Participants /\ path[n].next \in Nat /\ n \in 1 .. n
      /\ deps[t] \in Seq(0 .. Count) /\ Len(deps[t]) \in Nat /\ DOMAIN deps[t] = 1 .. Len(deps[t])
  <2>1. n \in 1 .. n /\ path[n] \in Frame
    BY <1>1, WalkFacts
  <2>2. t \in Participants /\ path[n].next \in Nat
    BY <2>1 DEF Frame
  <2> QED
    BY <2>1, <2>2, SetupFacts DEF GraphTypes
<1>3. /\ M \in [Participants -> 0 .. 2] /\ M[t] = 2
      /\ \A p \in Participants : p # t => M[p] = mark[p]
      /\ \A p \in Participants : mark[p] = 2 => M[p] = 2
  BY WalkFacts, <1>2
<1>4. /\ w \in Walk /\ w.mark = M /\ w.path = P /\ w.root = walk.root
  <2>1. walk \in Walk
    BY DEF GraphTypes
  <2>2. w = [walk EXCEPT !.mark = M, !.path = P]
    BY <2>1 DEF mark, Walk
  <2> HIDE DEF w, M, P
  <2> QED
    BY <1>1, <1>3, <2>1, <2>2 DEF Walk, Frame
<1> HIDE DEF w, M, P
<1>5. /\ deps' = deps /\ Participants' = Participants /\ Count' = Count /\ call' = call
      /\ order' = O /\ available' = available /\ setup' = setup /\ Walk' = Walk
  BY SameSetup DEF WalkStep
<1>6. walk.root \in 1 .. Count /\ path[1].of = walk.root /\ Count \in Nat
  BY WalkFacts DEF Ordering, Looped
<1>7. /\ walk' \in Walk' /\ mark' = M /\ path' = P
      /\ walk'.root = IF n = 1 THEN walk.root + 1 ELSE walk.root
  <2>0. walk' = BackToLoop(w)
    BY DEF w
  <2>1. CASE P = <<>>
    <3>1. walk' = [w EXCEPT !.root = @ + 1] /\ n = 1
      BY <1>1, <1>4, <2>0, <2>1, EmptySeq DEF BackToLoop
    <3>2. walk.root + 1 \in 1 .. Count + 1
      BY <1>6
    <3> QED
      BY <1>4, <1>5, <3>1, <3>2 DEF Walk, mark, path
  <2>2. CASE P # <<>>
    <3>1. walk' = w /\ n # 1
      BY <1>1, <1>4, <2>0, <2>2, EmptySeq DEF BackToLoop
    <3> QED
      BY <1>4, <1>5, <3>1 DEF mark, path
  <2> QED
    BY <2>1, <2>2
<1>8. /\ O \in Seq(Participants) /\ N \in Nat /\ Len(O) = N + 1
      /\ \A i \in 1 .. N : O[i] = order[i]
      /\ O[N + 1] = t
  BY <1>2, AppendFacts DEF GraphTypes
<1> HIDE DEF O
<1>9. GraphTypes'
  BY <1>5, <1>7, <1>8 DEF GraphTypes
<1>10. /\ \A k \in 1 .. n : path[k] \in Frame /\ path[k].of \in Participants /\ path[k].next \in Nat
       /\ \A k \in 1 .. n : mark[path[k].of] = 1
       /\ \A k, l \in 1 .. n : path[k].of = path[l].of => k = l
  BY WalkFacts DEF Ordering, Nested, Frame
<1>11. \A k \in 1 .. n - 1 : k \in 1 .. n /\ k < n /\ path[k].of # t
  BY <1>1, <1>2, <1>10
<1>12. Nested'
  <2>1. \A k \in 1 .. n - 1 : M[P[k].of] = 1
    BY <1>1, <1>3, <1>10, <1>11
  <2>2. \A k, l \in 1 .. n - 1 : P[k].of = P[l].of => k = l
    BY <1>1, <1>10, <1>11
  <2>3. ASSUME NEW k \in 1 .. n - 1, NEW j \in DOMAIN deps[P[k].of], j < P[k].next
        PROVE  /\ deps[P[k].of][j] # 0
               /\ \/ M[deps[P[k].of][j]] = 2
                  \/ k < n - 1 /\ j = P[k].next - 1 /\ deps[P[k].of][j] = P[k + 1].of
    <3>1. P[k] = path[k] /\ k \in 1 .. n /\ path[k].of \in Participants
      BY <1>1, <1>10, <1>11
    <3>2. Handled(k, j)
      BY <2>3, <3>1, NestedHandled DEF Ordering
    <3>3. deps[path[k].of][j] # 0 /\ deps[path[k].of][j] \in Participants
      <4>1. deps[path[k].of] \in Seq(0 .. Count) /\ j \in 1 .. Len(deps[path[k].of])
        BY <3>1, <2>3, SetupFacts DEF GraphTypes
      <4> QED
        BY <1>6, <3>2, <4>1, ElementOfSeq DEF Handled, Participants
    <3>4. CASE mark[deps[path[k].of][j]] = 2
      BY <1>3, <3>1, <3>3, <3>4
    <3>5. CASE j = path[k].next - 1 /\ deps[path[k].of][j] = path[k + 1].of
      <4>1. CASE k = n - 1
        BY <1>1, <1>3, <3>1, <3>3, <3>5, <4>1
      <4>2. CASE k # n - 1
        <5>1. k < n - 1 /\ k + 1 \in 1 .. n - 1
          BY <1>1, <4>2
        <5> QED
          BY <1>1, <3>1, <3>3, <3>5, <5>1
      <4> QED
        BY <4>1, <4>2
    <3> QED
      BY <3>2, <3>4, <3>5 DEF Handled
  <2> QED
    BY <1>1, <1>5, <1>7, <2>1, <2>2, <2>3 DEF Nested
<1>13. Sorted'
  <2>0. \A i \in 1 .. N + 1 : i = N + 1 \/ i \in 1 .. N
    BY <1>8
  <2>00. /\ \A p \in Participants : mark[p] = 2 <=> \E i \in 1 .. N : order[i] = p
         /\ \A i, j \in 1 .. N : order[i] = order[j] => i = j
         /\ \A i \in 1 .. N : \A d \in Range(deps[order[i]]) : Before(d, i)
    BY DEF Ordering, Sorted
  <2>1. ASSUME NEW p \in Participants
        PROVE  M[p] = 2 <=> \E i \in 1 .. N + 1 : O[i] = p
    <3>1. CASE p = t
      BY <1>3, <1>8, <3>1
    <3>2. CASE p # t
      <4>1. (\E i \in 1 .. N : order[i] = p) <=> \E i \in 1 .. N + 1 : O[i] = p
        BY <1>8, <2>0, <3>2
      <4> QED
        BY <1>3, <2>00, <3>2, <4>1
    <3> QED
      BY <3>1, <3>2
  <2>2. ~ \E i \in 1 .. N : order[i] = t
    BY <1>2, <1>10, <2>00
  <2>3. \A i, j \in 1 .. N + 1 : O[i] = O[j] => i = j
    BY <1>8, <2>0, <2>00, <2>2
  <2>4. ASSUME NEW i \in 1 .. N + 1, NEW d \in Range(deps[O[i]])
        PROVE  \E j \in 1 .. i - 1 : O[j] = d
    <3>1. CASE i \in 1 .. N
      <4>1. Before(d, i)
        BY <1>8, <2>00, <2>4, <3>1
      <4>2. PICK j \in 1 .. i - 1 : order[j] = d
        BY <4>1 DEF Before
      <4>3. j \in 1 .. N
        BY <1>8, <3>1, <4>2
      <4> QED
        BY <1>8, <4>2, <4>3
    <3>2. CASE i = N + 1
      <4>1. PICK j \in DOMAIN deps[t] : deps[t][j] = d
        BY <1>8, <2>4, <3>2 DEF Range
      <4>2. j < path[n].next
        BY <1>2, <4>1
      <4>3. Handled(n, j) /\ ~(n < n)
        BY <1>1, <1>2, <4>1, <4>2, NestedHandled DEF Ordering
      <4>4. d # 0 /\ mark[d] = 2
        BY <4>1, <4>3 DEF Handled
      <4>5. d \in Participants
        <5>1. d \in 0 .. Count
          BY <1>2, <4>1, ElementOfSeq
        <5> QED
          BY <1>6, <4>4, <5>1 DEF Participants
      <4>6. PICK m \in 1 .. N : order[m] = d
        BY <2>00, <4>4, <4>5
      <4>7. m \in 1 .. i - 1
        BY <1>8, <3>2
      <4> QED
        BY <1>8, <4>6, <4>7
    <3> QED
      BY <2>0, <3>1, <3>2
  <2> QED
    BY <1>5, <1>7, <1>8, <2>1, <2>3, <2>4 DEF Sorted, Before
<1>14. Looped'
  <2>1. P # <<>> => walk'.root = walk.root /\ P[1].of = walk.root
    BY <1>1, <1>6, <1>7, EmptySeq
  <2>2. available => \A p \in 1 .. walk'.root - 1 : M[p] = 2
    <3> SUFFICES ASSUME available, NEW p \in 1 .. walk'.root - 1 PROVE M[p] = 2
      OBVIOUS
    <3>1. p \in Participants
      BY <1>6, <1>7 DEF Participants
    <3>2. CASE p \in 1 .. walk.root - 1
      BY <1>3, <3>1, <3>2 DEF Ordering, Looped
    <3>3. CASE p \notin 1 .. walk.root - 1
      <4>1. n = 1 /\ p = walk.root
        BY <1>6, <1>7, <3>3
      <4> QED
        BY <1>3, <1>6, <4>1
    <3> QED
      BY <3>2, <3>3
  <2>3. (path # <<>> => walk.root <= Count /\ path[1].of = walk.root)'
    BY <1>5, <1>6, <1>7, <2>1
  <2>4. (available => \A p \in 1 .. walk.root - 1 : mark[p] = 2)'
    BY <1>5, <1>7, <2>2
  <2> QED
    BY <1>5, <2>3, <2>4 DEF Looped, WalkStep
<1> QED
  BY <1>9, <1>12, <1>13, <1>14 DEF Ordering

LEMMA VisitNextKept ==
  ASSUME GraphTypes, Ordering, VisitNext
  PROVE  GraphTypes' /\ Ordering'
<1>1. /\ WalkStep /\ path = <<>> /\ walk.root <= Count /\ visit(walk.root, <<>>) /\ order' = order
  BY DEF VisitNext, Finalizing, WalkStep, path
<1>2. walk.root \in Participants /\ mark[walk.root] \in 0 .. 2 /\ walk.root # 0
  BY <1>1, WalkFacts DEF Participants
<1>3. CASE mark[walk.root] = 1
  <2>1. walk' = [walk EXCEPT !.path = <<>>, !.root = @ + 1] /\ available' = FALSE
    BY <1>1, <1>3 DEF visit, mark
  <2> QED
    BY <1>1, <2>1, FailKept
<1>4. CASE mark[walk.root] = 2
  <2>1. walk' = BackToLoop([walk EXCEPT !.path = <<>>]) /\ available' = available
    BY <1>1, <1>2, <1>4 DEF visit, mark
  <2>2. [walk EXCEPT !.path = <<>>] = walk /\ walk.path = <<>>
    BY <1>1 DEF GraphTypes, Walk, path
  <2>3. walk' = [walk EXCEPT !.root = @ + 1]
    BY <2>1, <2>2 DEF BackToLoop
  <2> QED
    BY <1>1, <1>4, <2>1, <2>3, SkipKept
<1>5. CASE mark[walk.root] = 0
  <2>1. /\ walk' = [walk EXCEPT !.mark[walk.root] = 1,
                                !.path = Append(<<>>, [of |-> walk.root, next |-> 1])]
        /\ available' = available
    BY <1>1, <1>2, <1>5 DEF visit, mark
  <2>2. <<>> \in Seq(Frame) /\ Len(<<>>) = Len(path) /\ Len(path) = 0
    BY <1>1
  <2> QED
    BY <1>1, <1>2, <1>5, <2>1, <2>2, CallKept
<1> QED
  BY <1>2, <1>3, <1>4, <1>5

LEMMA VisitDependencyKept ==
  ASSUME GraphTypes, Ordering, VisitDependency
  PROVE  GraphTypes' /\ Ordering'
<1> DEFINE n == Len(path)
           top == Last(path)
           d == deps[top.of][top.next]
           c == Append(Front(path), [top EXCEPT !.next = @ + 1])
<1>1. /\ WalkStep /\ path # <<>> /\ top.next <= Len(deps[top.of]) /\ visit(d, c)
      /\ order' = order
  BY DEF VisitDependency, Finalizing, WalkStep, path
<1>2. /\ top = path[n] /\ top \in Frame /\ n \in Nat \ {0}
  BY <1>1, WalkFacts, FrontFacts
<1>3. /\ c \in Seq(Frame) /\ Len(c) = n /\ c # <<>>
      /\ \A k \in 1 .. n : c[k].of = path[k].of
      /\ \A k \in 1 .. n - 1 : c[k] = path[k]
      /\ c[n].next = path[n].next + 1
  BY <1>1, AdvancedFacts
<1>4. top.of \in Participants /\ top.next \in Nat \ {0}
  BY <1>2 DEF Frame
<1>5. walk.root <= Count
  BY <1>1 DEF Ordering, Looped
<1>6. CASE d = 0 \/ mark[d] = 1
  <2>1. walk' = [walk EXCEPT !.path = <<>>, !.root = @ + 1] /\ available' = FALSE
    BY <1>1, <1>6 DEF visit, mark
  <2> QED
    BY <1>1, <1>5, <2>1, FailKept
<1>7. CASE ~(d = 0 \/ mark[d] = 1)
  <2>1. top.next \in DOMAIN deps[top.of] /\ d \in Participants
    <3>1. deps[top.of] \in Seq(0 .. Count) /\ Len(deps[top.of]) \in Nat
          /\ DOMAIN deps[top.of] = 1 .. Len(deps[top.of]) /\ Count \in Nat
      BY <1>4, SetupFacts DEF GraphTypes
    <3>2. top.next \in 1 .. Len(deps[top.of])
      BY <1>1, <1>4, <3>1
    <3>3. d \in 0 .. Count
      BY <3>1, <3>2, ElementOfSeq
    <3> QED
      BY <1>7, <3>1, <3>2, <3>3 DEF Participants
  <2>2. mark[d] \in 0 .. 2
    BY <2>1, WalkFacts
  <2>3. CASE mark[d] = 2
    <3>1. walk' = BackToLoop([walk EXCEPT !.path = c]) /\ available' = available
      BY <1>1, <1>7, <2>3 DEF visit, mark
    <3>2. [walk EXCEPT !.path = c].path = c
      BY DEF GraphTypes, Walk
    <3>3. walk' = [walk EXCEPT !.path = c]
      BY <1>3, <3>1, <3>2 DEF BackToLoop
    <3> QED
      BY <1>1, <1>2, <2>1, <2>3, <3>1, <3>3, AdvanceKept
  <2>4. CASE mark[d] = 0
    <3>1. /\ walk' = [walk EXCEPT !.mark[d] = 1, !.path = Append(c, [of |-> d, next |-> 1])]
          /\ available' = available
      BY <1>1, <1>7, <2>4 DEF visit, mark
    <3> HIDE DEF c
    <3> QED
      BY <1>1, <1>2, <1>3, <2>1, <2>4, <3>1, CallKept
  <2> QED
    BY <1>7, <2>2, <2>3, <2>4
<1> QED
  BY <1>6, <1>7

LEMMA VisitReturnsKept ==
  ASSUME GraphTypes, Ordering, VisitReturns
  PROVE  GraphTypes' /\ Ordering'
<1> DEFINE t == Last(path).of
<1>1. /\ WalkStep /\ path # <<>> /\ Last(path).next > Len(deps[t])
      /\ walk' = BackToLoop([walk EXCEPT !.mark[t] = 2, !.path = Front(path)])
      /\ order' = Append(order, t) /\ available' = available
  BY DEF VisitReturns, Finalizing, WalkStep, path
<1>2. Last(path) = path[Len(path)]
  BY <1>1, WalkFacts, FrontFacts
<1> QED
  BY <1>1, <1>2, ReturnKept

LEMMA FinalizedKept ==
  ASSUME GraphTypes, Ordering, Finalized
  PROVE  GraphTypes' /\ Ordering'
<1>1. /\ path = <<>> /\ walk.root = Count + 1
      /\ UNCHANGED <<setup, order, available, walk, mark, path>>
  BY WalkFacts DEF Finalized, Finalizing, path, mark
<1>2. GraphTypes' /\ deps' = deps /\ Count' = Count
  BY <1>1, SameSetup DEF GraphTypes
<1>3. Nested' /\ Sorted'
  BY <1>1, <1>2, SortedFrame DEF Ordering, Nested
<1>4. Looped'
  BY <1>1, <1>2 DEF Ordering, Looped
<1> QED
  BY <1>2, <1>3, <1>4 DEF Ordering

LEMMA GraphFrame ==
  ASSUME GraphTypes, Ordering, UNCHANGED graph,
         call'.pc = "finalize" <=> call.pc = "finalize"
  PROVE  GraphTypes' /\ Ordering'
<1>1. UNCHANGED <<setup, order, available, walk, mark, path>>
  BY DEF graph, path, mark
<1>2. GraphTypes' /\ deps' = deps /\ Count' = Count
  BY <1>1, SameSetup DEF GraphTypes
<1>3. Nested' /\ Sorted'
  BY <1>1, <1>2, SortedFrame DEF Ordering, Nested
<1>4. Looped'
  BY <1>1, <1>2 DEF Ordering, Looped
<1> QED
  BY <1>2, <1>3, <1>4 DEF Ordering

(* A finalization that did not fail has ordered all participants. *)
LEMMA OrderingSound ==
  ASSUME GraphTypes, Ordering
  PROVE  SoundOrder
<1> SUFFICES ASSUME available, call.pc # "finalize" PROVE SoundOrder
  BY DEF SoundOrder
<1> DEFINE N == Len(order)
<1>1. /\ order \in Seq(Participants) /\ N \in Nat /\ Count \in Nat
      /\ order \in [1 .. N -> Participants]
  BY WalkFacts DEF GraphTypes
<1>2. /\ \A p \in Participants : \E i \in 1 .. N : order[i] = p
      /\ \A i, j \in 1 .. N : order[i] = order[j] => i = j
      /\ \A i \in 1 .. N : \A d \in Range(deps[order[i]]) : Before(d, i)
  <2>1. \A p \in Participants : mark[p] = 2
    <3>1. walk.root = Count + 1 /\ \A p \in 1 .. walk.root - 1 : mark[p] = 2
      BY DEF Ordering, Looped
    <3>2. walk.root - 1 = Count
      BY <1>1, <3>1
    <3> QED
      BY <3>1, <3>2 DEF Participants
  <2> QED
    BY <2>1 DEF Ordering, Sorted
<1>3. N = Count
  <2>1. order \in Bijection(1 .. N, Participants)
    BY <1>1, <1>2 DEF Bijection, Injection, Surjection, IsInjective
  <2>2. ExistsBijection(1 .. N, Participants)
    BY <2>1 DEF ExistsBijection
  <2>3. /\ IsFiniteSet(1 .. N) /\ Cardinality(1 .. N) = N
        /\ IsFiniteSet(1 .. Count) /\ Cardinality(1 .. Count) = Count
    <3>1. 1 \in Int /\ N \in Int /\ Count \in Int /\ (1 > N => N = 0) /\ (1 > Count => Count = 0)
          /\ N - 1 + 1 = N /\ Count - 1 + 1 = Count
      BY <1>1
    <3> QED
      BY <3>1, FS_Interval
  <2>4. Cardinality(1 .. N) = Cardinality(Participants)
    BY <2>2, <2>3, FS_Bijection DEF Participants
  <2> QED
    BY <2>3, <2>4 DEF Participants
<1> QED
  BY <1>2, <1>3 DEF SoundOrder

-----------------------------------------------------------------------------
(* The parts of the type invariant, and the pass *)

LEMMA TypeParts ==
  TypeOK <=> /\ ClockTypes /\ GraphTypes /\ FlagTypes /\ TurnTypes
             /\ display \in DisplayRecord /\ call \in CallRecord
BY DEF TypeOK, ClockTypes, GraphTypes, FlagTypes, TurnTypes, DisplayRecord, CallRecord,
       Walk, Places, PartStates

LEMMA GotoFacts ==
  ASSUME NEW c \in CallRecord, NEW p \in Places
  PROVE  LET g == [c EXCEPT !.pc = p]
         IN g \in CallRecord /\ g.pc = p
BY DEF CallRecord

(* A step other than those of finalization goes from one place of the pass to another. *)
Moves ==
  /\ call' \in CallRecord /\ UNCHANGED graph
  /\ call'.pc = "finalize" <=> call.pc = "finalize"

LEMMA Stays ==
  ASSUME call \in CallRecord, UNCHANGED <<graph, call>>
  PROVE  Moves
BY DEF Moves

LEMMA ReturnMoves ==
  ASSUME call \in CallRecord, call.pc = "drive", Return, UNCHANGED graph
  PROVE  Moves
<1>1. call' \in CallRecord /\ call'.pc \in {"drive", "done"}
  BY DEF Return, CallRecord, Places
<1> QED
  BY <1>1 DEF Moves

LEMMA BeginPassMoves ==
  ASSUME call \in CallRecord, FlagTypes, BeginPass
  PROVE  Moves
<1>1. PICK deadline \in BOOLEAN :
        call' = [NoCall EXCEPT !.pc = IF state \in Between THEN "take" ELSE "inhibit",
                               !.first = state \in Between,
                               !.deadline = deadline, !.power = notified]
  BY DEF BeginPass
<1>2. NoCall \in CallRecord /\ notified \in BOOLEAN /\ (state \in Between) \in BOOLEAN
  BY DEF NoCall, CallRecord, Places, FlagTypes
<1>3. call' \in CallRecord /\ call'.pc \in {"take", "inhibit"}
  BY <1>1, <1>2 DEF CallRecord, Places
<1> QED
  BY <1>3 DEF Moves, BeginPass

LEMMA InhibitMoves ==
  ASSUME call \in CallRecord, Inhibit
  PROVE  Moves
<1>1. PICK b \in BOOLEAN : call' = [call EXCEPT !.pc = "take", !.active = b]
  BY DEF Inhibit
<1>2. call' \in CallRecord /\ call'.pc = "take"
  BY <1>1 DEF CallRecord, Places
<1> QED
  BY <1>2 DEF Moves, Inhibit

LEMMA TakeMoves ==
  ASSUME call \in CallRecord, FlagTypes, Take
  PROVE  Moves
<1>1. call' \in CallRecord /\ call'.pc = "deadline"
  BY DEF CallRecord, Places, FlagTypes, Take
<1> QED
  BY <1>1 DEF Moves, Take

LEMMA DeadlineMoves ==
  ASSUME call \in CallRecord, Deadline
  PROVE  Moves
<1>1. PICK b \in BOOLEAN : call' = [call EXCEPT !.pc = "wake", !.request = @ \/ b]
  BY DEF Deadline
<1>2. call' \in CallRecord /\ call'.pc = "wake"
  BY <1>1 DEF CallRecord, Places
<1> QED
  BY <1>2 DEF Moves, Deadline

LEMMA CollectWakeMoves ==
  ASSUME call \in CallRecord, CollectWake
  PROVE  Moves
<1>1. call' \in CallRecord /\ call'.pc = "start"
  BY GotoFacts DEF CollectWake, Goto, Places
<1> QED
  BY <1>1 DEF Moves, CollectWake

LEMMA StartMoves ==
  ASSUME call \in CallRecord, Start
  PROVE  Moves
<1>1. PICK b \in BOOLEAN : call' = [call EXCEPT !.pc = "drive", !.request = b]
  BY DEF Start
<1>2. call' \in CallRecord /\ call'.pc = "drive"
  BY <1>1 DEF CallRecord, Places
<1> QED
  BY <1>2 DEF Moves, Start

LEMMA EndUpdateMoves ==
  ASSUME call \in CallRecord, EndUpdate
  PROVE  Moves
<1>1. NoCall \in CallRecord /\ NoCall.pc = "none"
  BY DEF NoCall, CallRecord, Places
<1>2. CASE call' = [call EXCEPT !.pc = "inhibit", !.first = FALSE]
  <2>1. call' \in CallRecord /\ call'.pc = "inhibit"
    BY <1>2 DEF CallRecord, Places
  <2> QED
    BY <2>1 DEF Moves, EndUpdate
<1>3. CASE call' = NoCall
  BY <1>1, <1>3 DEF Moves, EndUpdate
<1> QED
  BY <1>2, <1>3 DEF EndUpdate

(* The steps of power_manager_finalize *)
Finalize == VisitNext \/ VisitDependency \/ VisitReturns \/ Finalized

LEMMA CallStep ==
  ASSUME call \in CallRecord, FlagTypes, Next
  PROVE  Finalize \/ Moves
<1>1. CASE Finalize
  BY <1>1
<1>2. CASE BeginPass \/ Inhibit \/ Take \/ Deadline \/ CollectWake \/ Start \/ EndUpdate
  BY <1>2, BeginPassMoves, InhibitMoves, TakeMoves, DeadlineMoves, CollectWakeMoves,
     StartMoves, EndUpdateMoves
<1>3. CASE SuspendNext
  <2>1. UNCHANGED graph /\ call.pc = "drive"
    BY <1>3 DEF SuspendNext, Turn
  <2>2. UNCHANGED call \/ Return
    BY <1>3 DEF SuspendNext
  <2> QED
    BY <2>1, <2>2, Stays, ReturnMoves
<1>4. CASE Sleep
  <2>1. UNCHANGED graph /\ call.pc = "drive" /\ (UNCHANGED call \/ Return)
    BY <1>4 DEF Sleep, Turn
  <2> QED
    BY <2>1, Stays, ReturnMoves
<1>5. CASE ResumeNext
  <2>1. UNCHANGED graph /\ call.pc = "drive"
    BY <1>5 DEF ResumeNext, Turn
  <2>2. UNCHANGED call \/ Return
    BY <1>5 DEF ResumeNext
  <2> QED
    BY <2>1, <2>2, Stays, ReturnMoves
<1>6. CASE finish \/ NothingToDrive
  BY <1>6, ReturnMoves DEF finish, NothingToDrive, Turn
<1>7. CASE Consume
  BY <1>7, Stays DEF Consume
<1>8. CASE Tick \/ power_manager_begin_shutdown \/ power_manager_request_suspend \/ Wake
  BY <1>8, Stays DEF Tick, power_manager_begin_shutdown, power_manager_request_suspend, Wake
<1>9. CASE \E q \in Policies : SetPolicy(q)
  BY <1>9, Stays DEF SetPolicy
<1>10. CASE \E p \in Participants : Answer(p) \/ AnswerAgain(p)
  BY <1>10, Stays DEF Answer, AnswerAgain
<1> QED
  BY <1>1, <1>2, <1>3, <1>4, <1>5, <1>6, <1>7, <1>8, <1>9, <1>10 DEF Next, Pass, Finalize

(* What every step preserves of finalization, the types included *)
LEMMA GraphStep ==
  ASSUME TypeOK, Ordering, Next
  PROVE  GraphTypes' /\ Ordering' /\ SoundOrder' /\ call' \in CallRecord
<1>1. GraphTypes /\ FlagTypes /\ call \in CallRecord
  BY TypeParts
<1>2. CASE Finalize
  <2>1. GraphTypes' /\ Ordering'
    BY <1>1, <1>2, VisitNextKept, VisitDependencyKept, VisitReturnsKept, FinalizedKept DEF Finalize
  <2>2. call' = call \/ Goto("none")
    BY <1>2 DEF Finalize, VisitNext, VisitDependency, VisitReturns, Finalized
  <2>3. call' \in CallRecord
    BY <1>1, <2>2, GotoFacts DEF Goto, Places
  <2> QED
    BY <2>1, <2>3, OrderingSound, PTL
<1>3. CASE Moves
  <2>1. GraphTypes' /\ Ordering' /\ call' \in CallRecord
    BY <1>1, <1>3, GraphFrame DEF Moves
  <2> QED
    BY <2>1, OrderingSound, PTL
<1> QED
  BY <1>1, <1>2, <1>3, CallStep

-----------------------------------------------------------------------------
(* The display *)

(* What a change of the display keeps, and the two stages it was asked for *)
Shown(t, off, panelOff) ==
  t \in DisplayRecord /\ Belief(t) /\ t.screenOff = off /\ t.panelOff = panelOff

LEMMA BrightnessKept ==
  ASSUME NEW d, NEW off, NEW panelOff, Shown(d, off, panelOff), NEW b \in Nat,
         b # 0 => d.panel, NEW r \in set_brightness(d, b)
  PROVE  /\ Shown(r.to, off, panelOff)
         /\ r.ok => r.to.lamp = b
<1>1. d \in DisplayRecord /\ Belief(d) /\ d.screenOff = off /\ d.panelOff = panelOff
  BY DEF Shown
<1> DEFINE w == [d EXCEPT !.desired = b]
<1>2. CASE d.brightnessValid /\ d.brightness = b /\ r = Done(w)
  <2>1. r.to = w /\ w \in DisplayRecord /\ w.screenOff = off /\ w.panelOff = panelOff
        /\ w.lamp = d.lamp /\ w.panel = d.panel /\ w.brightness = d.brightness
        /\ w.brightnessValid = d.brightnessValid /\ w.enabled = d.enabled
        /\ w.enabledValid = d.enabledValid
    BY <1>1, <1>2 DEF Done, DisplayRecord
  <2> HIDE DEF w
  <2> QED
    BY <1>1, <1>2, <2>1 DEF Shown, Belief
<1>3. CASE r = Done([w EXCEPT !.brightness = b, !.brightnessValid = TRUE, !.lamp = b])
  <2> DEFINE t == [w EXCEPT !.brightness = b, !.brightnessValid = TRUE, !.lamp = b]
  <2>1. r.to = t /\ t \in DisplayRecord /\ t.screenOff = off /\ t.panelOff = panelOff
        /\ t.lamp = b /\ t.panel = d.panel /\ t.brightness = b
        /\ t.enabled = d.enabled /\ t.enabledValid = d.enabledValid
    BY <1>1, <1>3 DEF Done, DisplayRecord
  <2> HIDE DEF t
  <2> QED
    BY <1>1, <2>1 DEF Shown, Belief
<1>4. CASE \E l \in {d.lamp, b} : r = Failed([[w EXCEPT !.brightnessValid = FALSE] EXCEPT !.lamp = l])
  <2>1. PICK l \in {d.lamp, b} : r = Failed([[w EXCEPT !.brightnessValid = FALSE] EXCEPT !.lamp = l])
    BY <1>4
  <2> DEFINE t == [[w EXCEPT !.brightnessValid = FALSE] EXCEPT !.lamp = l]
  <2>2. l \in Nat
    BY <1>1, <2>1 DEF DisplayRecord
  <2>3. r.to = t /\ r.ok = FALSE /\ t \in DisplayRecord /\ t.screenOff = off /\ t.panelOff = panelOff
        /\ t.lamp = l /\ t.panel = d.panel /\ t.brightnessValid = FALSE
        /\ t.enabled = d.enabled /\ t.enabledValid = d.enabledValid
    BY <1>1, <2>1, <2>2 DEF Failed, DisplayRecord
  <2> HIDE DEF t
  <2> QED
    BY <1>1, <2>1, <2>3 DEF Shown, Belief
<1> QED
  BY <1>2, <1>3, <1>4 DEF set_brightness

LEMMA PanelKept ==
  ASSUME NEW d, NEW off, NEW panelOff, Shown(d, off, panelOff), NEW e \in BOOLEAN,
         ~e => d.lamp = 0, NEW r \in set_panel(d, e)
  PROVE  /\ Shown(r.to, off, panelOff)
         /\ r.ok => r.to.panel = e
<1>1. d \in DisplayRecord /\ Belief(d) /\ d.screenOff = off /\ d.panelOff = panelOff
  BY DEF Shown
<1>2. CASE d.enabledValid /\ d.enabled = e /\ r = Done(d)
  <2>1. r.to = d
    BY <1>2 DEF Done
  <2> QED
    BY <1>1, <1>2, <2>1 DEF Shown, Belief
<1>3. CASE r = Done([d EXCEPT !.enabled = e, !.enabledValid = TRUE, !.panel = e])
  <2> DEFINE t == [d EXCEPT !.enabled = e, !.enabledValid = TRUE, !.panel = e]
  <2>1. r.to = t /\ t \in DisplayRecord /\ t.screenOff = off /\ t.panelOff = panelOff
        /\ t.lamp = d.lamp /\ t.panel = e /\ t.enabled = e
        /\ t.brightness = d.brightness /\ t.brightnessValid = d.brightnessValid
    BY <1>1, <1>3 DEF Done, DisplayRecord
  <2> HIDE DEF t
  <2> QED
    BY <1>1, <2>1 DEF Shown, Belief
<1>4. CASE \E x \in {d.panel, e} : r = Failed([d EXCEPT !.enabledValid = FALSE, !.panel = x])
  <2>1. PICK x \in {d.panel, e} : r = Failed([d EXCEPT !.enabledValid = FALSE, !.panel = x])
    BY <1>4
  <2> DEFINE t == [d EXCEPT !.enabledValid = FALSE, !.panel = x]
  <2>2. x \in BOOLEAN
    BY <1>1, <2>1 DEF DisplayRecord
  <2>3. r.to = t /\ r.ok = FALSE /\ t \in DisplayRecord /\ t.screenOff = off /\ t.panelOff = panelOff
        /\ t.lamp = d.lamp /\ t.panel = x /\ t.enabledValid = FALSE
        /\ t.brightness = d.brightness /\ t.brightnessValid = d.brightnessValid
    BY <1>1, <2>1, <2>2 DEF Failed, DisplayRecord
  <2>4. t.lamp # 0 => t.panel
    <3>1. d.lamp # 0 => d.panel = TRUE /\ e = TRUE
      BY <1>1, Zenon DEF Belief, DisplayRecord
    <3> HIDE DEF t
    <3> QED
      BY <2>1, <2>3, <3>1
  <2> HIDE DEF t
  <2> QED
    BY <1>1, <2>3, <2>4 DEF Shown, Belief
<1> QED
  BY <1>2, <1>3, <1>4 DEF set_panel

LEMMA DisplayKept ==
  ASSUME NEW d, NEW off, NEW panelOff, Shown(d, off, panelOff), NEW b \in Nat,
         NEW e \in BOOLEAN, NEW t \in set_display(d, b, e)
  PROVE  Shown(t, off, panelOff)
<1> DEFINE w == [d EXCEPT !.desired = b]
<1>1. Shown(w, off, panelOff)
  <2>1. d \in DisplayRecord /\ Belief(d) /\ d.screenOff = off /\ d.panelOff = panelOff
    BY DEF Shown
  <2>2. w \in DisplayRecord /\ w.screenOff = off /\ w.panelOff = panelOff
        /\ w.lamp = d.lamp /\ w.panel = d.panel /\ w.brightness = d.brightness
        /\ w.brightnessValid = d.brightnessValid /\ w.enabled = d.enabled
        /\ w.enabledValid = d.enabledValid
    BY <2>1 DEF DisplayRecord
  <2> HIDE DEF w
  <2> QED
    BY <2>1, <2>2 DEF Shown, Belief
<1>2. CASE e
  <2>1. PICK r \in set_panel(w, TRUE) :
          t \in IF r.ok THEN {s.to : s \in set_brightness(r.to, b)} ELSE {r.to}
    BY <1>2 DEF set_display
  <2> HIDE DEF w
  <2>2. Shown(r.to, off, panelOff) /\ (r.ok => r.to.panel = TRUE)
    BY <1>1, <2>1, PanelKept
  <2>3. CASE r.ok
    <3>1. PICK s \in set_brightness(r.to, b) : t = s.to
      BY <2>1, <2>3
    <3> QED
      BY <2>2, <2>3, <3>1, BrightnessKept
  <2> QED
    BY <2>1, <2>2, <2>3
<1>3. CASE ~e
  <2>1. PICK r \in set_brightness(w, 0) :
          t \in IF r.ok THEN {s.to : s \in set_panel(r.to, FALSE)} ELSE {r.to}
    BY <1>3 DEF set_display
  <2> HIDE DEF w
  <2>2. Shown(r.to, off, panelOff) /\ (r.ok => r.to.lamp = 0)
    BY <1>1, <2>1, BrightnessKept
  <2>3. CASE r.ok
    <3>1. PICK s \in set_panel(r.to, FALSE) : t = s.to
      BY <2>1, <2>3
    <3> QED
      BY <2>2, <2>3, <3>1, PanelKept
  <2> QED
    BY <2>1, <2>2, <2>3
<1> QED
  BY <1>2, <1>3

LEMMA PolicyFacts ==
  ASSUME NEW q \in Policies
  PROVE  /\ q.active \in Nat /\ q.dim \in Nat /\ q.idleAfter \in Nat
         /\ q.screenOffAfter \in Nat /\ q.panelOffAfter \in Nat /\ q.suspendAfter \in Nat
         /\ idle_brightness(q) \in Nat
<1>1. q \in PolicyRecord
  BY PoliciesAssumption
<1>2. q.active \in Nat /\ q.dim \in Nat
  BY <1>1 DEF PolicyRecord
<1> QED
  BY <1>1, <1>2 DEF PolicyRecord, idle_brightness

LEMMA StagesFacts ==
  ASSUME NEW d \in DisplayRecord, Belief(d), NEW off \in BOOLEAN, NEW panelOff \in BOOLEAN
  PROVE  Shown([d EXCEPT !.screenOff = off, !.panelOff = panelOff], off, panelOff)
<1> DEFINE w == [d EXCEPT !.screenOff = off, !.panelOff = panelOff]
<1>1. w \in DisplayRecord /\ w.screenOff = off /\ w.panelOff = panelOff
      /\ w.lamp = d.lamp /\ w.panel = d.panel /\ w.brightness = d.brightness
      /\ w.brightnessValid = d.brightnessValid /\ w.enabled = d.enabled
      /\ w.enabledValid = d.enabledValid
  BY DEF DisplayRecord
<1> HIDE DEF w
<1>2. Shown(w, off, panelOff)
  BY <1>1 DEF Shown, Belief
<1> QED
  BY <1>2 DEF w

LEMMA RestoreKept ==
  ASSUME NEW d \in DisplayRecord, Belief(d), NEW q \in Policies, NEW t \in restore_display(d, q)
  PROVE  Shown(t, FALSE, FALSE)
<1>1. Shown([d EXCEPT !.screenOff = FALSE, !.panelOff = FALSE], FALSE, FALSE)
  BY StagesFacts
<1>2. t \in set_display([d EXCEPT !.screenOff = FALSE, !.panelOff = FALSE], q.active, TRUE)
  BY DEF restore_display
<1> QED
  BY <1>1, <1>2, PolicyFacts, DisplayKept

(* A stage is due: after that long without activity *)
Due(after) == after # 0 /\ now >= add(last, after)

LEMMA IdleKept ==
  ASSUME NEW d \in DisplayRecord, Belief(d), NEW q \in Policies,
         NEW t \in apply_idle_display(d, q)
  PROVE  Shown(t, Due(q.screenOffAfter), Due(q.panelOffAfter))
<1> DEFINE off == Due(q.screenOffAfter)
           panelOff == Due(q.panelOffAfter)
           w == [d EXCEPT !.screenOff = off, !.panelOff = panelOff]
           b == IF off THEN 0 ELSE idle_brightness(q)
<1>1. off \in BOOLEAN /\ panelOff \in BOOLEAN /\ (~panelOff) \in BOOLEAN
  BY DEF Due
<1>2. t \in set_display(w, b, ~panelOff)
  BY Zenon DEF apply_idle_display, Due
<1>3. b \in Nat
  BY PolicyFacts
<1> HIDE DEF off, panelOff
<1>4. Shown(w, off, panelOff)
  BY <1>1, StagesFacts
<1> HIDE DEF w, b
<1>5. Shown(t, off, panelOff)
  BY <1>1, <1>2, <1>3, <1>4, DisplayKept
<1> QED
  BY <1>5 DEF off, panelOff

-----------------------------------------------------------------------------
(* Dimming *)

Dimmed ==
  ClockTypes /\ FlagTypes /\ display \in DisplayRecord /\ Belief(display) /\ DimmingIsEarned

LEMMA DimmedFrame ==
  ASSUME Dimmed, UNCHANGED <<clock, display, inhibited>>, FlagTypes',
         \/ state' = state
         \/ state' = "SHUTTING_DOWN"
         \/ state' # "IDLE" /\ state # "SHUTTING_DOWN"
  PROVE  Dimmed'
<1>1. UNCHANGED <<now, last, policy, display, inhibited>>
  BY DEF clock
<1>2. DimmingIsEarned'
  BY <1>1 DEF Dimmed, DimmingIsEarned, add
<1> QED
  BY <1>1, <1>2 DEF Dimmed, ClockTypes, Belief

(* The display is restored, out of every stage. *)
LEMMA DimmedRestored ==
  ASSUME ClockTypes', FlagTypes', Shown(display', FALSE, FALSE), state' # "IDLE"
  PROVE  Dimmed'
<1>1. display' \in DisplayRecord /\ Belief(display)' /\ display'.screenOff = FALSE
      /\ display'.panelOff = FALSE
  BY DEF Shown, Belief
<1>2. DimmingIsEarned'
  BY <1>1 DEF DimmingIsEarned
<1> QED
  BY <1>1, <1>2 DEF Dimmed

(* A stage is entered: all those are whose time has come. *)
LEMMA DimmedIdle ==
  ASSUME Dimmed, NEW q \in Policies, policy' = q, UNCHANGED <<now, last, inhibited>>, FlagTypes',
         ~inhibited, now >= add(last, q.idleAfter), display' \in apply_idle_display(display, q),
         state' = "IDLE"
  PROVE  Dimmed'
<1>1. Shown(display', Due(q.screenOffAfter), Due(q.panelOffAfter))
  BY IdleKept DEF Dimmed
<1>2. display' \in DisplayRecord /\ Belief(display)' /\ display'.screenOff = Due(q.screenOffAfter)
      /\ display'.panelOff = Due(q.panelOffAfter)
  BY <1>1 DEF Shown, Belief
<1>3. /\ now' = now /\ last' = last /\ policy' = q
      /\ (now >= add(last, policy.idleAfter))'
      /\ (display.screenOff => now >= add(last, policy.screenOffAfter))'
      /\ (display.panelOff => now >= add(last, policy.panelOffAfter))'
  BY <1>2 DEF Due, add
<1>4. DimmingIsEarned'
  BY <1>3 DEF DimmingIsEarned
<1> QED
  BY <1>2, <1>3, <1>4 DEF Dimmed, ClockTypes

LEMMA DimmedRestores ==
  ASSUME Dimmed, ClockTypes', FlagTypes', policy' = policy, RestoreDisplay, state' # "IDLE"
  PROVE  Dimmed'
<1>1. Shown(display', FALSE, FALSE)
  BY RestoreKept DEF Dimmed, ClockTypes, RestoreDisplay
<1> QED
  BY <1>1, DimmedRestored

LEMMA SetInhibitedDimmed ==
  ASSUME Dimmed, NEW wanted \in BOOLEAN, SetInhibited(wanted), UNCHANGED <<now, policy>>,
         FlagTypes', state \in States
  PROVE  Dimmed'
<1>1. ClockTypes'
  BY DEF Dimmed, ClockTypes, SetInhibited
<1>2. CASE wanted
  <2>1. RestoreDisplay /\ state' # "IDLE"
    BY <1>2 DEF SetInhibited, States
  <2> QED
    BY <1>1, <2>1, DimmedRestores
<1>3. CASE ~wanted
  <2>1. display' = display /\ inhibited' = FALSE
    BY <1>3 DEF SetInhibited
  <2>2. DimmingIsEarned'
    <3>1. CASE inhibited
      <4>1. state' # "IDLE"
        BY <3>1 DEF SetInhibited, States
      <4> QED
        BY <2>1, <4>1 DEF DimmingIsEarned
    <3>2. CASE ~inhibited
      <4>1. UNCHANGED <<now, last, policy, display, state>>
        BY <1>3, <3>2, <2>1 DEF SetInhibited
      <4> QED
        BY <2>1, <4>1 DEF Dimmed, DimmingIsEarned, add
    <3> QED
      BY <3>1, <3>2
  <2> QED
    BY <1>1, <2>1, <2>2 DEF Dimmed, Belief
<1> QED
  BY <1>2, <1>3

LEMMA InhibitDimmed ==
  ASSUME TypeOK, Dimmed, Inhibit
  PROVE  Dimmed'
<1>1. PICK key, held, touch, contact \in BOOLEAN :
        LET touches == ~display.panelOff
        IN /\ SetInhibited(panicked \/ held \/ (contact /\ touches))
           /\ notified' = (notified \/ key \/ (touch /\ touches))
  BY DEF Inhibit
<1> DEFINE wanted == panicked \/ held \/ (contact /\ ~display.panelOff)
<1>2. wanted \in BOOLEAN /\ SetInhibited(wanted) /\ UNCHANGED <<now, policy, panicked, requested, wake>>
  BY <1>1, Zenon DEF Inhibit
<1>3. inhibited' \in BOOLEAN /\ notified' \in BOOLEAN
  BY <1>1, <1>2, Zenon DEF SetInhibited
<1>4. FlagTypes'
  BY <1>2, <1>3 DEF Dimmed, FlagTypes
<1> HIDE DEF wanted
<1> QED
  BY <1>2, <1>4, SetInhibitedDimmed, TypeParts DEF TurnTypes

LEMMA TakeDimmed ==
  ASSUME TypeOK, Dimmed, Take
  PROVE  Dimmed'
<1>1. FlagTypes' /\ ClockTypes' /\ inhibited' = inhibited /\ now' = now /\ policy' = policy
  BY DEF Dimmed, FlagTypes, ClockTypes, Take
<1>2. CASE call.active /\ state \in {"ACTIVE", "IDLE"}
  <2>1. RestoreDisplay /\ state' # "IDLE"
    BY <1>2 DEF Take
  <2> QED
    BY <1>1, <2>1, DimmedRestores
<1>3. CASE ~call.active
  <2>1. UNCHANGED <<clock, display, inhibited>> /\ state' = state
    BY <1>1, <1>3 DEF Take, clock
  <2> QED
    BY <1>1, <2>1, DimmedFrame
<1>4. CASE state \notin {"ACTIVE", "IDLE"}
  <2>1. UNCHANGED <<display, inhibited>> /\ state' = state
    BY <1>1, <1>4 DEF Take
  <2>2. DimmingIsEarned'
    BY <1>4, <2>1 DEF Dimmed, DimmingIsEarned
  <2> QED
    BY <1>1, <2>1, <2>2 DEF Dimmed, Belief
<1> QED
  BY <1>2, <1>3, <1>4

LEMMA DeadlineDimmed ==
  ASSUME TypeOK, Dimmed, Deadline
  PROVE  Dimmed'
<1>1. FlagTypes' /\ UNCHANGED <<clock, now, last, policy, inhibited>>
  BY DEF Dimmed, FlagTypes, clock, Deadline
<1>2. CASE now >= power_manager_next_deadline /\ state \in {"ACTIVE", "IDLE"} /\ call.deadline
  <2>1. ApplyIdleDisplay /\ state' = "IDLE"
    BY <1>2 DEF Deadline
  <2>2. ~inhibited
    <3> SUFFICES ASSUME inhibited PROVE FALSE
      OBVIOUS
    <3>1. power_manager_next_deadline = TimeLimit
      BY DEF power_manager_next_deadline
    <3> QED
      BY <1>2, <3>1, TimeAssumption DEF Dimmed, ClockTypes
  <2>3. now >= add(last, policy.idleAfter)
    <3>1. CASE state = "ACTIVE"
      <4>1. power_manager_next_deadline = add(last, policy.idleAfter)
        BY <2>2, <3>1 DEF power_manager_next_deadline
      <4> QED
        BY <1>2, <4>1
    <3>2. CASE state = "IDLE"
      BY <3>2 DEF Dimmed, DimmingIsEarned
    <3> QED
      BY <1>2, <3>1, <3>2
  <2> QED
    BY <1>1, <2>1, <2>2, <2>3, DimmedIdle DEF ApplyIdleDisplay, Dimmed, ClockTypes
<1>3. CASE ~(now >= power_manager_next_deadline /\ state \in {"ACTIVE", "IDLE"} /\ call.deadline)
  <2>1. display' = display /\ state' = state
    BY <1>3 DEF Deadline
  <2> QED
    BY <1>1, <2>1, DimmedFrame
<1> QED
  BY <1>2, <1>3

LEMMA SetPolicyDimmed ==
  ASSUME TypeOK, Dimmed, NEW q \in Policies, SetPolicy(q)
  PROVE  Dimmed'
<1>1. FlagTypes' /\ ClockTypes' /\ UNCHANGED <<now, last, inhibited>> /\ policy' = q
  BY DEF Dimmed, FlagTypes, ClockTypes, SetPolicy
<1>2. state # "SHUTTING_DOWN"
  BY DEF SetPolicy
<1>3. CASE inhibited
  <2>1. display' \in restore_display(display, q) /\ state' = state
    BY <1>3 DEF SetPolicy
  <2>2. Shown(display', FALSE, FALSE)
    BY <2>1, RestoreKept DEF Dimmed
  <2>3. state' # "IDLE"
    BY <1>2, <1>3, <2>1 DEF Dimmed, DimmingIsEarned
  <2> QED
    BY <1>1, <2>2, <2>3, DimmedRestored
<1>4. CASE ~inhibited /\ state \in {"ACTIVE", "IDLE"} /\ now >= add(last, q.idleAfter)
  <2>1. display' \in apply_idle_display(display, q) /\ state' = "IDLE"
    BY <1>4 DEF SetPolicy
  <2> QED
    BY <1>1, <1>4, <2>1, DimmedIdle
<1>5. CASE ~inhibited /\ state \in {"ACTIVE", "IDLE"} /\ ~(now >= add(last, q.idleAfter))
  <2>1. display' \in restore_display(display, q) /\ state' = "ACTIVE"
    BY <1>5 DEF SetPolicy
  <2>2. Shown(display', FALSE, FALSE)
    BY <2>1, RestoreKept DEF Dimmed
  <2> QED
    BY <1>1, <2>1, <2>2, DimmedRestored
<1>6. CASE ~inhibited /\ state \notin {"ACTIVE", "IDLE"}
  <2>1. display' = display /\ state' = state
    BY <1>6 DEF SetPolicy
  <2>2. DimmingIsEarned'
    BY <1>1, <1>6, <2>1 DEF DimmingIsEarned
  <2> QED
    BY <1>1, <2>1, <2>2 DEF Dimmed, Belief
<1> QED
  BY <1>3, <1>4, <1>5, <1>6

LEMMA EndUpdateDimmed ==
  ASSUME TypeOK, Dimmed, EndUpdate
  PROVE  Dimmed'
<1>1. UNCHANGED <<requested, wake, notified>>
  BY DEF EndUpdate
<1>2. CASE UNCHANGED <<clock, state, inhibited, panicked, display>>
  <2>1. FlagTypes'
    BY <1>1, <1>2 DEF Dimmed, FlagTypes
  <2> QED
    BY <1>2, <2>1, DimmedFrame
<1>3. CASE panicked' = TRUE /\ SetInhibited(TRUE) /\ UNCHANGED <<now, policy>>
  <2>1. FlagTypes'
    BY <1>1, <1>3 DEF Dimmed, FlagTypes, SetInhibited
  <2> QED
    BY <1>3, <2>1, SetInhibitedDimmed, TypeParts DEF TurnTypes
<1> QED
  BY <1>2, <1>3 DEF EndUpdate

LEMMA TickDimmed ==
  ASSUME TypeOK, Dimmed, Tick
  PROVE  Dimmed'
<1>1. FlagTypes' /\ UNCHANGED <<last, policy, inhibited, display, state>> /\ now' = now + 1
      /\ now < MaxTime
  BY DEF Dimmed, FlagTypes, Tick
<1>2. ClockTypes'
  BY <1>1, TimeAssumption DEF Dimmed, ClockTypes
<1>3. DimmingIsEarned'
  <2>1. now \in Nat /\ last \in Nat /\ policy \in Policies
    BY TimeAssumption DEF Dimmed, ClockTypes
  <2>2. /\ add(last, policy.idleAfter) \in Nat
        /\ add(last, policy.screenOffAfter) \in Nat /\ add(last, policy.panelOffAfter) \in Nat
    BY <2>1, PolicyFacts, TimeAssumption DEF add
  <2>3. \A x \in Nat : now >= x => now' >= x
    BY <1>1, <2>1
  <2>4. /\ add(last, policy.idleAfter)' = add(last, policy.idleAfter)
        /\ add(last, policy.screenOffAfter)' = add(last, policy.screenOffAfter)
        /\ add(last, policy.panelOffAfter)' = add(last, policy.panelOffAfter)
    BY <1>1 DEF add
  <2> QED
    BY <1>1, <2>2, <2>3, <2>4 DEF Dimmed, DimmingIsEarned
<1> QED
  BY <1>1, <1>2, <1>3 DEF Dimmed, Belief

(* What every step preserves of the display and of what its stages rest on *)
LEMMA DimmedStep ==
  ASSUME TypeOK, Staged, Dimmed, Next
  PROVE  Dimmed'
<1>1. CASE Finalize
  <2>1. UNCHANGED <<clock, display, inhibited, state, panicked, requested, wake, notified>>
    BY <1>1 DEF Finalize, Finalizing, VisitNext, VisitDependency, VisitReturns, Finalized
  <2>2. FlagTypes'
    BY <2>1 DEF Dimmed, FlagTypes
  <2> QED
    BY <2>1, <2>2, DimmedFrame
<1>2. CASE BeginPass \/ NothingToDrive \/ power_manager_request_suspend \/ Wake
           \/ ResumeNext
  <2>1. UNCHANGED <<clock, display, inhibited, state, panicked>>
    BY <1>2 DEF BeginPass, NothingToDrive, power_manager_request_suspend, Wake, ResumeNext
  <2>2. FlagTypes'
    BY <1>2 DEF Dimmed, FlagTypes, BeginPass, NothingToDrive, power_manager_request_suspend,
                Wake, ResumeNext
  <2> QED
    BY <2>1, <2>2, DimmedFrame
<1>3. CASE \E p \in Participants : Answer(p) \/ AnswerAgain(p)
  <2>1. UNCHANGED <<clock, display, inhibited, state, panicked>>
    BY <1>3 DEF Answer, AnswerAgain
  <2>2. FlagTypes'
    BY <1>3 DEF Dimmed, FlagTypes, Answer, AnswerAgain, power_manager_complete
  <2> QED
    BY <2>1, <2>2, DimmedFrame
<1>4. CASE Inhibit \/ Take \/ Deadline \/ EndUpdate \/ Tick
  BY <1>4, InhibitDimmed, TakeDimmed, DeadlineDimmed, EndUpdateDimmed, TickDimmed
<1>5. CASE \E q \in Policies : SetPolicy(q)
  BY <1>5, SetPolicyDimmed
<1>6. CASE CollectWake \/ Start \/ SuspendNext \/ Sleep \/ Consume
           \/ power_manager_begin_shutdown
  <2>1. UNCHANGED <<clock, display, inhibited, panicked, requested, notified>>
    BY <1>6 DEF CollectWake, Start, SuspendNext, Sleep, Consume, power_manager_begin_shutdown
  <2>2. FlagTypes'
    BY <1>6, <2>1 DEF Dimmed, FlagTypes, CollectWake, Start, SuspendNext, Sleep, Consume,
                       power_manager_begin_shutdown
  <2>3. \/ state' = state
        \/ state' = "SHUTTING_DOWN"
        \/ state' # "IDLE" /\ state # "SHUTTING_DOWN"
    <3>1. CASE CollectWake \/ Start \/ power_manager_begin_shutdown
      BY <3>1 DEF CollectWake, Start, power_manager_begin_shutdown, begin_resume
    <3>2. CASE SuspendNext
      <4>1. state = "SUSPENDING" /\ state' \in {state, "RESUMING"}
        BY <3>2 DEF SuspendNext, Turn, Staged, begin_resume
      <4> QED
        BY <4>1
    <3>3. CASE Sleep
      <4>1. state = "SUSPENDING" /\ state' \in {"SUSPENDED", "RESUMING"}
        BY <3>3 DEF Sleep, Turn, Staged, begin_resume
      <4> QED
        BY <4>1
    <3>4. CASE Consume
      <4>1. state \in {"SUSPENDING", "RESUMING"} /\ state' \in {state, "RESUMING"}
        BY <3>4 DEF Consume, Staged, begin_resume
      <4> QED
        BY <4>1
    <3> QED
      BY <1>6, <3>1, <3>2, <3>3, <3>4
  <2> QED
    BY <2>1, <2>2, <2>3, DimmedFrame
<1>7. CASE finish
  <2>1. FlagTypes' /\ ClockTypes' /\ RestoreDisplay /\ state' # "IDLE" /\ policy' = policy
    BY <1>7 DEF finish, Dimmed, FlagTypes, ClockTypes, clock
  <2> QED
    BY <2>1, DimmedRestores
<1> QED
  BY <1>1, <1>2, <1>3, <1>4, <1>5, <1>6, <1>7 DEF Next, Pass, Finalize

-----------------------------------------------------------------------------
(* Transitions *)

(* What a transition relies on: the order is that of all participants *)
Ordered ==
  /\ Len(order) = Count /\ Count \in Nat /\ order \in Seq(Participants)
  /\ \A i \in 1 .. Count : order[i] \in Participants
  /\ \A p \in Participants : \E i \in 1 .. Count : order[i] = p
  /\ \A i, j \in 1 .. Count : order[i] = order[j] => i = j

LEMMA OrderedFacts ==
  ASSUME GraphTypes, SoundOrder, available, call.pc # "finalize"
  PROVE  Ordered
<1>1. order \in Seq(Participants) /\ Count \in Nat
  BY SetupFacts DEF GraphTypes
<1>2. \A i \in 1 .. Len(order) : order[i] \in Participants
  BY <1>1, ElementOfSeq
<1> QED
  BY <1>1, <1>2 DEF Ordered, SoundOrder

(* The participant whose turn it is goes from one state to another. *)
LEMMA TakeTurn ==
  ASSUME Ordered, UNCHANGED <<setup, order>>, part \in [Participants -> PartStates],
         NEW m \in 0 .. Count - 1, NEW here, InTurn(m, here),
         NEW there, NEW b \in there, part' = [part EXCEPT ![order[Count - m]] = b]
  PROVE  InTurn(m, there)'
<1>1. Count' = Count /\ order' = order
  BY SameSetup
<1>2. Count - m \in 1 .. Count /\ Count \in Nat
  BY DEF Ordered
<1>3. ASSUME NEW i \in 1 .. Count
      PROVE  /\ i > Count - m => part'[order[i]] = "down"
             /\ i = Count - m => part'[order[i]] \in there
             /\ i < Count - m => part'[order[i]] \in Risen
  <2>1. order[i] \in Participants /\ order[Count - m] \in Participants
    BY <1>2 DEF Ordered
  <2>2. CASE i = Count - m
    BY <1>2, <2>1, <2>2
  <2>3. CASE i # Count - m
    <3>1. order[i] # order[Count - m]
      BY <1>2, <2>3 DEF Ordered
    <3>2. part'[order[i]] = part[order[i]]
      BY <2>1, <3>1
    <3> QED
      BY <2>3, <3>2 DEF InTurn
  <2> QED
    BY <2>2, <2>3
<1> QED
  BY <1>1, <1>3 DEF InTurn, Risen

(* Down in its turn is one more down. *)
LEMMA OneMore ==
  ASSUME Ordered, NEW m \in 0 .. Count - 1
  PROVE  InTurn(m, {"down"}) <=> Lowered(m + 1)
<1>1. Count \in Nat /\ "down" \notin Risen
  BY DEF Ordered, Risen
<1>2. ASSUME NEW i \in 1 .. Count
      PROVE  /\ i > Count - (m + 1) <=> i > Count - m \/ i = Count - m
             /\ i < Count - m <=> i < Count - (m + 1) \/ i = Count - (m + 1)
  BY <1>1
<1> QED
  BY <1>2 DEF InTurn, Lowered

(* The participant whose turn it is goes down. *)
LEMMA TakeTurnDown ==
  ASSUME Ordered, UNCHANGED <<setup, order>>, part \in [Participants -> PartStates],
         NEW m \in 0 .. Count - 1, NEW here, InTurn(m, here),
         part' = [part EXCEPT ![order[Count - m]] = "down"]
  PROVE  InTurn(m + 1, Risen)'
<1>1. InTurn(m, {"down"})'
  <2>1. "down" \in {"down"}
    OBVIOUS
  <2> QED
    BY <2>1, TakeTurn
<1>2. Count' = Count /\ Count \in Nat
  BY SameSetup DEF Ordered
<1>3. ASSUME NEW i \in 1 .. Count
      PROVE  /\ i > Count - (m + 1) <=> i > Count - m \/ i = Count - m
             /\ i < Count - m <=> i < Count - (m + 1) \/ i = Count - (m + 1)
  BY <1>2
<1> QED
  BY <1>1, <1>2, <1>3 DEF InTurn, Risen

LEMMA NoneLowered ==
  ASSUME Ordered
  PROVE  Lowered(0) <=> AllUp
<1>1. \A i \in 1 .. Count : ~(i > Count - 0) /\ (i = Count - 0 \/ i < Count - 0)
  BY DEF Ordered
<1> QED
  BY <1>1 DEF Ordered, Lowered, InTurn, AllUp

(* Only the participant whose turn it is can be on its way. *)
LEMMA InTransit ==
  ASSUME Ordered, NEW m \in 0 .. Count, NEW here, InTurn(m, here), NEW p \in Participants,
         part[p] \in {"stopping", "starting"}
  PROVE  m \in 0 .. Count - 1 /\ p = order[Count - m] /\ part[p] \in here
<1>1. PICK i \in 1 .. Count : order[i] = p
  BY DEF Ordered
<1>2. /\ i > Count - m => part[p] = "down"
      /\ i = Count - m => part[p] \in here
      /\ i < Count - m => part[p] \in {"up", "failed"}
  BY <1>1 DEF InTurn, Risen
<1>3. i = Count - m
  BY <1>2 DEF Ordered
<1> QED
  BY <1>1, <1>2, <1>3 DEF Ordered

(* Whatever is known of the one whose turn it is, it is in some state. *)
LEMMA SomeTurn ==
  ASSUME Ordered, part \in [Participants -> PartStates], NEW m \in 0 .. Count, NEW here,
         InTurn(m, here)
  PROVE  Halfway
<1>1. \A i \in 1 .. Count : part[order[i]] \in PartStates
  BY DEF Ordered
<1> QED
  BY <1>1 DEF InTurn, Halfway

(* Between transitions *)
LEMMA AtRest ==
  ASSUME phase' = "NONE", state' \in {"ACTIVE", "IDLE"}, AllUp',
         call'.pc = "finalize" => state' = "ACTIVE"
  PROVE  Turns'
<1>1. state' \notin {"SUSPENDING", "SUSPENDED", "RESUMING", "SHUTTING_DOWN"}
  OBVIOUS
<1>2. Staged'
  BY <1>1 DEF Staged
<1>3. Resting'
  BY <1>1 DEF Resting
<1>4. GoingDown' /\ ComingUp'
  BY DEF GoingDown, ComingUp
<1> QED
  BY <1>2, <1>3, <1>4 DEF Turns

(* The variables of a transition, but for the answer, which counts while one is waited for *)
turning == <<setup, order, available, transition, expected, part>>

LEMMA TurnFrame ==
  ASSUME TurnTypes, Turns, UNCHANGED turning,
         answer' \in {"none", "success", "failure"},
         phase \in {"WAIT_SUSPEND", "WAIT_RESUME"} => answer' = answer,
         \/ state' = state
         \/ state \in {"ACTIVE", "IDLE"} /\ state' \in {"ACTIVE", "IDLE"} /\ call.pc # "finalize",
         call'.pc = "finalize" => call.pc = "finalize"
  PROVE  TurnTypes' /\ Turns'
<1>1. /\ UNCHANGED <<setup, order, available, phase, cursor, suspended, generation, expected,
                     part>>
      /\ Count' = Count /\ Participants' = Participants /\ MaxGeneration' = MaxGeneration
  BY SameSetup DEF turning, transition
<1>2. TurnTypes'
  BY <1>1 DEF TurnTypes, States, Tokens
<1>3. AllUp' <=> AllUp
  BY <1>1 DEF AllUp, Risen
<1>4. Stacked' <=> Stacked
  BY <1>1 DEF Stacked
<1>5. \A m, h : InTurn(m, h)' <=> InTurn(m, h)
  BY <1>1 DEF InTurn, Risen
<1>6. CASE state \in {"ACTIVE", "IDLE"}
  <2>1. AllUp /\ phase = "NONE"
    BY <1>6 DEF Turns, Resting, Staged
  <2>2. call'.pc = "finalize" => state' = "ACTIVE"
    BY DEF Turns, Staged
  <2> QED
    BY <1>1, <1>2, <1>3, <1>6, <2>1, <2>2, AtRest
<1>7. CASE state \notin {"ACTIVE", "IDLE"}
  <2>1. state' = state
    BY <1>7
  <2>2. Staged'
    BY <1>1, <1>4, <2>1 DEF Turns, Staged
  <2>3. Resting'
    BY <1>1, <1>3, <1>5, <2>1 DEF Turns, Resting, Halfway, PartStates
  <2>4. GoingDown'
    BY <1>1, <1>5 DEF Turns, GoingDown, Lowered, Stopping, Starting, Risen, token
  <2>5. ComingUp'
    BY <1>1, <1>5 DEF Turns, ComingUp, Lowered, Stopping, Starting, Risen, token
  <2> QED
    BY <1>2, <2>2, <2>3, <2>4, <2>5 DEF Turns
<1> QED
  BY <1>6, <1>7

(* What is to be shown of a step that leads to a phase of a transition *)
Entered(p, s) ==
  phase = p /\ state = s /\ available /\ Stacked /\ call.pc # "finalize"

LEMMA Suspends ==
  ASSUME Entered("SUSPEND", "SUSPENDING"), Len(suspended) = cursor, Lowered(cursor)
  PROVE  Turns
<1>1. Staged /\ Resting
  BY DEF Entered, Staged, Resting
<1>2. GoingDown /\ ComingUp
  BY DEF Entered, GoingDown, ComingUp
<1> QED
  BY <1>1, <1>2 DEF Turns

LEMMA WaitsDown ==
  ASSUME Entered("WAIT_SUSPEND", "SUSPENDING"), Len(suspended) = cursor, cursor < Count,
         expected = token(order[Count - cursor], "suspend"),
         InTurn(cursor, Stopping)
  PROVE  Turns
<1>1. Staged /\ Resting
  BY DEF Entered, Staged, Resting
<1>2. GoingDown /\ ComingUp
  BY DEF Entered, GoingDown, ComingUp
<1> QED
  BY <1>1, <1>2 DEF Turns

LEMMA Sleeps ==
  ASSUME Entered("SLEEP", "SUSPENDED"), Len(suspended) = Count, Lowered(Count)
  PROVE  Turns
<1>1. Staged /\ Resting
  BY DEF Entered, Staged, Resting
<1>2. GoingDown /\ ComingUp
  BY DEF Entered, GoingDown, ComingUp
<1> QED
  BY <1>1, <1>2 DEF Turns

LEMMA Resumes ==
  ASSUME Entered("RESUME", "RESUMING"), cursor <= Len(suspended),
         Lowered(Len(suspended) - cursor)
  PROVE  Turns
<1>1. Staged /\ Resting
  BY DEF Entered, Staged, Resting
<1>2. GoingDown /\ ComingUp
  BY DEF Entered, GoingDown, ComingUp
<1> QED
  BY <1>1, <1>2 DEF Turns

LEMMA WaitsUp ==
  ASSUME Entered("WAIT_RESUME", "RESUMING"), cursor < Len(suspended),
         expected = token(suspended[Len(suspended) - cursor], "resume"),
         InTurn(Len(suspended) - cursor - 1, Starting)
  PROVE  Turns
<1>1. Staged /\ Resting
  BY DEF Entered, Staged, Resting
<1>2. GoingDown /\ ComingUp
  BY DEF Entered, GoingDown, ComingUp
<1> QED
  BY <1>1, <1>2 DEF Turns

(* In a transition, what it relies on is there. *)
LEMMA Transition ==
  ASSUME IInv, phase # "NONE"
  PROVE  /\ Ordered /\ Stacked /\ available /\ call.pc # "finalize" /\ TurnTypes /\ GraphTypes
         /\ Len(suspended) \in Nat /\ Len(suspended) <= Count /\ cursor \in Nat
<1>1. TurnTypes /\ GraphTypes /\ available /\ Stacked /\ state # "ACTIVE"
  BY TypeParts DEF IInv, Turns, Staged
<1>2. call.pc # "finalize"
  BY <1>1 DEF IInv, Turns, Staged
<1>3. Ordered
  BY <1>1, <1>2, OrderedFacts DEF IInv
<1> QED
  BY <1>1, <1>2, <1>3, LenProperties DEF TurnTypes

LEMMA TokenFacts ==
  ASSUME TurnTypes, GraphTypes, NEW p \in Participants, NEW operation \in Operations
  PROVE  /\ token(p, operation) \in Tokens /\ token(p, operation).participant = p
         /\ token(p, operation).operation = operation
<1>1. generation \in Nat /\ p \in Nat
  BY SetupFacts DEF TurnTypes, GraphTypes, Participants
<1> QED
  BY <1>1 DEF token, Tokens

(* The stack of the suspended grows by the next of the order. *)
LEMMA StackedMore ==
  ASSUME Ordered, Stacked, suspended \in Seq(Participants), Len(suspended) < Count,
         NEW p, p = order[Count - Len(suspended)],
         suspended' = Append(suspended, p), UNCHANGED <<setup, order>>
  PROVE  /\ Stacked' /\ suspended' \in Seq(Participants)
         /\ Len(suspended') = Len(suspended) + 1 /\ p \in Participants
<1> DEFINE n == Len(suspended)
<1>1. Count' = Count /\ order' = order /\ n \in Nat /\ Count \in Nat
  BY SameSetup, LenProperties DEF Ordered
<1>2. p \in Participants
  BY <1>1 DEF Ordered
<1>3. /\ suspended' \in Seq(Participants) /\ Len(suspended') = n + 1
      /\ \A i \in 1 .. n : suspended'[i] = suspended[i]
      /\ suspended'[n + 1] = p
  BY <1>2, AppendFacts
<1>4. ASSUME NEW j \in 1 .. n + 1
      PROVE  suspended'[j] = order[Count + 1 - j]
  <2>1. CASE j = n + 1
    <3>1. Count + 1 - j = Count - n
      BY <1>1, <2>1
    <3> QED
      BY <1>3, <2>1, <3>1
  <2>2. CASE j \in 1 .. n
    BY <1>3, <2>2 DEF Stacked
  <2> QED
    BY <1>1, <2>1, <2>2
<1> QED
  BY <1>1, <1>2, <1>3, <1>4 DEF Stacked

-----------------------------------------------------------------------------
(* The turns of drive *)

(* A step of the pass outside of finalization keeps the participants and stays outside. *)
LEMMA PassFrame ==
  ASSUME IInv, Next, call.pc # "finalize"
  PROVE  /\ UNCHANGED <<setup, order, available, Count, Participants, MaxGeneration>>
         /\ call' \in CallRecord /\ call'.pc # "finalize"
<1>1. ~Finalize
  BY DEF Finalize, Finalizing, VisitNext, VisitDependency, VisitReturns, Finalized
<1>2. Moves
  BY <1>1, CallStep, TypeParts DEF IInv
<1>3. UNCHANGED <<setup, order, available>>
  BY <1>2 DEF Moves, graph
<1> QED
  BY <1>2, <1>3, SameSetup DEF Moves

LEMMA SuspendNextTurns ==
  ASSUME IInv, SuspendNext
  PROVE  TurnTypes' /\ Turns'
<1> DEFINE p == order[Count - cursor]
<1>1. /\ phase = "SUSPEND" /\ cursor < Count /\ call.pc # "finalize" /\ state = "SUSPENDING"
      /\ expected' = token(p, "suspend") /\ answer' = "none" /\ Next
  BY DEF SuspendNext, Turn, NextToSuspend, IInv, Turns, Staged, Next, Pass
<1>2. /\ Ordered /\ Stacked /\ available /\ TurnTypes /\ GraphTypes
      /\ Len(suspended) = cursor /\ InTurn(cursor, Risen) /\ Count \in Nat /\ cursor \in Nat
  BY <1>1, Transition DEF IInv, Turns, GoingDown, Ordered, Lowered, Risen
<1>3. PICK m \in 0 .. Count - 1 : m = cursor
  BY <1>1, <1>2
<1>4. p \in Participants /\ p = order[Count - m]
  BY <1>2, <1>3 DEF Ordered
<1>5. /\ UNCHANGED <<setup, order, available, Count, Participants, MaxGeneration>>
      /\ call'.pc # "finalize"
  BY <1>1, PassFrame
<1>6. expected' \in Tokens
  BY <1>1, <1>2, <1>4, TokenFacts DEF Operations
<1> HIDE DEF p
<1>7. CASE /\ part' = [part EXCEPT ![p] = "down"] /\ suspended' = Append(suspended, p)
           /\ cursor' = cursor + 1 /\ UNCHANGED <<state, phase, generation>>
  <2>1. Stacked' /\ suspended' \in Seq(Participants) /\ Len(suspended') = cursor'
    BY <1>2, <1>3, <1>4, <1>5, <1>7, StackedMore DEF TurnTypes
  <2>2. InTurn(m + 1, Risen)'
    BY <1>2, <1>3, <1>4, <1>5, <1>7, TakeTurnDown DEF TurnTypes
  <2>3. Lowered(cursor)'
    BY <1>3, <1>7, <2>2 DEF Lowered, InTurn, Risen
  <2>4. TurnTypes'
    BY <1>1, <1>2, <1>3, <1>4, <1>5, <1>6, <1>7, <2>1 DEF TurnTypes, PartStates
  <2>5. Entered("SUSPEND", "SUSPENDING")'
    BY <1>1, <1>2, <1>5, <1>7, <2>1 DEF Entered
  <2>6. (Len(suspended) = cursor)'
    BY <2>1
  <2> QED
    BY <2>3, <2>4, <2>5, <2>6, Suspends, PTL
<1>8. CASE /\ part' = [part EXCEPT ![p] = "stopping"] /\ phase' = "WAIT_SUSPEND"
           /\ UNCHANGED <<state, cursor, suspended, generation>>
  <2>1. InTurn(m, {"stopping"})'
    BY <1>2, <1>3, <1>4, <1>5, <1>8, TakeTurn DEF TurnTypes
  <2>2. InTurn(cursor, Stopping)'
    BY <1>1, <1>3, <1>8, <2>1 DEF InTurn, Risen, Stopping
  <2>3. TurnTypes'
    BY <1>1, <1>2, <1>4, <1>5, <1>6, <1>8 DEF TurnTypes, PartStates
  <2>4. Entered("WAIT_SUSPEND", "SUSPENDING")'
    BY <1>1, <1>2, <1>5, <1>8 DEF Entered, Stacked
  <2>5. (expected = token(order[Count - cursor], "suspend"))'
    BY <1>1, <1>5, <1>8 DEF p, token
  <2>6. (Len(suspended) = cursor /\ cursor < Count)'
    BY <1>1, <1>2, <1>5, <1>8
  <2> QED
    BY <2>2, <2>3, <2>4, <2>5, <2>6, WaitsDown, PTL
<1>9. CASE begin_resume /\ part' = [part EXCEPT ![p] = "failed"]
  <2>1. /\ state' = "RESUMING" /\ phase' = "RESUME" /\ cursor' = 0
        /\ UNCHANGED <<suspended, generation>>
    BY <1>9 DEF begin_resume
  <2>2. TurnTypes'
    BY <1>1, <1>2, <1>4, <1>5, <1>6, <1>9, <2>1 DEF TurnTypes, States, PartStates
  <2>3. Entered("RESUME", "RESUMING")'
    BY <1>2, <1>5, <2>1 DEF Entered, Stacked
  <2>4. (cursor <= Len(suspended) /\ Lowered(Len(suspended) - cursor))'
    <3>1. InTurn(m, Risen)'
      <4>1. "failed" \in Risen
        BY DEF Risen
      <4> QED
        BY <1>2, <1>3, <1>4, <1>5, <1>9, <4>1, TakeTurn DEF TurnTypes, Risen
    <3>2. (Len(suspended) - cursor)' = m
      BY <1>2, <1>3, <2>1
    <3>3. Lowered(Len(suspended) - cursor)'
      BY <3>1, <3>2 DEF InTurn, Lowered, Risen
    <3> QED
      BY <1>2, <2>1, <3>3
  <2> QED
    BY <2>2, <2>3, <2>4, Resumes, PTL
<1> QED
  BY <1>7, <1>8, <1>9 DEF SuspendNext, NextToSuspend, p

LEMMA SleepTurns ==
  ASSUME IInv, Sleep
  PROVE  TurnTypes' /\ Turns'
<1>1. /\ phase = "SUSPEND" /\ cursor = Count /\ call.pc # "finalize" /\ state = "SUSPENDING"
      /\ UNCHANGED <<expected, answer, part>> /\ Next
  BY DEF Sleep, Turn, IInv, Turns, Staged, Next, Pass, completion
<1>2. /\ Ordered /\ Stacked /\ available /\ TurnTypes
      /\ Len(suspended) = Count /\ InTurn(cursor, Risen) /\ Count \in Nat
  BY <1>1, Transition DEF IInv, Turns, GoingDown, Ordered, Lowered, Risen
<1>3. PICK m \in 0 .. Count : m = Count
  BY <1>2
<1>4. /\ UNCHANGED <<setup, order, available, Count, Participants, MaxGeneration>>
      /\ call'.pc # "finalize"
  BY <1>1, PassFrame
<1>5. InTurn(m, Risen)'
  BY <1>1, <1>2, <1>3, <1>4 DEF InTurn, Risen
<1>6. CASE /\ state' = "SUSPENDED" /\ phase' = "SLEEP"
           /\ UNCHANGED <<cursor, suspended, generation>>
  <2>1. TurnTypes'
    BY <1>1, <1>2, <1>4, <1>6 DEF TurnTypes, States
  <2>2. Entered("SLEEP", "SUSPENDED")'
    BY <1>2, <1>4, <1>6 DEF Entered, Stacked
  <2>3. (Len(suspended) = Count /\ Lowered(Count))'
    BY <1>2, <1>3, <1>4, <1>5, <1>6 DEF InTurn, Lowered, Risen
  <2> QED
    BY <2>1, <2>2, <2>3, Sleeps, PTL
<1>7. CASE begin_resume
  <2>1. /\ state' = "RESUMING" /\ phase' = "RESUME" /\ cursor' = 0
        /\ UNCHANGED <<suspended, generation>>
    BY <1>7 DEF begin_resume
  <2>2. TurnTypes'
    BY <1>1, <1>2, <1>4, <2>1 DEF TurnTypes, States
  <2>3. Entered("RESUME", "RESUMING")'
    BY <1>2, <1>4, <2>1 DEF Entered, Stacked
  <2>4. (cursor <= Len(suspended) /\ Lowered(Len(suspended) - cursor))'
    <3>1. (Len(suspended) - cursor)' = m
      BY <1>2, <1>3, <2>1
    <3>2. Lowered(Len(suspended) - cursor)'
      BY <1>5, <3>1 DEF InTurn, Lowered, Risen
    <3> QED
      BY <1>2, <2>1, <3>2
  <2> QED
    BY <2>2, <2>3, <2>4, Resumes, PTL
<1> QED
  BY <1>6, <1>7 DEF Sleep

(* The suspended are resumed from the last on, in the order. *)
LEMMA ToResume ==
  ASSUME Ordered, Stacked, Len(suspended) \in Nat, Len(suspended) <= Count, cursor \in Nat,
         cursor < Len(suspended)
  PROVE  /\ Len(suspended) - cursor - 1 \in 0 .. Count - 1
         /\ suspended[Len(suspended) - cursor] = order[Count - (Len(suspended) - cursor - 1)]
         /\ suspended[Len(suspended) - cursor] \in Participants
<1>1. Count \in Nat /\ Len(suspended) - cursor \in 1 .. Len(suspended)
  BY DEF Ordered
<1>2. /\ Count + 1 - (Len(suspended) - cursor) = Count - (Len(suspended) - cursor - 1)
      /\ Count - (Len(suspended) - cursor - 1) \in 1 .. Count
      /\ Len(suspended) - cursor - 1 \in 0 .. Count - 1
  BY <1>1
<1>3. suspended[Len(suspended) - cursor] = order[Count + 1 - (Len(suspended) - cursor)]
  BY <1>1 DEF Stacked
<1> QED
  BY <1>2, <1>3 DEF Ordered

LEMMA ResumeNextTurns ==
  ASSUME IInv, ResumeNext
  PROVE  TurnTypes' /\ Turns'
<1> DEFINE p == suspended[Len(suspended) - cursor]
<1>1. /\ phase = "RESUME" /\ cursor < Len(suspended) /\ call.pc # "finalize"
      /\ state = "RESUMING" /\ expected' = token(p, "resume") /\ answer' = "none" /\ Next
      /\ UNCHANGED <<state, suspended, generation>>
  BY DEF ResumeNext, Turn, NextToResume, IInv, Turns, Staged, Next, Pass
<1>2. /\ Ordered /\ Stacked /\ available /\ TurnTypes /\ GraphTypes
      /\ InTurn(Len(suspended) - cursor, Risen) /\ Count \in Nat /\ cursor \in Nat
      /\ Len(suspended) \in Nat /\ Len(suspended) <= Count
  BY <1>1, Transition DEF IInv, Turns, ComingUp, Ordered, Lowered, Risen
<1>3. PICK m \in 0 .. Count - 1 : m = Len(suspended) - cursor - 1
  BY <1>1, <1>2, ToResume
<1>4. p \in Participants /\ p = order[Count - m]
  BY <1>1, <1>2, <1>3, ToResume
<1>5. /\ UNCHANGED <<setup, order, available, Count, Participants, MaxGeneration>>
      /\ call'.pc # "finalize"
  BY <1>1, PassFrame
<1>6. expected' \in Tokens
  BY <1>1, <1>2, <1>4, TokenFacts DEF Operations
<1>7. InTurn(m, {"down"})
  <2>1. Len(suspended) - cursor = m + 1
    BY <1>2, <1>3
  <2>2. Lowered(m + 1)
    BY <1>2, <2>1 DEF Lowered, Risen
  <2> QED
    BY <1>2, <2>2, OneMore
<1> HIDE DEF p
<1>8. ASSUME NEW b \in Risen, part' = [part EXCEPT ![p] = b], cursor' = cursor + 1,
             phase' = phase
      PROVE  TurnTypes' /\ Turns'
  <2>1. InTurn(m, Risen)'
    BY <1>2, <1>4, <1>5, <1>7, <1>8, TakeTurn DEF TurnTypes, Risen
  <2>2. TurnTypes'
    BY <1>1, <1>2, <1>4, <1>5, <1>6, <1>8 DEF TurnTypes, PartStates, Risen
  <2>3. Entered("RESUME", "RESUMING")'
    BY <1>1, <1>2, <1>5, <1>8 DEF Entered, Stacked
  <2>4. (cursor <= Len(suspended) /\ Lowered(Len(suspended) - cursor))'
    <3>1. (Len(suspended) - cursor)' = m
      BY <1>1, <1>2, <1>3, <1>8
    <3>2. Lowered(Len(suspended) - cursor)'
      BY <2>1, <3>1 DEF InTurn, Lowered, Risen
    <3> QED
      BY <1>1, <1>2, <1>8, <3>2
  <2> QED
    BY <2>2, <2>3, <2>4, Resumes, PTL
<1>9. CASE /\ part' = [part EXCEPT ![p] = "starting"] /\ phase' = "WAIT_RESUME" /\ cursor' = cursor
  <2>1. InTurn(m, {"starting"})'
    BY <1>2, <1>4, <1>5, <1>7, <1>9, TakeTurn DEF TurnTypes
  <2>2. TurnTypes'
    BY <1>1, <1>2, <1>4, <1>5, <1>6, <1>9 DEF TurnTypes, PartStates
  <2>3. Entered("WAIT_RESUME", "RESUMING")'
    BY <1>1, <1>2, <1>5, <1>9 DEF Entered, Stacked
  <2>4. InTurn(Len(suspended) - cursor - 1, Starting)'
    BY <1>1, <1>3, <1>9, <2>1 DEF InTurn, Risen, Starting
  <2>5. (expected = token(suspended[Len(suspended) - cursor], "resume"))'
    BY <1>1, <1>9 DEF p, token
  <2>6. (cursor < Len(suspended))'
    BY <1>1, <1>9
  <2> QED
    BY <2>2, <2>3, <2>4, <2>5, <2>6, WaitsUp, PTL
<1> QED
  BY <1>8, <1>9 DEF ResumeNext, NextToResume, p, Risen

LEMMA finishTurns ==
  ASSUME IInv, finish
  PROVE  TurnTypes' /\ Turns'
<1>1. /\ phase = "RESUME" /\ cursor = Len(suspended) /\ call.pc # "finalize"
      /\ state' = "ACTIVE" /\ phase' = "NONE" /\ cursor' = 0 /\ suspended' = <<>>
      /\ UNCHANGED <<generation, expected, answer, part>> /\ Next
  BY DEF finish, Turn, completion, Next, Pass
<1>2. /\ Ordered /\ TurnTypes /\ Lowered(Len(suspended) - cursor) /\ Len(suspended) \in Nat
      /\ Count \in Nat
  BY <1>1, Transition DEF IInv, Turns, ComingUp, Ordered
<1>3. /\ UNCHANGED <<setup, order, available, Count, Participants, MaxGeneration>>
      /\ call'.pc # "finalize"
  BY <1>1, PassFrame
<1>4. AllUp
  <2>1. Len(suspended) - cursor = 0
    BY <1>1, <1>2
  <2> QED
    BY <1>2, <2>1, NoneLowered
<1>5. AllUp'
  BY <1>1, <1>3, <1>4 DEF AllUp, Risen
<1>6. TurnTypes'
  BY <1>1, <1>2, <1>3 DEF TurnTypes, States
<1> QED
  BY <1>1, <1>3, <1>5, <1>6, AtRest

LEMMA ConsumeTurns ==
  ASSUME IInv, Consume
  PROVE  TurnTypes' /\ Turns'
<1>1. /\ phase \in {"WAIT_SUSPEND", "WAIT_RESUME"} /\ call.pc # "finalize"
      /\ answer # "none" /\ answer' = "none" /\ UNCHANGED <<expected, part>> /\ Next
  BY DEF Consume, Next, Pass
<1>2. /\ Ordered /\ Stacked /\ available /\ TurnTypes /\ GraphTypes
      /\ Len(suspended) \in Nat /\ Len(suspended) <= Count /\ cursor \in Nat /\ Count \in Nat
      /\ suspended \in Seq(Participants)
  BY <1>1, Transition DEF Ordered, TurnTypes
<1>3. /\ UNCHANGED <<setup, order, available, Count, Participants, MaxGeneration>>
      /\ call'.pc # "finalize"
  BY <1>1, PassFrame
<1>4. CASE phase = "WAIT_SUSPEND"
  <2>1. /\ cursor < Count /\ expected = token(order[Count - cursor], "suspend")
        /\ InTurn(cursor, IF answer = "success" THEN {"down"} ELSE Risen)
        /\ Len(suspended) = cursor /\ state = "SUSPENDING"
    BY <1>1, <1>4 DEF IInv, Turns, GoingDown, Staged, Stopping
  <2>2. PICK m \in 0 .. Count - 1 : m = cursor
    BY <1>2, <2>1
  <2>3. CASE answer = "failure"
    <3>1. /\ state' = "RESUMING" /\ phase' = "RESUME" /\ cursor' = 0
          /\ UNCHANGED <<suspended, generation>>
      BY <1>4, <2>3 DEF Consume, begin_resume
    <3>2. TurnTypes'
      BY <1>1, <1>2, <1>3, <3>1 DEF TurnTypes, States
    <3>3. Entered("RESUME", "RESUMING")'
      BY <1>2, <1>3, <3>1 DEF Entered, Stacked
    <3>4. InTurn(m, Risen)'
      BY <1>1, <1>3, <2>1, <2>2, <2>3 DEF InTurn, Risen
    <3>5. (Len(suspended) - cursor)' = m
      BY <1>2, <2>1, <2>2, <3>1
    <3>6. Lowered(Len(suspended) - cursor)'
      BY <3>4, <3>5 DEF InTurn, Lowered, Risen
    <3>7. (cursor <= Len(suspended))'
      BY <1>2, <3>1
    <3> QED
      BY <3>2, <3>3, <3>6, <3>7, Resumes, PTL
  <2>4. CASE answer # "failure"
    <3>1. /\ phase' = "SUSPEND" /\ suspended' = Append(suspended, expected.participant)
          /\ cursor' = cursor + 1 /\ UNCHANGED <<state, generation>>
      BY <1>4, <2>4 DEF Consume
    <3>2. expected.participant = order[Count - Len(suspended)]
      BY <2>1 DEF token
    <3>3. Stacked' /\ suspended' \in Seq(Participants) /\ Len(suspended') = Len(suspended) + 1
      BY <1>2, <1>3, <2>1, <3>1, <3>2, StackedMore
    <3>4. TurnTypes'
      BY <1>1, <1>2, <1>3, <2>1, <3>1, <3>3 DEF TurnTypes
    <3>5. Entered("SUSPEND", "SUSPENDING")'
      BY <1>2, <1>3, <2>1, <3>1, <3>3 DEF Entered
    <3>6. (Len(suspended) = cursor)'
      BY <2>1, <3>1, <3>3
    <3>7. InTurn(m, {"down"})
      BY <1>1, <1>2, <2>1, <2>2, <2>4 DEF TurnTypes
    <3>8. InTurn(m + 1, Risen)
      BY <1>2, <3>7, OneMore DEF Lowered, Risen
    <3>9. InTurn(m + 1, Risen)'
      BY <1>1, <1>3, <3>8 DEF InTurn, Risen
    <3>10. Lowered(cursor)'
      BY <2>2, <3>1, <3>9 DEF InTurn, Lowered, Risen
    <3> QED
      BY <3>4, <3>5, <3>6, <3>10, Suspends, PTL
  <2> QED
    BY <2>3, <2>4
<1>5. CASE phase = "WAIT_RESUME"
  <2>1. /\ cursor < Len(suspended) /\ InTurn(Len(suspended) - cursor - 1, Risen)
        /\ state = "RESUMING"
    BY <1>1, <1>5 DEF IInv, Turns, ComingUp, Staged, Starting
  <2>2. /\ phase' = "RESUME" /\ cursor' = cursor + 1 /\ UNCHANGED <<state, suspended, generation>>
    BY <1>5 DEF Consume
  <2>3. TurnTypes'
    BY <1>1, <1>2, <1>3, <2>1, <2>2 DEF TurnTypes
  <2>4. Entered("RESUME", "RESUMING")'
    BY <1>2, <1>3, <2>1, <2>2 DEF Entered, Stacked
  <2>5. PICK m \in 0 .. Count - 1 : m = Len(suspended) - cursor - 1
    BY <1>2, <2>1, ToResume
  <2>6. InTurn(m, Risen)'
    BY <1>1, <1>3, <2>1, <2>5 DEF InTurn, Risen
  <2>7. (Len(suspended) - cursor)' = m
    BY <1>2, <2>2, <2>5
  <2>8. Lowered(Len(suspended) - cursor)'
    BY <2>6, <2>7 DEF InTurn, Lowered, Risen
  <2>9. (cursor <= Len(suspended))'
    BY <1>2, <2>1, <2>2
  <2> QED
    BY <2>3, <2>4, <2>8, <2>9, Resumes, PTL
<1> QED
  BY <1>1, <1>4, <1>5

LEMMA StartTurns ==
  ASSUME IInv, Start
  PROVE  TurnTypes' /\ Turns'
<1>1. /\ call.pc # "finalize" /\ UNCHANGED <<expected, answer, part>> /\ Next
      /\ TurnTypes /\ GraphTypes /\ Turns
  BY TypeParts DEF Start, completion, Next, Pass, IInv
<1>2. /\ UNCHANGED <<setup, order, available, Count, Participants, MaxGeneration>>
      /\ call'.pc # "finalize"
  BY <1>1, PassFrame
<1>3. CASE UNCHANGED <<state, transition>>
  <2>1. UNCHANGED turning
    BY <1>1, <1>2, <1>3 DEF turning
  <2> QED
    BY <1>1, <1>2, <1>3, <2>1, TurnFrame DEF TurnTypes
<1>4. CASE /\ state \in {"ACTIVE", "IDLE"} /\ available /\ generation < MaxGeneration
           /\ generation' = generation + 1 /\ state' = "SUSPENDING" /\ phase' = "SUSPEND"
           /\ cursor' = 0 /\ suspended' = <<>>
  <2>1. Ordered /\ AllUp /\ Count \in Nat
    BY <1>1, <1>4, OrderedFacts DEF IInv, Turns, Resting, Ordered
  <2>2. InTurn(0, Risen)
    BY <2>1, NoneLowered DEF Lowered, Risen
  <2>3. InTurn(0, Risen)'
    BY <1>1, <1>2, <2>2 DEF InTurn, Risen
  <2>4. (Len(suspended) = cursor)' /\ Lowered(cursor)'
    BY <1>4, <2>3 DEF Lowered, InTurn, Risen
  <2>5. TurnTypes'
    <3>1. MaxGeneration \in Nat
      BY <1>1, SetupFacts DEF GraphTypes
    <3> QED
      BY <1>1, <1>2, <1>4, <2>1, <3>1 DEF TurnTypes, States
  <2>6. Entered("SUSPEND", "SUSPENDING")'
    BY <1>2, <1>4 DEF Entered, Stacked
  <2> QED
    BY <2>4, <2>5, <2>6, Suspends, PTL
<1> QED
  BY <1>3, <1>4 DEF Start

LEMMA CollectWakeTurns ==
  ASSUME IInv, CollectWake
  PROVE  TurnTypes' /\ Turns'
<1>1. /\ call.pc # "finalize" /\ UNCHANGED <<expected, answer, part>> /\ Next
      /\ TurnTypes /\ GraphTypes /\ Turns
  BY TypeParts DEF CollectWake, completion, Next, Pass, IInv
<1>2. /\ UNCHANGED <<setup, order, available, Count, Participants, MaxGeneration>>
      /\ call'.pc # "finalize"
  BY <1>1, PassFrame
<1>3. CASE UNCHANGED <<state, transition>>
  <2>1. UNCHANGED turning
    BY <1>1, <1>2, <1>3 DEF turning
  <2> QED
    BY <1>1, <1>2, <1>3, <2>1, TurnFrame DEF TurnTypes
<1>4. CASE state = "SUSPENDED" /\ begin_resume
  <2>1. phase = "SLEEP"
    BY <1>1, <1>4 DEF Turns, Staged
  <2>2. /\ Ordered /\ Stacked /\ available /\ Count \in Nat
        /\ Len(suspended) = Count /\ InTurn(Count, Risen)
    BY <2>1, Transition DEF IInv, Turns, GoingDown, Ordered, Lowered, Risen
  <2>3. PICK m \in 0 .. Count : m = Count
    BY <2>2
  <2>4. /\ state' = "RESUMING" /\ phase' = "RESUME" /\ cursor' = 0
        /\ UNCHANGED <<suspended, generation>>
    BY <1>4 DEF begin_resume
  <2>5. TurnTypes'
    BY <1>1, <1>2, <2>2, <2>4 DEF TurnTypes, States
  <2>6. Entered("RESUME", "RESUMING")'
    BY <1>2, <2>2, <2>4 DEF Entered, Stacked
  <2>7. InTurn(m, Risen)'
    BY <1>1, <1>2, <2>2, <2>3 DEF InTurn, Risen
  <2>8. (Len(suspended) - cursor)' = m
    BY <2>2, <2>3, <2>4
  <2>9. Lowered(Len(suspended) - cursor)'
    BY <2>7, <2>8 DEF InTurn, Lowered, Risen
  <2>10. (cursor <= Len(suspended))'
    BY <2>2, <2>4
  <2> QED
    BY <2>5, <2>6, <2>9, <2>10, Resumes, PTL
<1> QED
  BY <1>3, <1>4 DEF CollectWake

-----------------------------------------------------------------------------
(* Answers, and what ends the transitions *)

LEMMA ShutsDown ==
  ASSUME state = "SHUTTING_DOWN", phase = "NONE", call.pc # "finalize", ~available => AllUp,
         available => Halfway
  PROVE  Turns
<1>1. Staged /\ Resting
  BY DEF Staged, Resting
<1>2. GoingDown /\ ComingUp
  BY DEF GoingDown, ComingUp
<1> QED
  BY <1>1, <1>2 DEF Turns

LEMMA AnswerTurns ==
  ASSUME IInv, NEW p \in Participants, Answer(p)
  PROVE  TurnTypes' /\ Turns'
<1>1. PICK result \in {"success", "failure"} :
        /\ power_manager_complete(
             token(p, IF part[p] = "stopping" THEN "suspend" ELSE "resume"), result)
        /\ part' = [part EXCEPT ![p] = IF result = "failure" THEN "failed"
                                       ELSE IF @ = "stopping" THEN "down" ELSE "up"]
  BY DEF Answer
<1> DEFINE operation == IF part[p] = "stopping" THEN "suspend" ELSE "resume"
<1>2. /\ UNCHANGED <<setup, order, available, state, phase, cursor, suspended, generation,
                     expected, call>>
      /\ Count' = Count /\ Participants' = Participants /\ MaxGeneration' = MaxGeneration
      /\ part[p] \in {"stopping", "starting"}
  BY SameSetup DEF Answer, graph, transition
<1>3. TurnTypes /\ GraphTypes /\ Turns
  BY TypeParts DEF IInv
<1>4. PICK b \in PartStates :
        /\ b = IF result = "failure" THEN "failed"
               ELSE IF part[p] = "stopping" THEN "down" ELSE "up"
        /\ part' = [part EXCEPT ![p] = b]
  BY <1>1 DEF PartStates
<1>5. answer' = IF answer = "none" /\ token(p, operation) = expected THEN result ELSE answer
  BY <1>1 DEF power_manager_complete, expects
<1>6. TurnTypes'
  BY <1>2, <1>3, <1>4, <1>5 DEF TurnTypes, Tokens
<1>7. ~AllUp
  BY <1>2 DEF AllUp, Risen
<1>8. available /\ state \notin {"ACTIVE", "IDLE"} /\ call.pc # "finalize"
  BY <1>3, <1>7 DEF Turns, Resting, Staged
<1>9. Ordered /\ Count \in Nat
  BY <1>3, <1>8, OrderedFacts DEF IInv, Ordered
<1>10. CASE state = "SHUTTING_DOWN"
  <2>1. PICK m \in 0 .. Count : InTurn(m, PartStates)
    BY <1>3, <1>8, <1>10 DEF Turns, Resting, Halfway
  <2>2. m \in 0 .. Count - 1 /\ p = order[Count - m]
    BY <1>2, <1>9, <2>1, InTransit
  <2>3. InTurn(m, PartStates)'
    BY <1>2, <1>3, <1>4, <1>9, <2>1, <2>2, TakeTurn DEF TurnTypes, PartStates
  <2>4. Halfway'
    BY <1>2, <2>1, <2>3 DEF Halfway
  <2>5. phase = "NONE"
    BY <1>3, <1>10 DEF Turns, Staged
  <2>6. (state = "SHUTTING_DOWN" /\ phase = "NONE" /\ call.pc # "finalize" /\ available)'
    BY <1>2, <1>8, <1>10, <2>5
  <2> QED
    BY <1>6, <2>4, <2>6, ShutsDown, PTL
<1>11. CASE phase \in {"SUSPEND", "SLEEP", "RESUME"}
  <2>1. \E k \in 0 .. Count : InTurn(k, Risen)
    <3>1. Len(suspended) \in Nat /\ Len(suspended) <= Count /\ cursor \in 0 .. Count
      BY <1>3, LenProperties DEF TurnTypes
    <3>2. CASE phase = "SUSPEND"
      BY <1>3, <3>1, <3>2 DEF Turns, GoingDown, Lowered, Risen
    <3>3. CASE phase = "SLEEP"
      BY <1>3, <1>9, <3>3 DEF Turns, GoingDown, Lowered, Risen
    <3>4. CASE phase = "RESUME"
      <4>1. Len(suspended) - cursor \in 0 .. Count /\ InTurn(Len(suspended) - cursor, Risen)
        BY <1>3, <1>9, <3>1, <3>4 DEF Turns, ComingUp, Lowered, Risen
      <4> QED
        BY <4>1
    <3> QED
      BY <1>11, <3>2, <3>3, <3>4
  <2> QED
    BY <1>2, <1>9, <2>1, InTransit DEF Risen
<1>12. CASE phase = "WAIT_SUSPEND"
  <2>1. /\ cursor < Count /\ expected = token(order[Count - cursor], "suspend")
        /\ InTurn(cursor, Stopping) /\ cursor \in 0 .. Count
        /\ Len(suspended) = cursor /\ state = "SUSPENDING" /\ Stacked
    BY <1>3, <1>12 DEF Turns, GoingDown, Staged, TurnTypes
  <2>2. PICK m \in 0 .. Count - 1 : m = cursor
    BY <1>9, <2>1
  <2>3. p = order[Count - m] /\ part[p] \in Stopping
    BY <1>2, <1>9, <2>1, <2>2, InTransit
  <2>4. answer = "none" /\ part[p] = "stopping" /\ answer' = result
    BY <1>2, <1>5, <2>1, <2>2, <2>3 DEF Stopping, Risen
  <2> DEFINE there == IF result = "success" THEN {"down"} ELSE {"up", "failed"}
  <2>5. b \in there
    BY <1>1, <1>4, <2>4
  <2> HIDE DEF there
  <2>6. InTurn(m, there)'
    BY <1>2, <1>3, <1>4, <1>9, <2>1, <2>2, <2>3, <2>5, TakeTurn DEF TurnTypes
  <2>7. InTurn(cursor, Stopping)'
    BY <1>2, <2>2, <2>4, <2>6 DEF InTurn, Risen, Stopping, there
  <2>8. Entered("WAIT_SUSPEND", "SUSPENDING")'
    BY <1>2, <1>8, <1>12, <2>1 DEF Entered, Stacked
  <2>9. (/\ Len(suspended) = cursor /\ cursor < Count
         /\ expected = token(order[Count - cursor], "suspend"))'
    BY <1>2, <2>1 DEF token
  <2> QED
    BY <1>6, <2>7, <2>8, <2>9, WaitsDown, PTL
<1>13. CASE phase = "WAIT_RESUME"
  <2>1. /\ cursor < Len(suspended) /\ state = "RESUMING" /\ Stacked
        /\ expected = token(suspended[Len(suspended) - cursor], "resume")
        /\ InTurn(Len(suspended) - cursor - 1, Starting)
        /\ Len(suspended) \in Nat /\ Len(suspended) <= Count /\ cursor \in Nat
    BY <1>3, <1>13, LenProperties DEF Turns, ComingUp, Staged, TurnTypes
  <2>2. PICK m \in 0 .. Count - 1 : m = Len(suspended) - cursor - 1
    BY <1>9, <2>1, ToResume
  <2>3. p = order[Count - m] /\ part[p] \in Starting /\ p = suspended[Len(suspended) - cursor]
    BY <1>2, <1>9, <2>1, <2>2, InTransit, ToResume
  <2>4. answer = "none" /\ part[p] = "starting" /\ answer' = result
    BY <1>2, <1>5, <2>1, <2>3 DEF Starting, Risen
  <2>5. b \in Risen
    BY <1>1, <1>4, <2>4 DEF Risen
  <2>6. InTurn(m, Risen)'
    BY <1>2, <1>3, <1>4, <1>9, <2>1, <2>2, <2>3, <2>5, TakeTurn DEF TurnTypes, Risen
  <2>7. InTurn(Len(suspended) - cursor - 1, Starting)'
    BY <1>2, <2>2, <2>4, <2>6 DEF InTurn, Risen, Starting
  <2>8. Entered("WAIT_RESUME", "RESUMING")'
    BY <1>2, <1>8, <1>13, <2>1 DEF Entered, Stacked
  <2>9. (/\ cursor < Len(suspended)
         /\ expected = token(suspended[Len(suspended) - cursor], "resume"))'
    BY <1>2, <2>1 DEF token
  <2> QED
    BY <1>6, <2>7, <2>8, <2>9, WaitsUp, PTL
<1>14. phase = "NONE" => state = "SHUTTING_DOWN"
  BY <1>3, <1>8 DEF Turns, Staged
<1> QED
  BY <1>3, <1>10, <1>11, <1>12, <1>13, <1>14 DEF TurnTypes

LEMMA AnswerAgainTurns ==
  ASSUME IInv, NEW p \in Participants, AnswerAgain(p)
  PROVE  TurnTypes' /\ Turns'
<1>1. PICK g \in 1 .. generation, operation \in Operations, result \in {"success", "failure"} :
        LET t == [generation |-> g, participant |-> p, operation |-> operation]
        IN /\ t = expected => part[p] \notin {"stopping", "starting"}
           /\ power_manager_complete(t, result)
  BY DEF AnswerAgain
<1> DEFINE t == [generation |-> g, participant |-> p, operation |-> operation]
<1>2. answer' = IF answer = "none" /\ t = expected THEN result ELSE answer
  BY <1>1 DEF power_manager_complete, expects
<1>3. TurnTypes /\ GraphTypes /\ Turns
  BY TypeParts DEF IInv
<1>4. UNCHANGED turning /\ state' = state /\ call' = call
  BY DEF AnswerAgain, turning, graph
<1>5. answer' \in {"none", "success", "failure"}
  BY <1>2, <1>3 DEF TurnTypes
<1>6. ASSUME phase \in {"WAIT_SUSPEND", "WAIT_RESUME"}, answer = "none", t = expected
      PROVE  FALSE
  <2>1. /\ Ordered /\ Stacked /\ Len(suspended) \in Nat /\ Len(suspended) <= Count
        /\ cursor \in Nat /\ Count \in Nat
    BY <1>6, Transition DEF Ordered
  <2>2. expected.participant = p
    BY <1>6
  <2>3. CASE phase = "WAIT_SUSPEND"
    <3>1. /\ cursor < Count /\ expected = token(order[Count - cursor], "suspend")
          /\ InTurn(cursor, {"stopping"})
      BY <1>3, <1>6, <2>3 DEF Turns, GoingDown, Stopping
    <3>2. p = order[Count - cursor] /\ Count - cursor \in 1 .. Count
      BY <2>1, <2>2, <3>1 DEF token
    <3>3. part[p] = "stopping"
      BY <2>1, <3>1, <3>2 DEF InTurn, Risen
    <3> QED
      BY <1>1, <1>6, <3>3
  <2>4. CASE phase = "WAIT_RESUME"
    <3>1. /\ cursor < Len(suspended)
          /\ expected = token(suspended[Len(suspended) - cursor], "resume")
          /\ InTurn(Len(suspended) - cursor - 1, {"starting"})
      BY <1>3, <1>6, <2>4 DEF Turns, ComingUp, Starting
    <3>2. PICK m \in 0 .. Count - 1 : m = Len(suspended) - cursor - 1
      BY <2>1, <3>1, ToResume
    <3>3. p = suspended[Len(suspended) - cursor]
      BY <2>2, <3>1 DEF token
    <3>4. p = order[Count - m] /\ Count - m \in 1 .. Count
      BY <2>1, <3>1, <3>2, <3>3, ToResume
    <3>5. part[p] = "starting"
      BY <2>1, <3>1, <3>2, <3>4 DEF InTurn, Risen
    <3> QED
      BY <1>1, <1>6, <3>5
  <2> QED
    BY <1>6, <2>3, <2>4
<1>7. phase \in {"WAIT_SUSPEND", "WAIT_RESUME"} => answer' = answer
  BY <1>2, <1>6
<1> QED
  BY <1>3, <1>4, <1>5, <1>7, TurnFrame

(* Wherever a transition is, one participant at most is on its way. *)
LEMMA AlwaysHalfway ==
  ASSUME IInv, available, call.pc # "finalize"
  PROVE  Halfway
<1>1. TurnTypes /\ GraphTypes /\ Turns
  BY TypeParts DEF IInv
<1>2. Ordered /\ Count \in Nat
  BY <1>1, OrderedFacts DEF IInv, Ordered
<1>3. Len(suspended) \in Nat /\ Len(suspended) <= Count /\ cursor \in 0 .. Count
  BY <1>1, LenProperties DEF TurnTypes
<1>4. CASE phase = "NONE" /\ state = "SHUTTING_DOWN"
  BY <1>1, <1>4 DEF Turns, Resting
<1>5. CASE state \in {"ACTIVE", "IDLE"}
  <2>1. InTurn(0, Risen) /\ 0 \in 0 .. Count
    BY <1>1, <1>2, <1>5, NoneLowered DEF Turns, Resting, Lowered
  <2> QED
    BY <1>1, <1>2, <2>1, SomeTurn DEF TurnTypes
<1>6. CASE phase = "SUSPEND"
  BY <1>1, <1>2, <1>3, <1>6, SomeTurn DEF TurnTypes, Turns, GoingDown, Lowered
<1>7. CASE phase = "WAIT_SUSPEND"
  BY <1>1, <1>2, <1>3, <1>7, SomeTurn DEF TurnTypes, Turns, GoingDown
<1>8. CASE phase = "SLEEP"
  BY <1>1, <1>2, <1>8, SomeTurn DEF TurnTypes, Turns, GoingDown, Lowered
<1>9. CASE phase = "RESUME"
  <2>1. Len(suspended) - cursor \in 0 .. Count /\ InTurn(Len(suspended) - cursor, Risen)
    BY <1>1, <1>2, <1>3, <1>9 DEF Turns, ComingUp, Lowered
  <2> QED
    BY <1>1, <1>2, <2>1, SomeTurn DEF TurnTypes
<1>10. CASE phase = "WAIT_RESUME"
  <2>1. /\ Len(suspended) - cursor - 1 \in 0 .. Count
        /\ InTurn(Len(suspended) - cursor - 1, Starting)
    BY <1>1, <1>2, <1>3, <1>10 DEF Turns, ComingUp
  <2> QED
    BY <1>1, <1>2, <2>1, SomeTurn DEF TurnTypes
<1>11. phase = "NONE" => state \in {"ACTIVE", "IDLE", "SHUTTING_DOWN"}
  BY <1>1 DEF Turns, Staged
<1> QED
  BY <1>1, <1>4, <1>5, <1>6, <1>7, <1>8, <1>9, <1>10, <1>11 DEF TurnTypes

LEMMA ShutdownTurns ==
  ASSUME IInv, power_manager_begin_shutdown
  PROVE  TurnTypes' /\ Turns'
<1>1. /\ call.pc # "finalize" /\ state' = "SHUTTING_DOWN" /\ phase' = "NONE"
      /\ UNCHANGED <<setup, order, available, cursor, suspended, generation, expected, answer,
                     part, call>>
      /\ Count' = Count /\ Participants' = Participants /\ MaxGeneration' = MaxGeneration
  BY SameSetup DEF power_manager_begin_shutdown, graph, completion
<1>2. TurnTypes /\ Turns
  BY TypeParts DEF IInv
<1>3. TurnTypes'
  BY <1>1, <1>2 DEF TurnTypes, States, Tokens
<1>4. (available => Halfway)'
  BY <1>1, AlwaysHalfway DEF Halfway, InTurn, Risen, PartStates
<1>5. (~available => AllUp)'
  BY <1>1, <1>2 DEF Turns, Resting, AllUp, Risen
<1>6. (state = "SHUTTING_DOWN" /\ phase = "NONE" /\ call.pc # "finalize")'
  BY <1>1
<1> QED
  BY <1>3, <1>4, <1>5, <1>6, ShutsDown, PTL

(* Finalization comes before every transition. *)
LEMMA FinalizeTurns ==
  ASSUME IInv, Finalize
  PROVE  TurnTypes' /\ Turns'
<1>1. /\ call.pc = "finalize" /\ (call' = call \/ Goto("none"))
      /\ UNCHANGED <<setup, state, phase, cursor, suspended, generation, expected, answer, part>>
      /\ Count' = Count /\ Participants' = Participants /\ MaxGeneration' = MaxGeneration
  <2>1. /\ Finalizing /\ (call' = call \/ Goto("none"))
    BY DEF Finalize, VisitNext, VisitDependency, VisitReturns, Finalized
  <2> QED
    BY <2>1, SameSetup DEF Finalizing, transition, completion
<1>2. TurnTypes /\ Turns
  BY TypeParts DEF IInv
<1>3. state = "ACTIVE" /\ phase = "NONE" /\ AllUp
  BY <1>1, <1>2 DEF Turns, Staged, Resting
<1>4. TurnTypes'
  BY <1>1, <1>2 DEF TurnTypes, Tokens
<1>5. AllUp'
  BY <1>1, <1>3 DEF AllUp, Risen
<1> QED
  BY <1>1, <1>3, <1>4, <1>5, AtRest

(* What every step preserves of the transitions *)
LEMMA TurnStep ==
  ASSUME IInv, Next
  PROVE  TurnTypes' /\ Turns'
<1>1. TurnTypes /\ Turns
  BY TypeParts DEF IInv
<1>2. CASE Finalize
  BY <1>2, FinalizeTurns
<1>3. CASE SuspendNext \/ Sleep \/ ResumeNext \/ finish \/ Consume \/ Start \/ CollectWake
  BY <1>3, SuspendNextTurns, SleepTurns, ResumeNextTurns, finishTurns, ConsumeTurns, StartTurns,
     CollectWakeTurns
<1>4. CASE power_manager_begin_shutdown
  BY <1>4, ShutdownTurns
<1>5. CASE \E p \in Participants : Answer(p) \/ AnswerAgain(p)
  BY <1>5, AnswerTurns, AnswerAgainTurns
<1>6. CASE BeginPass \/ NothingToDrive \/ Tick \/ power_manager_request_suspend \/ Wake
  <2>1. UNCHANGED turning /\ UNCHANGED <<state, answer>>
    BY <1>6 DEF BeginPass, NothingToDrive, Tick, power_manager_request_suspend, Wake, turning,
                graph, completion
  <2>2. Finalize \/ (call'.pc = "finalize" => call.pc = "finalize")
    BY CallStep, TypeParts DEF IInv, Moves
  <2> QED
    BY <1>1, <1>2, <2>1, <2>2, TurnFrame DEF TurnTypes
<1>7. CASE Inhibit \/ Take \/ Deadline \/ EndUpdate \/ \E q \in Policies : SetPolicy(q)
  <2>1. UNCHANGED turning /\ UNCHANGED answer
    BY <1>7 DEF Inhibit, Take, Deadline, EndUpdate, SetPolicy, turning, graph, completion
  <2>2. call.pc # "finalize"
    BY <1>7 DEF Inhibit, Take, Deadline, EndUpdate, SetPolicy
  <2>3. call'.pc # "finalize"
    BY <2>2, PassFrame
  <2>4. \/ state' = state
        \/ state \in {"ACTIVE", "IDLE"} /\ state' \in {"ACTIVE", "IDLE"}
    <3>1. CASE Inhibit
      BY <3>1 DEF Inhibit, SetInhibited
    <3>2. CASE Take \/ Deadline \/ EndUpdate
      BY <3>2 DEF Take, Deadline, EndUpdate, SetInhibited
    <3>3. CASE \E q \in Policies : SetPolicy(q)
      BY <3>3 DEF SetPolicy
    <3> QED
      BY <1>7, <3>1, <3>2, <3>3
  <2> QED
    BY <1>1, <2>1, <2>2, <2>3, <2>4, TurnFrame DEF TurnTypes
<1> QED
  BY <1>2, <1>3, <1>4, <1>5, <1>6, <1>7 DEF Next, Pass, Finalize

-----------------------------------------------------------------------------
(* The invariant *)

LEMMA InitIInv == Init => IInv
<1> SUFFICES ASSUME Init PROVE IInv
  OBVIOUS
<1>1. setup \in Setups /\ Count \in Nat /\ MaxGeneration \in Nat /\ policy \in Policies
  BY SetupFacts DEF Init
<1>2. GraphTypes /\ mark = [p \in Participants |-> 0] /\ path = <<>> /\ walk.root = 1
  <2>1. walk = [mark |-> [p \in Participants |-> 0], path |-> <<>>, root |-> 1]
        /\ order = <<>> /\ available = TRUE
    BY DEF Init
  <2>2. walk \in Walk
    BY <1>1, <2>1 DEF Walk
  <2> QED
    BY <1>1, <2>1, <2>2 DEF GraphTypes, mark, path
<1>3. call \in CallRecord /\ call.pc = "finalize"
  <2>1. NoCall \in CallRecord
    BY DEF NoCall, CallRecord, Places
  <2> QED
    BY <2>1, GotoFacts DEF Init, Places
<1>4. Ordering
  <2>1. Nested
    BY <1>2 DEF Nested
  <2>2. Sorted
    BY <1>1, <1>2 DEF Init, Sorted
  <2>3. Looped
    BY <1>2, <1>3 DEF Looped
  <2> QED
    BY <2>1, <2>2, <2>3 DEF Ordering
<1>5. SoundOrder
  BY <1>3 DEF SoundOrder
<1>6. ClockTypes /\ FlagTypes
  <2>1. 0 \in 0 .. MaxTime
    BY TimeAssumption
  <2>2. ClockTypes
    BY <1>1, <2>1 DEF Init, ClockTypes
  <2>3. FlagTypes
    BY DEF Init, FlagTypes
  <2> QED
    BY <2>2, <2>3
<1>7. TurnTypes
  <2>1. NoToken \in Tokens
    BY DEF NoToken, Tokens, Operations
  <2> QED
    BY <1>1, <2>1 DEF Init, TurnTypes, States, PartStates
<1>8. Turns
  <2>1. AllUp /\ state = "ACTIVE" /\ phase = "NONE"
    BY DEF Init, AllUp, Risen
  <2>2. Staged /\ Resting
    BY <1>3, <2>1 DEF Staged, Resting
  <2>3. GoingDown /\ ComingUp
    BY <2>1 DEF GoingDown, ComingUp
  <2> QED
    BY <2>2, <2>3 DEF Turns
<1>9. display \in DisplayRecord /\ Belief(display) /\ DimmingIsEarned
  <2> DEFINE d == [desired |-> 0, brightness |-> 0, brightnessValid |-> FALSE,
                   enabled |-> FALSE, enabledValid |-> FALSE, screenOff |-> FALSE,
                   panelOff |-> FALSE, lamp |-> 0, panel |-> FALSE]
  <2>1. d \in DisplayRecord /\ Belief(d)
    BY DEF DisplayRecord, Belief
  <2>2. display \in restore_display(d, policy)
    BY DEF Init
  <2> HIDE DEF d
  <2>3. Shown(display, FALSE, FALSE)
    BY <1>1, <2>1, <2>2, RestoreKept
  <2> QED
    BY <2>3 DEF Init, Shown, DimmingIsEarned
<1> QED
  BY <1>2, <1>3, <1>4, <1>5, <1>6, <1>7, <1>8, <1>9, TypeParts DEF IInv

LEMMA StepIInv == IInv /\ [Next]_vars => IInv'
<1> SUFFICES ASSUME IInv, [Next]_vars PROVE IInv'
  OBVIOUS
<1>1. CASE Next
  <2>1. GraphTypes' /\ Ordering' /\ SoundOrder' /\ call' \in CallRecord
    BY <1>1, GraphStep DEF IInv
  <2>2. TurnTypes' /\ Turns'
    BY <1>1, TurnStep
  <2>3. ClockTypes' /\ FlagTypes' /\ display' \in DisplayRecord /\ Belief(display)'
        /\ DimmingIsEarned'
    <3>1. Dimmed /\ Staged /\ TypeOK
      BY TypeParts DEF IInv, Dimmed, Turns
    <3>2. Dimmed'
      BY <1>1, <3>1, DimmedStep
    <3> QED
      BY <3>2 DEF Dimmed
  <2>4. (display \in DisplayRecord)' /\ (call \in CallRecord)'
    BY <2>1, <2>3 DEF DisplayRecord, CallRecord, Places
  <2>5. TypeOK'
    BY <2>1, <2>2, <2>3, <2>4, TypeParts, PTL
  <2> QED
    BY <2>1, <2>2, <2>3, <2>5 DEF IInv
<1>2. CASE UNCHANGED vars
  <2>1. /\ UNCHANGED <<now, setup, order, available, walk, state, phase, cursor, suspended>>
        /\ UNCHANGED <<generation, last, policy, inhibited, panicked, display, requested>>
        /\ UNCHANGED <<expected, answer, part, wake, notified, call>>
    BY <1>2 DEF vars
  <2>2. GraphTypes' /\ Ordering' /\ call' \in CallRecord
    <3>1. GraphTypes /\ Ordering /\ UNCHANGED graph /\ call \in CallRecord
      BY <2>1, TypeParts DEF IInv, graph
    <3> QED
      BY <2>1, <3>1, GraphFrame
  <2>3. SoundOrder'
    BY <2>2, OrderingSound, PTL
  <2>4. TurnTypes' /\ Turns'
    <3>1. TurnTypes /\ Turns /\ UNCHANGED turning
      BY <2>1, TypeParts DEF IInv, turning, transition
    <3> QED
      BY <2>1, <3>1, TurnFrame DEF TurnTypes
  <2>5. Dimmed'
    <3>1. Dimmed /\ FlagTypes' /\ UNCHANGED clock
      BY <2>1, TypeParts DEF IInv, Dimmed, FlagTypes, clock
    <3> QED
      BY <2>1, <3>1, DimmedFrame
  <2>6. ClockTypes' /\ FlagTypes' /\ (display \in DisplayRecord)' /\ Belief(display)'
        /\ DimmingIsEarned' /\ (call \in CallRecord)'
    BY <2>2, <2>5 DEF Dimmed, CallRecord, Places
  <2>7. TypeOK'
    BY <2>2, <2>4, <2>6, TypeParts, PTL
  <2> QED
    BY <2>2, <2>3, <2>4, <2>6, <2>7 DEF IInv
<1> QED
  BY <1>1, <1>2

(* The invariant of the power manager holds in every state it can reach. *)
THEOREM Invariance == Spec => []IInv
BY InitIInv, StepIInv, PTL DEF Spec

(* The type invariant *)
THEOREM TypeCorrect == Spec => []TypeOK
<1>1. IInv => TypeOK
  BY DEF IInv
<1> QED
  BY <1>1, Invariance, PTL

(* power_manager_finalize: when no call of visit failed, the order holds every
   participant once, behind all it depends on. *)
THEOREM OrderIsSound == Spec => []SoundOrder
<1>1. IInv => SoundOrder
  BY DEF IInv
<1> QED
  BY <1>1, Invariance, PTL

(* Participants go down before those they depend on, and come up after them unless
   those have failed, in every transition, rollback and shutdown, whatever their
   number and graph. *)
THEOREM DependentsGoFirst == Spec => []DependentsFirst
<1>1. IInv => DependentsFirst
  <2> SUFFICES ASSUME IInv, NEW p \in Participants, NEW q \in Participants, available,
                      q \in Range(deps[p]),
                      part[q] \in {"stopping", "down", "starting"}
               PROVE  part[p] = "down"
    BY DEF DependentsFirst
  <2>1. call.pc # "finalize"
    BY DEF IInv, Turns, Staged, Resting, AllUp, Risen
  <2>2. Ordered /\ Count \in Nat
    BY <2>1, OrderedFacts, TypeParts DEF IInv, Ordered
  <2>3. PICK m \in 0 .. Count : InTurn(m, PartStates)
    BY <2>1, AlwaysHalfway DEF Halfway
  <2>4. PICK i \in 1 .. Count : order[i] = p
    BY <2>2 DEF Ordered
  <2>5. PICK j \in 1 .. i - 1 : order[j] = q
    BY <2>1, <2>4 DEF IInv, SoundOrder, Before
  <2>6. j \in 1 .. Count /\ j < i
    BY <2>2, <2>4, <2>5
  <2>7. j >= Count - m
    BY <2>2, <2>3, <2>5, <2>6 DEF InTurn, Risen
  <2>8. i > Count - m
    BY <2>2, <2>3, <2>4, <2>6, <2>7
  <2> QED
    BY <2>3, <2>4, <2>8 DEF InTurn, Risen
<1> QED
  BY <1>1, Invariance, PTL

(* The manager is suspended only with every participant down, and at rest only
   with none of them down or on its way, whatever answers came late or twice and
   whatever failed. *)
THEOREM SleepIsComplete == Spec => []AllOrNone
<1>1. IInv => AllOrNone
  <2> SUFFICES ASSUME IInv PROVE AllOrNone
    OBVIOUS
  <2>1. ASSUME state = "SUSPENDED", NEW p \in Participants
        PROVE  part[p] = "down"
    <3>1. phase = "SLEEP" /\ phase # "NONE"
      BY <2>1 DEF IInv, Turns, Staged
    <3>2. Ordered /\ Lowered(Count)
      BY <3>1, Transition DEF IInv, Turns, GoingDown
    <3>3. PICK i \in 1 .. Count : order[i] = p
      BY <3>2 DEF Ordered
    <3>4. i > Count - Count
      BY <3>2, <3>3 DEF Ordered
    <3> QED
      BY <3>2, <3>3, <3>4 DEF Lowered, InTurn, Risen
  <2>2. state \in {"ACTIVE", "IDLE"} => \A p \in Participants : part[p] \in {"up", "failed"}
    BY DEF IInv, Turns, Resting, AllUp, Risen
  <2> QED
    BY <2>1, <2>2 DEF AllOrNone
<1> QED
  BY <1>1, Invariance, PTL

(* Whatever write to the display fails, and whether or not it reached the panel,
   the backlight is out while the panel is off. *)
THEOREM PanelIsLitFirst == Spec => []NoLightOnDarkPanel
<1>1. IInv => NoLightOnDarkPanel
  BY DEF IInv, Belief, NoLightOnDarkPanel
<1> QED
  BY <1>1, Invariance, PTL

(* No stage of the display is entered before its time or under an inhibitor,
   for every policy and every deadline that woke the runtime. *)
THEOREM StagesAreEarned == Spec => []DimmingIsEarned
<1>1. IInv => DimmingIsEarned
  BY DEF IInv
<1> QED
  BY <1>1, Invariance, PTL
==============================================================================
