---------------------------- MODULE CameraProofs ----------------------------
(***************************************************************************)
(* Proofs about Camera, for any number of frames, pictures and streams and *)
(* both kinds of format: no picture is lost uncounted, none is overwritten *)
(* under its lease, and they are handed out in the order of their capture. *)
(***************************************************************************)
EXTENDS Camera, FiniteSetTheorems, TLAPS

(* The records of the pool and of the pictures' history *)
StreamRecord ==
  [open : BOOLEAN, format : Formats \cup {"none"}, faulted : BOOLEAN,
   hangup : BOOLEAN, sequence : 0 .. MaxFrames, drops : 0 .. MaxFrames]
FrameRecord == [ready : BOOLEAN, leased : BOOLEAN, sequence : 0 .. MaxFrames]
SeenRecord == [made : 0 .. MaxFrames, given : 0 .. MaxFrames, last : 0 .. MaxFrames]

PoolTypes == stream \in StreamRecord /\ frames \in [Frame -> FrameRecord] /\ seen \in SeenRecord

(* The other variables *)
ServiceTypes ==
  /\ device \in [present : BOOLEAN, error : BOOLEAN]
  /\ app \in {"none", "calling", "open", "released"}
  /\ opens \in 0 .. MaxOpens
OpKinds == {"none", "open", "close", "owner", "remove", "resume", "shutdown"}
OpPlaces == {"free", "configure", "drain", "activate", "signal", "stop", "streamoff",
             "join", "release", "finish", "exit", "down"}
OpTypes == op \in [kind : OpKinds, pc : OpPlaces]
CaptureTypes ==
  capture \in [active : BOOLEAN, shutdown : BOOLEAN,
               device : {"closed", "on", "off"}, format : Formats \cup {"none"}]
SignalTypes == signal \in [notified : BOOLEAN, idle : BOOLEAN, exited : BOOLEAN]
Places == {"wait", "look", "ready", "begin", "dequeue", "process", "requeue", "idle",
           "gone", "crashed"}

(* Without a stream the pool is empty. *)
EmptyPool == [f \in Frame |-> EmptyFrame]
ClosedIsEmpty == ~stream.open => stream = ClosedStream /\ frames = EmptyPool

(* A frame waits to be acquired or is leased. *)
Apart == \A f \in Frame : ~(frames[f].ready /\ frames[f].leased)

(* Every picture of the stream is somewhere; only one that faulted it is not
   counted. *)
Accounted ==
  /\ seen.given + Cardinality(Ready) + stream.drops <= seen.made
  /\ stream.open => stream.sequence <= seen.made
  /\ DropsAreExact

(* The ready pictures are later than every acquired one, no two are the same, *)
Sequenced ==
  /\ stream.open => seen.last <= stream.sequence
  /\ \A f \in Ready : seen.last < frames[f].sequence /\ frames[f].sequence <= stream.sequence
  /\ \A f, g \in Ready : frames[f].sequence = frames[g].sequence => f = g

(* and of an encoded stream they are all the later ones. *)
Gapless ==
  stream.open /\ stream.format = "h264" =>
    \A n \in seen.last + 1 .. stream.sequence : \E f \in Ready : frames[f].sequence = n

Pictures == PoolTypes /\ ClosedIsEmpty /\ Apart /\ Accounted /\ Sequenced /\ Gapless

(* A picture that is processed still has its number. *)
Numbered == worker \in Places /\ (worker = "process" => seen.made < MaxFrames)

IInv ==
  /\ Pictures /\ Numbered
  /\ ServiceTypes /\ OpTypes /\ CaptureTypes /\ SignalTypes

-----------------------------------------------------------------------------
(* Least elements and counting *)

LEMMA LeastNatural ==
  ASSUME NEW S \in SUBSET Nat, S # {}
  PROVE  \E m \in S : \A n \in S : m <= n
<1> DEFINE Below == {0 .. n : n \in S}
<1>1. Below \in SUBSET FiniteSubsetsOf(Nat) /\ Below # {}
  <2>1. \A n \in S : IsFiniteSet(0 .. n)
    BY FS_Interval
  <2>2. \A n \in S : 0 .. n \in SUBSET Nat
    OBVIOUS
  <2>3. \A n \in S : 0 .. n \in FiniteSubsetsOf(Nat)
    BY <2>1, <2>2 DEF FiniteSubsetsOf
  <2> QED
    BY <2>3
<1>2. PICK b \in Below : \A c \in Below : <<c, b>> \notin StrictSubsetOrdering(Nat)
  BY <1>1, FS_StrictSubsetOrderingWellFounded, WFMin
<1>3. PICK m \in S : b = 0 .. m
  BY <1>2
<1>4. ASSUME NEW n \in S, n < m PROVE FALSE
  <2>1. 0 .. n \in SUBSET (0 .. m) /\ 0 .. m \in SUBSET Nat /\ m \in 0 .. m /\ m \notin 0 .. n
    BY <1>4
  <2>2. <<0 .. n, b>> \in StrictSubsetOrdering(Nat)
    BY <1>3, <2>1 DEF StrictSubsetOrdering
  <2> QED
    BY <1>2, <2>2
<1> QED
  BY <1>4

LEMMA MinOf ==
  ASSUME NEW S \in SUBSET Nat, S # {}
  PROVE  Min(S) \in S /\ \A n \in S : Min(S) <= n
BY LeastNatural DEF Min

LEMMA FrameFacts ==
  /\ MaxFrames \in Nat /\ Frame \in SUBSET Nat
  /\ IsFiniteSet(Frame)
BY FramesAssumption, BoundsAssumption, FS_Interval DEF Frame

LEMMA ReadyFacts ==
  /\ Ready \in SUBSET Frame /\ IsFiniteSet(Ready) /\ Cardinality(Ready) \in Nat
  /\ Unleased \in SUBSET Frame /\ Empty = Unleased \ Ready
<1>1. Ready \in SUBSET Frame /\ Unleased \in SUBSET Frame
  BY DEF Ready, Unleased
<1> QED
  BY <1>1, FrameFacts, FS_Subset, FS_CardinalityType DEF Empty

(* The oldest frame of a set is one of them. *)
LEMMA OldestOf ==
  ASSUME PoolTypes, NEW S \in SUBSET Frame, S # {}
  PROVE  Oldest(S) \in S /\ \A g \in S : Older(Oldest(S), g)
<1> DEFINE Numbers == {frames[f].sequence : f \in S}
<1>1. \A f \in S : frames[f].sequence \in Nat
  BY FrameFacts DEF PoolTypes, FrameRecord
<1>2. Numbers \in SUBSET Nat /\ Numbers # {}
  BY <1>1
<1>3. PICK m \in Numbers : \A n \in Numbers : m <= n
  BY <1>2, LeastNatural
<1>4. PICK f \in S : m = frames[f].sequence
  BY <1>3
<1>5. \A g \in S : Older(f, g)
  BY <1>3, <1>4 DEF Older
<1> QED
  BY <1>5 DEF Oldest

-----------------------------------------------------------------------------
(* What the steps of the three threads do to the pictures *)

LEMMA PicturesStay ==
  ASSUME Pictures, UNCHANGED <<stream, frames, seen>>
  PROVE  Pictures'
BY DEF Pictures, PoolTypes, ClosedIsEmpty, Apart, Accounted, Sequenced, Gapless,
       DropsAreExact, Ready

(* Only the flags of an open stream change. *)
Marked ==
  /\ stream' \in StreamRecord
  /\ stream'.open = stream.open /\ stream'.format = stream.format
  /\ stream'.sequence = stream.sequence /\ stream'.drops = stream.drops
  /\ stream.faulted => stream'.faulted
  /\ ~stream.open => stream' = stream
  /\ UNCHANGED <<frames, seen>>

LEMMA MarkedKept ==
  ASSUME Pictures, Marked
  PROVE  Pictures'
<1>1. Ready' = Ready
  BY DEF Marked, Ready
<1>2. PoolTypes' /\ ClosedIsEmpty' /\ Apart'
  BY DEF Pictures, Marked, PoolTypes, ClosedIsEmpty, Apart
<1>3. Accounted'
  BY <1>1 DEF Pictures, Marked, PoolTypes, StreamRecord, Accounted, DropsAreExact
<1>4. Sequenced' /\ Gapless'
  BY <1>1 DEF Pictures, Marked, Sequenced, Gapless
<1> QED
  BY <1>2, <1>3, <1>4 DEF Pictures

LEMMA HangUpMarks ==
  ASSUME Pictures, HangUp, UNCHANGED <<frames, seen>>
  PROVE  Marked
BY DEF Pictures, PoolTypes, StreamRecord, ClosedIsEmpty, ClosedStream, HangUp, Marked

LEMMA ErrorMarks ==
  ASSUME Pictures, camera_service_error, UNCHANGED <<frames, seen>>
  PROVE  Marked
BY DEF Pictures, PoolTypes, StreamRecord, camera_service_error, Faulted, Marked

LEMMA NothingReady ==
  ASSUME frames' = EmptyPool
  PROVE  /\ Ready' = {} /\ Cardinality(Ready') = 0
         /\ frames' \in [Frame -> FrameRecord] /\ Apart'
<1>1. Ready' = {}
  BY DEF Ready, EmptyPool, EmptyFrame
<1>2. frames' \in [Frame -> FrameRecord] /\ Apart'
  BY FrameFacts DEF EmptyPool, EmptyFrame, FrameRecord, Apart
<1> QED
  BY <1>1, <1>2, FS_EmptySet

LEMMA FreeKept ==
  ASSUME Pictures, free_stream, UNCHANGED seen
  PROVE  Pictures'
<1>1. frames' = EmptyPool /\ stream' = ClosedStream
  BY DEF free_stream, EmptyPool
<1>2. /\ stream' \in StreamRecord /\ ~stream'.open
      /\ stream'.drops = 0 /\ stream'.sequence = 0
  BY <1>1, FrameFacts DEF ClosedStream, StreamRecord
<1>3. PoolTypes' /\ ClosedIsEmpty' /\ Apart'
  BY <1>1, <1>2, NothingReady DEF Pictures, PoolTypes, ClosedIsEmpty, EmptyPool
<1>4. seen'.given <= seen'.made
  <2>1. /\ seen.given \in Nat /\ seen.made \in Nat /\ stream.drops \in Nat
        /\ Cardinality(Ready) \in Nat
    BY FrameFacts, ReadyFacts DEF Pictures, PoolTypes, SeenRecord, StreamRecord
  <2> QED
    BY <2>1 DEF Pictures, Accounted
<1>5. Accounted'
  <2>1. seen'.given \in Nat /\ seen'.made \in Nat
    BY <1>3, FrameFacts DEF PoolTypes, SeenRecord
  <2> QED
    BY <1>1, <1>2, <1>4, <2>1, NothingReady DEF Accounted, DropsAreExact
<1>6. Sequenced' /\ Gapless'
  BY <1>1, <1>2, NothingReady DEF Sequenced, Gapless
<1> QED
  BY <1>3, <1>5, <1>6 DEF Pictures

LEMMA OpenKept ==
  ASSUME Pictures, NEW format \in Formats, Open(format)
  PROVE  Pictures'
<1>1. /\ stream' = [ClosedStream EXCEPT !.open = TRUE, !.format = format]
      /\ frames' = EmptyPool
      /\ seen' = [made |-> 0, given |-> 0, last |-> 0]
  BY DEF Open, EmptyPool
<1>2. /\ stream' \in StreamRecord /\ stream'.open
      /\ stream'.drops = 0 /\ stream'.sequence = 0
  <2>1. stream' = [open |-> TRUE, format |-> format, faulted |-> FALSE, hangup |-> FALSE,
                   sequence |-> 0, drops |-> 0]
    BY <1>1 DEF ClosedStream
  <2>2. 0 \in 0 .. MaxFrames /\ format \in Formats \cup {"none"}
    BY FrameFacts
  <2> QED
    BY <2>1, <2>2 DEF StreamRecord
<1>3. /\ seen' \in SeenRecord
      /\ seen'.made = 0 /\ seen'.given = 0 /\ seen'.last = 0
  BY <1>1, FrameFacts DEF SeenRecord
<1>4. PoolTypes' /\ ClosedIsEmpty' /\ Apart'
  BY <1>1, <1>2, <1>3, NothingReady DEF PoolTypes, ClosedIsEmpty
<1>5. Accounted'
  BY <1>1, <1>2, <1>3, NothingReady DEF Accounted, DropsAreExact
<1>6. Sequenced' /\ Gapless'
  BY <1>1, <1>2, <1>3, NothingReady DEF Sequenced, Gapless
<1> QED
  BY <1>4, <1>5, <1>6 DEF Pictures

(* A picture is stored nowhere: it faulted the stream or is counted. *)
LostPicture ==
  /\ stream' \in StreamRecord
  /\ stream'.open /\ stream'.format = stream.format /\ stream'.sequence = stream.sequence
  /\ stream'.faulted \/ stream'.drops = stream.drops + 1
  /\ stream'.drops <= stream.drops + 1
  /\ frames' = frames
  /\ seen' = [seen EXCEPT !.made = @ + 1]

LEMMA OneMore ==
  ASSUME Pictures, seen.made < MaxFrames, seen' = [seen EXCEPT !.made = @ + 1]
  PROVE  /\ seen' \in SeenRecord /\ seen'.made = seen.made + 1
         /\ seen'.given = seen.given /\ seen'.last = seen.last
         /\ seen.made \in Nat /\ seen.given \in Nat /\ seen.last \in Nat
         /\ stream.drops \in Nat /\ stream.sequence \in Nat
<1>1. seen \in SeenRecord /\ stream \in StreamRecord
  BY DEF Pictures, PoolTypes
<1> QED
  BY <1>1, FrameFacts DEF SeenRecord, StreamRecord

LEMMA LostKept ==
  ASSUME Pictures, seen.made < MaxFrames, stream.open, ~stream.faulted, LostPicture
  PROVE  Pictures'
<1>1. Ready' = Ready
  BY DEF LostPicture, Ready
<1>2. /\ seen' \in SeenRecord /\ seen'.made = seen.made + 1
      /\ seen'.given = seen.given /\ seen'.last = seen.last
      /\ seen.made \in Nat /\ seen.given \in Nat /\ seen.last \in Nat
      /\ stream.drops \in Nat /\ stream.sequence \in Nat
  BY OneMore DEF LostPicture
<1>3. PoolTypes' /\ ClosedIsEmpty' /\ Apart'
  BY <1>2 DEF Pictures, LostPicture, PoolTypes, ClosedIsEmpty, Apart
<1>4. stream'.drops \in Nat /\ Cardinality(Ready) \in Nat
  BY FrameFacts, ReadyFacts DEF LostPicture, StreamRecord
<1>5. Accounted'
  BY <1>1, <1>2, <1>4 DEF Pictures, LostPicture, Accounted, DropsAreExact
<1>6. Sequenced' /\ Gapless'
  BY <1>1, <1>2 DEF Pictures, LostPicture, Sequenced, Gapless
<1> QED
  BY <1>3, <1>5, <1>6 DEF Pictures

(* A picture is stored in an empty frame, or in that of a ready picture, which
   is then counted as dropped and is not of an encoded stream. *)
Storable(f, counted) ==
  /\ f \in Frame /\ ~frames[f].leased
  /\ \/ f \notin Ready /\ counted = stream
     \/ f \in Ready /\ counted = Dropped /\ stream.format # "h264"

StoredIn(f) ==
  frames' = [frames EXCEPT ![f] = [@ EXCEPT !.ready = TRUE, !.sequence = stream.sequence + 1]]

LEMMA StoredFrames ==
  ASSUME PoolTypes, NEW f \in Frame, ~frames[f].leased, StoredIn(f),
         stream.sequence + 1 \in 0 .. MaxFrames
  PROVE  /\ frames' \in [Frame -> FrameRecord]
         /\ frames'[f].ready /\ ~frames'[f].leased
         /\ frames'[f].sequence = stream.sequence + 1
         /\ \A g \in Frame : g # f => frames'[g] = frames[g]
         /\ Ready' = Ready \cup {f}
<1> DEFINE new == [frames[f] EXCEPT !.ready = TRUE, !.sequence = stream.sequence + 1]
<1>1. frames[f] \in FrameRecord /\ frames \in [Frame -> FrameRecord]
  BY DEF PoolTypes
<1>2. /\ new.ready /\ ~new.leased /\ new.sequence = stream.sequence + 1
  BY <1>1 DEF FrameRecord
<1>3. new \in FrameRecord
  BY <1>1 DEF FrameRecord
<1> HIDE DEF new
<1>4. frames' = [frames EXCEPT ![f] = new]
  BY DEF StoredIn, new
<1>5. /\ frames' \in [Frame -> FrameRecord]
      /\ frames'[f].ready /\ ~frames'[f].leased
      /\ frames'[f].sequence = stream.sequence + 1
      /\ \A g \in Frame : g # f => frames'[g] = frames[g]
  BY <1>1, <1>2, <1>3, <1>4
<1>6. Ready' = Ready \cup {f}
  BY <1>5 DEF Ready
<1> QED
  BY <1>5, <1>6

(* The stream of a stored picture *)
LEMMA StoredStream ==
  ASSUME Pictures, stream.open, ~stream.faulted, seen.made < MaxFrames,
         NEW counted \in {stream, Dropped},
         stream' = [counted EXCEPT !.sequence = @ + 1]
  PROVE  /\ stream' \in StreamRecord
         /\ stream'.open /\ ~stream'.faulted /\ stream'.format = stream.format
         /\ stream'.sequence = stream.sequence + 1
         /\ stream'.sequence \in 0 .. MaxFrames /\ stream'.sequence <= seen.made + 1
         /\ stream'.drops = IF counted = stream THEN stream.drops ELSE stream.drops + 1
<1>1. /\ stream \in StreamRecord /\ seen \in SeenRecord /\ stream.sequence <= seen.made
      /\ seen.made = seen.given + Cardinality(Ready) + stream.drops
  BY DEF Pictures, PoolTypes, Accounted, DropsAreExact
<1>2. /\ stream.sequence \in Nat /\ stream.drops \in Nat /\ seen.made \in Nat
      /\ seen.given \in Nat /\ Cardinality(Ready) \in Nat
  BY <1>1, FrameFacts, ReadyFacts DEF SeenRecord, StreamRecord
<1>3. /\ stream.sequence + 1 \in 0 .. MaxFrames /\ stream.drops + 1 \in 0 .. MaxFrames
      /\ stream.sequence + 1 <= seen.made + 1
  BY <1>1, <1>2, FrameFacts
<1>4. Dropped \in StreamRecord /\ Dropped.drops = stream.drops + 1 /\ Dropped # stream
      /\ Dropped.open /\ ~Dropped.faulted /\ Dropped.format = stream.format
      /\ Dropped.sequence = stream.sequence
  BY <1>1, <1>2, <1>3 DEF Dropped, StreamRecord
<1>5. CASE counted = stream
  BY <1>1, <1>3, <1>5 DEF StreamRecord
<1>6. CASE counted = Dropped
  BY <1>3, <1>4, <1>6 DEF StreamRecord
<1> QED
  BY <1>5, <1>6

LEMMA StoredKept ==
  ASSUME Pictures, stream.open, ~stream.faulted, seen.made < MaxFrames,
         seen' = [seen EXCEPT !.made = @ + 1],
         NEW f, NEW counted, Storable(f, counted), Filled(f, counted)
  PROVE  Pictures'
<1>1. /\ seen' \in SeenRecord /\ seen'.made = seen.made + 1
      /\ seen'.given = seen.given /\ seen'.last = seen.last
      /\ seen.made \in Nat /\ seen.given \in Nat /\ seen.last \in Nat
      /\ stream.drops \in Nat /\ stream.sequence \in Nat
  BY OneMore
<1>2. f \in Frame /\ ~frames[f].leased /\ counted \in {stream, Dropped}
  BY DEF Storable
<1>3. /\ stream' \in StreamRecord
      /\ stream'.open /\ ~stream'.faulted /\ stream'.format = stream.format
      /\ stream'.sequence = stream.sequence + 1
      /\ stream'.sequence \in 0 .. MaxFrames /\ stream'.sequence <= seen.made + 1
      /\ stream'.drops = IF counted = stream THEN stream.drops ELSE stream.drops + 1
  BY <1>2, StoredStream DEF Filled
<1>4. /\ frames' \in [Frame -> FrameRecord]
      /\ frames'[f].ready /\ ~frames'[f].leased
      /\ frames'[f].sequence = stream.sequence + 1
      /\ \A g \in Frame : g # f => frames'[g] = frames[g]
      /\ Ready' = Ready \cup {f}
  BY <1>2, <1>3, StoredFrames DEF Filled, StoredIn, Pictures
<1>5. PoolTypes' /\ ClosedIsEmpty' /\ Apart'
  BY <1>1, <1>2, <1>3, <1>4 DEF Pictures, PoolTypes, ClosedIsEmpty, Apart
<1>6. Accounted'
  <2>1. Cardinality(Ready) \in Nat /\ IsFiniteSet(Ready)
    BY ReadyFacts
  <2>2. seen.made = seen.given + Cardinality(Ready) + stream.drops
    BY DEF Pictures, Accounted, DropsAreExact
  <2>3. CASE f \notin Ready /\ counted = stream
    <3>1. Cardinality(Ready') = Cardinality(Ready) + 1 /\ stream'.drops = stream.drops
      BY <1>3, <1>4, <2>1, <2>3, FS_AddElement
    <3> QED
      BY <1>1, <1>3, <2>1, <2>2, <3>1 DEF Accounted, DropsAreExact
  <2>4. CASE f \in Ready /\ counted = Dropped
    <3>1. Ready' = Ready
      BY <1>4, <2>4
    <3>2. stream'.drops = stream.drops + 1
      <4>1. Dropped.drops = stream.drops + 1
        BY DEF Dropped, Pictures, PoolTypes, StreamRecord
      <4> QED
        BY <1>1, <1>3, <2>4, <4>1
    <3> QED
      BY <1>1, <1>3, <2>1, <2>2, <3>1, <3>2 DEF Accounted, DropsAreExact
  <2> QED
    BY <2>3, <2>4 DEF Storable
<1>7. Sequenced'
  <2>1. seen'.last <= stream'.sequence
    BY <1>1, <1>3 DEF Pictures, Sequenced
  <2>2. seen.last <= stream.sequence
    BY DEF Pictures, Sequenced
  <2>3. \A g \in Ready : g # f => /\ frames'[g] = frames[g]
                                  /\ frames[g].sequence \in Nat
                                  /\ seen.last < frames[g].sequence
                                  /\ frames[g].sequence <= stream.sequence
    BY <1>4, ReadyFacts, FrameFacts DEF Pictures, PoolTypes, FrameRecord, Sequenced
  <2>4. \A g \in Ready' : /\ seen'.last < frames'[g].sequence
                          /\ frames'[g].sequence <= stream'.sequence
    BY <1>1, <1>3, <1>4, <2>2, <2>3
  <2>5. \A g, h \in Ready' : frames'[g].sequence = frames'[h].sequence => g = h
    <3> TAKE g, h \in Ready'
    <3>1. CASE g = f \/ h = f
      BY <1>1, <1>4, <2>3, <3>1
    <3>2. CASE g # f /\ h # f
      BY <1>4, <2>3, <3>2 DEF Pictures, Sequenced
    <3> QED
      BY <3>1, <3>2
  <2> QED
    BY <2>1, <2>4, <2>5 DEF Sequenced
<1>8. Gapless'
  <2> SUFFICES ASSUME stream.format = "h264",
                      NEW n \in seen.last + 1 .. stream.sequence + 1
               PROVE  \E g \in Ready' : frames'[g].sequence = n
    BY <1>1, <1>3 DEF Gapless
  <2>1. f \notin Ready
    BY DEF Storable
  <2>2. CASE n = stream.sequence + 1
    BY <1>4, <2>2
  <2>3. CASE n # stream.sequence + 1
    <3>1. n \in seen.last + 1 .. stream.sequence
      BY <1>1, <2>3
    <3>2. PICK g \in Ready : frames[g].sequence = n
      BY <3>1 DEF Pictures, Gapless
    <3> QED
      BY <1>4, <2>1, <3>2, ReadyFacts
  <2> QED
    BY <2>2, <2>3
<1> QED
  BY <1>5, <1>6, <1>7, <1>8 DEF Pictures

LEMMA SubmitKept ==
  ASSUME Pictures, Numbered, Submit
  PROVE  Pictures'
<1>1. CASE ~(Capturing /\ capture.format = stream.format)
  BY <1>1, PicturesStay DEF Submit, camera_service_submit
<1>2. CASE Capturing /\ capture.format = stream.format
  <2>1. /\ stream.open /\ ~stream.faulted /\ seen.made < MaxFrames
        /\ seen' = [seen EXCEPT !.made = @ + 1]
    BY <1>2 DEF Submit, Capturing, Numbered
  <2>2. /\ stream \in StreamRecord /\ seen \in SeenRecord
        /\ stream.drops \in Nat /\ stream.drops + 1 \in 0 .. MaxFrames
    <3>1. /\ stream \in StreamRecord /\ seen \in SeenRecord
          /\ seen.made = seen.given + Cardinality(Ready) + stream.drops
      BY <2>1 DEF Pictures, PoolTypes, Accounted, DropsAreExact
    <3> QED
      BY <2>1, <3>1, FrameFacts, ReadyFacts DEF StreamRecord, SeenRecord
  <2>3. Faulted \in StreamRecord /\ Faulted.faulted = TRUE
    BY <2>2 DEF Faulted, StreamRecord
  <2>4. Dropped \in StreamRecord /\ Dropped.drops = stream.drops + 1
    BY <2>2 DEF Dropped, StreamRecord
  <2>5. ASSUME frames' = frames,
               stream' \in {Faulted, Dropped, [Dropped EXCEPT !.faulted = TRUE]}
        PROVE  Pictures'
    <3>1. LostPicture
      <4>1. CASE stream' = Faulted
        <5>1. /\ stream'.open = stream.open /\ stream'.format = stream.format
              /\ stream'.sequence = stream.sequence /\ stream'.drops = stream.drops
          BY <2>2, <4>1 DEF Faulted, StreamRecord
        <5>2. stream'.faulted = TRUE /\ stream' \in StreamRecord
          BY <2>3, <4>1
        <5> QED
          BY <2>1, <2>2, <2>5, <5>1, <5>2 DEF LostPicture
      <4>2. CASE stream' = Dropped
        BY <2>1, <2>2, <2>5, <4>2 DEF LostPicture, Dropped, StreamRecord
      <4>3. CASE stream' = [Dropped EXCEPT !.faulted = TRUE]
        <5>1. /\ stream'.open = stream.open /\ stream'.format = stream.format
              /\ stream'.sequence = stream.sequence /\ stream'.drops = stream.drops + 1
          BY <2>2, <4>3 DEF Dropped, StreamRecord
        <5>2. stream'.faulted = TRUE /\ stream' \in StreamRecord
          BY <2>4, <4>3 DEF StreamRecord
        <5> QED
          BY <2>1, <2>2, <2>5, <5>1, <5>2 DEF LostPicture
      <4> QED
        BY <2>5, <4>1, <4>2, <4>3
    <3> QED
      BY <2>1, <3>1, LostKept
  <2>6. CASE Empty # {}
    <3>1. Min(Empty) \in Empty
      BY <2>6, MinOf, FrameFacts, ReadyFacts
    <3>2. Storable(Min(Empty), stream)
      BY <3>1, ReadyFacts DEF Storable, Empty, Unleased
    <3>3. Stored(Min(Empty), stream)
      BY <1>2, <2>6 DEF Submit, camera_service_submit
    <3> QED
      BY <2>1, <2>5, <3>2, <3>3, StoredKept DEF Stored, Faulted
  <2>7. CASE Empty = {} /\ stream.format = "h264"
    BY <1>2, <2>5, <2>7 DEF Submit, camera_service_submit
  <2>8. CASE Empty = {} /\ stream.format # "h264" /\ Replaceable = {}
    BY <1>2, <2>5, <2>8 DEF Submit, camera_service_submit
  <2>9. CASE Empty = {} /\ stream.format # "h264" /\ Replaceable # {}
    <3>1. Oldest(Unleased) \in Unleased
      BY <2>9, OldestOf, ReadyFacts DEF Replaceable, Pictures
    <3>2. Oldest(Unleased) \in Ready
      BY <2>9, <3>1, ReadyFacts
    <3>3. Storable(Oldest(Unleased), Dropped)
      BY <2>9, <3>1, <3>2 DEF Storable, Unleased
    <3>4. Stored(Oldest(Unleased), Dropped)
      BY <1>2, <2>9 DEF Submit, camera_service_submit, Replaceable
    <3> QED
      BY <2>1, <2>5, <3>3, <3>4, StoredKept DEF Stored
  <2> QED
    BY <2>6, <2>7, <2>8, <2>9
<1> QED
  BY <1>1, <1>2

LEMMA AcquireKept ==
  ASSUME Pictures, Acquire
  PROVE  /\ Pictures'
         /\ IF stream.format = "h264" THEN seen'.last = seen.last + 1
            ELSE seen'.last > seen.last
<1> DEFINE f == NextReady
           new == [frames[f] EXCEPT !.ready = FALSE, !.leased = TRUE]
<1>1. /\ f \in Ready /\ f \in Frame
      /\ \A g \in Ready : frames[f].sequence <= frames[g].sequence
  BY OldestOf, ReadyFacts DEF Pictures, Acquire, NextReady, Older
<1>2. /\ frames \in [Frame -> FrameRecord] /\ frames[f] \in FrameRecord
      /\ seen \in SeenRecord /\ stream \in StreamRecord /\ stream.open
      /\ stream' = stream
  BY <1>1 DEF Pictures, PoolTypes, Acquire
<1>3. new \in FrameRecord /\ ~new.ready /\ new.leased
  BY <1>2 DEF FrameRecord
<1>4. /\ frames' = [frames EXCEPT ![f] = new]
      /\ seen' = [seen EXCEPT !.given = @ + 1, !.last = frames[f].sequence]
  BY DEF Acquire
<1> HIDE DEF f, new
<1>5. /\ frames' \in [Frame -> FrameRecord]
      /\ ~frames'[f].ready /\ frames'[f].leased
      /\ \A g \in Frame : g # f => frames'[g] = frames[g]
  BY <1>1, <1>2, <1>3, <1>4
<1>6. Ready' = Ready \ {f}
  BY <1>5 DEF Ready
<1>7. /\ IsFiniteSet(Ready) /\ Cardinality(Ready) \in Nat
      /\ Cardinality(Ready') = Cardinality(Ready) - 1 /\ Cardinality(Ready') \in Nat
  <2>1. IsFiniteSet(Ready \ {f}) /\ Cardinality(Ready \ {f}) = Cardinality(Ready) - 1
    BY <1>1, ReadyFacts, FS_RemoveElement
  <2> QED
    BY <1>6, <2>1, ReadyFacts, FS_CardinalityType
<1>8. /\ seen.made \in Nat /\ seen.given \in Nat /\ seen.last \in Nat
      /\ stream.drops \in Nat /\ stream.sequence \in Nat
      /\ seen.made \in 0 .. MaxFrames /\ frames[f].sequence \in 0 .. MaxFrames
      /\ seen.given + Cardinality(Ready) + stream.drops <= seen.made
  BY <1>2, FrameFacts DEF SeenRecord, StreamRecord, FrameRecord, Pictures, Accounted
<1>9. /\ seen' \in SeenRecord /\ seen'.made = seen.made
      /\ seen'.given = seen.given + 1 /\ seen'.last = frames[f].sequence
  <2>1. seen.given + 1 \in 0 .. MaxFrames
    BY <1>7, <1>8, FrameFacts
  <2> QED
    BY <1>2, <1>4, <1>8, <2>1 DEF SeenRecord
<1>10. PoolTypes' /\ ClosedIsEmpty' /\ Apart'
  BY <1>1, <1>2, <1>5, <1>9 DEF Pictures, PoolTypes, ClosedIsEmpty, Apart
<1>11. Accounted'
  BY <1>2, <1>7, <1>8, <1>9 DEF Pictures, Accounted, DropsAreExact
<1>12. \A g \in Ready' : g \in Frame /\ g # f /\ g \in Ready /\ frames'[g] = frames[g]
                        /\ frames[g].sequence \in Nat
  BY <1>2, <1>5, <1>6, ReadyFacts, FrameFacts DEF FrameRecord
<1>13. Sequenced'
  <2>1. seen'.last <= stream'.sequence
    BY <1>1, <1>2, <1>9 DEF Pictures, Sequenced
  <2>2. \A g \in Ready' : /\ seen'.last < frames'[g].sequence
                          /\ frames'[g].sequence <= stream'.sequence
    BY <1>1, <1>2, <1>8, <1>9, <1>12 DEF Pictures, Sequenced
  <2>3. \A g, h \in Ready' : frames'[g].sequence = frames'[h].sequence => g = h
    BY <1>12 DEF Pictures, Sequenced
  <2> QED
    BY <2>1, <2>2, <2>3 DEF Sequenced
<1>14. Gapless'
  <2> SUFFICES ASSUME stream.format = "h264", NEW n \in seen'.last + 1 .. stream.sequence
               PROVE  \E g \in Ready' : frames'[g].sequence = n
    BY <1>2 DEF Gapless
  <2>1. n \in seen.last + 1 .. stream.sequence /\ n # frames[f].sequence
    BY <1>1, <1>8, <1>9 DEF Pictures, Sequenced
  <2>2. PICK g \in Ready : frames[g].sequence = n
    BY <1>2, <2>1 DEF Pictures, Gapless
  <2>3. g \in Ready'
    BY <1>6, <2>1, <2>2
  <2> QED
    BY <1>12, <2>2, <2>3
<1>15. seen'.last > seen.last
  BY <1>1, <1>8, <1>9 DEF Pictures, Sequenced
<1>16. ASSUME stream.format = "h264" PROVE seen'.last = seen.last + 1
  <2>1. seen.last + 1 \in seen.last + 1 .. stream.sequence
    BY <1>1, <1>8 DEF Pictures, Sequenced
  <2>2. PICK g \in Ready : frames[g].sequence = seen.last + 1
    BY <1>2, <1>16, <2>1 DEF Pictures, Gapless
  <2> QED
    BY <1>1, <1>8, <1>9, <1>15, <2>2
<1> QED
  BY <1>10, <1>11, <1>13, <1>14, <1>15, <1>16 DEF Pictures

LEMMA ReleaseLeaseKept ==
  ASSUME Pictures, NEW f \in Frame, ReleaseLease(f)
  PROVE  Pictures'
<1> DEFINE new == [frames[f] EXCEPT !.leased = FALSE]
<1>1. /\ frames \in [Frame -> FrameRecord] /\ frames[f] \in FrameRecord
      /\ UNCHANGED <<stream, seen>>
  BY DEF Pictures, PoolTypes, ReleaseLease
<1>2. /\ new \in FrameRecord /\ ~new.leased
      /\ new.ready = frames[f].ready /\ new.sequence = frames[f].sequence
  BY <1>1 DEF FrameRecord
<1>3. frames' = [frames EXCEPT ![f] = new]
  BY DEF ReleaseLease
<1> HIDE DEF new
<1>4. /\ frames' \in [Frame -> FrameRecord]
      /\ \A g \in Frame : /\ frames'[g].ready = frames[g].ready
                          /\ frames'[g].sequence = frames[g].sequence
                          /\ frames'[g].leased => frames[g].leased
  BY <1>1, <1>2, <1>3
<1>5. Ready' = Ready
  BY <1>4 DEF Ready
<1>6. PoolTypes' /\ ClosedIsEmpty' /\ Apart'
  <2>1. stream.open
    BY DEF ReleaseLease, Pictures, ClosedIsEmpty, EmptyPool, EmptyFrame
  <2> QED
    BY <1>1, <1>4, <2>1 DEF Pictures, PoolTypes, ClosedIsEmpty, Apart
<1>7. Accounted'
  BY <1>1, <1>5 DEF Pictures, Accounted, DropsAreExact
<1>8. Sequenced' /\ Gapless'
  BY <1>1, <1>4, <1>5, ReadyFacts DEF Pictures, Sequenced, Gapless
<1> QED
  BY <1>6, <1>7, <1>8 DEF Pictures

-----------------------------------------------------------------------------
(* Every step is one of these for the pictures. *)
PictureStep ==
  \/ UNCHANGED <<stream, frames, seen>>
  \/ Marked
  \/ free_stream /\ UNCHANGED seen
  \/ \E format \in Formats : Open(format)
  \/ Acquire
  \/ \E f \in Frame : ReleaseLease(f)
  \/ Submit

LEMMA StepIsPictureStep == Pictures /\ [Next]_vars => PictureStep
<1> SUFFICES ASSUME Pictures, [Next]_vars PROVE PictureStep
  OBVIOUS
<1>1. CASE Operation
  <2>1. CASE ConfigureFails \/ FinishClose
    BY <2>1 DEF ConfigureFails, FinishClose, PictureStep
  <2>2. CASE \/ Configure \/ Drain \/ Activate \/ Signal \/ Deactivate \/ StreamOff
             \/ Join \/ Release \/ EndWorker \/ JoinExit \/ FinishRemove
    BY <2>2 DEF Configure, Drain, Activate, Signal, Deactivate, StreamOff, Join, Release,
                EndWorker, JoinExit, FinishRemove, service, PictureStep
  <2> QED
    BY <1>1, <2>1, <2>2 DEF Operation
<1>2. CASE Application
  <2>1. CASE Close
    BY <2>1, HangUpMarks DEF Close, PictureStep
  <2> QED
    BY <1>2, <2>1 DEF Application, PictureStep
<1>3. CASE Resume \/ Shutdown
  BY <1>3 DEF Resume, Shutdown, service, PictureStep
<1>4. CASE CloseOwner \/ RemoveDevice
  BY <1>4, HangUpMarks DEF CloseOwner, RemoveDevice, PictureStep
<1>5. CASE Worker
  <2>1. CASE Submit
    BY <2>1 DEF PictureStep
  <2>2. CASE Fails
    BY <2>2, ErrorMarks DEF Fails, PictureStep
  <2>3. CASE \/ Woken \/ Look \/ LookReady \/ BeginFrame \/ Dequeued \/ Flawed \/ Missed
             \/ Requeue \/ Crash \/ GiveIdle
    BY <2>3 DEF Woken, Look, LookReady, BeginFrame, Dequeued, Flawed, Missed, Requeue,
                Crash, GiveIdle, Moves, service, PictureStep
  <2> QED
    BY <1>5, <2>1, <2>2, <2>3 DEF Worker
<1>6. CASE UNCHANGED vars
  BY <1>6 DEF vars, PictureStep
<1> QED
  BY <1>1, <1>2, <1>3, <1>4, <1>5, <1>6 DEF Next, Runtime

LEMMA PicturesKept == Pictures /\ Numbered /\ PictureStep => Pictures'
BY PicturesStay, MarkedKept, FreeKept, OpenKept, AcquireKept, ReleaseLeaseKept, SubmitKept
   DEF PictureStep

(* A picture is numbered when it is dequeued; only Submit, which ends the
   processing, and a new stream change the count. *)
LEMMA NumberedKept == Pictures /\ Numbered /\ [Next]_vars => Numbered'
<1> SUFFICES ASSUME Pictures, Numbered, [Next]_vars PROVE Numbered'
  OBVIOUS
<1>0. MaxFrames \in Nat /\ seen \in SeenRecord /\ seen.made \in Nat
  BY FrameFacts DEF Pictures, PoolTypes, SeenRecord
<1>1. CASE UNCHANGED <<worker, seen>>
  BY <1>1 DEF Numbered
<1>2. ASSUME NEW format \in Formats, Open(format) PROVE Numbered'
  BY <1>0, <1>2 DEF Open, Numbered
<1>3. CASE Acquire
  BY <1>0, <1>3 DEF Acquire, Numbered, SeenRecord
<1>4. CASE Worker
  <2>1. CASE Dequeued
    BY <2>1 DEF Dequeued, Moves, WorkerTo, Numbered, Places
  <2>2. CASE Woken \/ Look \/ LookReady \/ BeginFrame \/ Flawed \/ Missed
    BY <2>2 DEF Woken, Look, LookReady, BeginFrame, Flawed, Missed, Moves, WorkerTo,
                Numbered, Places
  <2>3. CASE Submit \/ Fails \/ Requeue \/ Crash \/ GiveIdle
    BY <2>3 DEF Submit, Fails, Requeue, Crash, GiveIdle, Moves, WorkerTo, Numbered, Places
  <2> QED
    BY <1>4, <2>1, <2>2, <2>3 DEF Worker
<1>5. CASE Operation \/ Resume \/ Runtime \/ Close \/ \E f \in Frame : ReleaseLease(f)
  <2>1. UNCHANGED <<worker, seen>>
    BY <1>5 DEF Operation, Configure, ConfigureFails, Drain, Activate, Signal, Deactivate,
                StreamOff, Join, Release, FinishClose, FinishRemove, EndWorker, JoinExit,
                Resume, Runtime, CloseOwner, RemoveDevice, Shutdown, Close, ReleaseLease
  <2> QED
    BY <1>1, <2>1
<1>6. CASE UNCHANGED vars
  BY <1>1, <1>6 DEF vars
<1> QED
  BY <1>2, <1>3, <1>4, <1>5, <1>6 DEF Next, Application

-----------------------------------------------------------------------------
(* The types of the rest *)

LEMMA OpMoves ==
  /\ \A kind \in OpKinds, pc \in OpPlaces : Begin(kind, pc) => OpTypes'
  /\ \A pc \in OpPlaces : OpTypes /\ Goto(pc) => OpTypes'
  /\ op' = Free => OpTypes'
  /\ OpTypes /\ UNCHANGED op => OpTypes'
<1>1. \A kind \in OpKinds, pc \in OpPlaces : Begin(kind, pc) => OpTypes'
  BY DEF Begin, OpTypes
<1>2. \A pc \in OpPlaces : OpTypes /\ Goto(pc) => OpTypes'
  BY DEF Goto, OpTypes
<1>3. op' = Free => OpTypes'
  BY DEF Free, OpTypes, OpKinds, OpPlaces
<1> QED
  BY <1>1, <1>2, <1>3 DEF OpTypes

LEMMA OpNames ==
  /\ {"open", "close", "owner", "remove", "resume", "shutdown"} \in SUBSET OpKinds
  /\ {"configure", "drain", "activate", "signal", "stop", "streamoff", "join", "release",
      "finish", "exit", "down"} \in SUBSET OpPlaces
BY DEF OpKinds, OpPlaces

LEMMA OpKept == OpTypes /\ [Next]_vars => OpTypes'
<1> SUFFICES ASSUME OpTypes, [Next]_vars PROVE OpTypes'
  OBVIOUS
<1>1. CASE ConfigureFails \/ Signal \/ FinishClose \/ FinishRemove
  BY <1>1, OpMoves DEF ConfigureFails, Signal, FinishClose, FinishRemove
<1>2. CASE Configure \/ Drain \/ Activate \/ Deactivate \/ StreamOff \/ Join \/ Release
           \/ JoinExit
  BY <1>2, OpMoves, OpNames
     DEF Configure, Drain, Activate, Deactivate, StreamOff, Join, Release, JoinExit
<1>3. CASE \/ \E format \in Formats : Open(format)
           \/ Close \/ Resume \/ CloseOwner \/ RemoveDevice \/ Shutdown
  BY <1>3, OpMoves, OpNames DEF Open, Close, Resume, CloseOwner, RemoveDevice, Shutdown
<1>4. CASE EndWorker \/ Acquire \/ Worker \/ UNCHANGED vars
  <2>1. UNCHANGED op
    BY <1>4 DEF EndWorker, Acquire, Worker, Woken, Look, LookReady, BeginFrame, Dequeued,
                Flawed, Missed, Submit, Fails, Requeue, Crash, GiveIdle, Moves, WorkerTo, vars
  <2> QED
    BY <2>1, OpMoves
<1>5. ASSUME NEW f \in Frame, ReleaseLease(f) PROVE OpTypes'
  BY <1>5, OpMoves DEF ReleaseLease
<1> QED
  BY <1>1, <1>2, <1>3, <1>4, <1>5 DEF Next, Operation, Application, Runtime

LEMMA RestKept ==
  Pictures /\ ServiceTypes /\ CaptureTypes /\ SignalTypes /\ [Next]_vars =>
    ServiceTypes' /\ CaptureTypes' /\ SignalTypes'
<1> SUFFICES ASSUME Pictures, ServiceTypes, CaptureTypes, SignalTypes, [Next]_vars
             PROVE  ServiceTypes' /\ CaptureTypes' /\ SignalTypes'
  OBVIOUS
<1>0. stream.format \in Formats \cup {"none"} /\ MaxOpens \in Nat
  BY BoundsAssumption DEF Pictures, PoolTypes, StreamRecord
<1>1. CASE Operation \/ Resume \/ Runtime \/ UNCHANGED vars
  <2>1. ServiceTypes'
    BY <1>1 DEF ServiceTypes, Operation, Configure, ConfigureFails, Drain, Activate, Signal,
                Deactivate, StreamOff, Join, Release, FinishClose, FinishRemove, EndWorker,
                JoinExit, Resume, Runtime, CloseOwner, RemoveDevice, Shutdown, service, vars
  <2>2. CaptureTypes'
    BY <1>0, <1>1
       DEF CaptureTypes, Operation, Configure, ConfigureFails, Drain, Activate, Signal,
           Deactivate, StreamOff, Join, Release, FinishClose, FinishRemove, EndWorker,
           JoinExit, Resume, Runtime, CloseOwner, RemoveDevice, Shutdown, vars
  <2>3. SignalTypes'
    BY <1>1 DEF SignalTypes, Operation, Configure, ConfigureFails, Drain, Activate, Signal,
                Deactivate, StreamOff, Join, Release, FinishClose, FinishRemove, EndWorker,
                JoinExit, Resume, Runtime, CloseOwner, RemoveDevice, Shutdown, vars
  <2> QED
    BY <2>1, <2>2, <2>3
<1>2. CASE Application
  <2>1. UNCHANGED <<device, capture, signal>>
    BY <1>2 DEF Application, Open, Close, Acquire, ReleaseLease
  <2>2. app' \in {"none", "calling", "open", "released"}
    BY <1>2 DEF ServiceTypes, Application, Open, Close, Acquire, ReleaseLease
  <2>3. opens' \in 0 .. MaxOpens
    <3>1. opens' = opens \/ (opens < MaxOpens /\ opens' = opens + 1)
      BY <1>2 DEF Application, Open, Close, Acquire, ReleaseLease
    <3> QED
      BY <1>0, <3>1 DEF ServiceTypes
  <2> QED
    BY <2>1, <2>2, <2>3 DEF ServiceTypes, CaptureTypes, SignalTypes
<1>3. CASE Worker
  <2>1. ServiceTypes'
    BY <1>3 DEF ServiceTypes, Worker, Woken, Look, LookReady, BeginFrame, Dequeued, Flawed,
                Missed, Submit, Fails, camera_service_error, Requeue, Crash, GiveIdle, Moves,
                WorkerTo, service
  <2>2. CaptureTypes'
    BY <1>3 DEF CaptureTypes, Worker, Woken, Look, LookReady, BeginFrame, Dequeued, Flawed,
                Missed, Submit, Fails, Requeue, Crash, GiveIdle, Moves, WorkerTo
  <2>3. SignalTypes'
    BY <1>3 DEF SignalTypes, CaptureTypes, Worker, Woken, Look, LookReady, BeginFrame,
                Dequeued, Flawed, Missed, Submit, Fails, Requeue, Crash, GiveIdle, Moves
  <2> QED
    BY <2>1, <2>2, <2>3
<1> QED
  BY <1>1, <1>2, <1>3 DEF Next

-----------------------------------------------------------------------------
LEMMA InitInv == Init => IInv
<1> SUFFICES ASSUME Init PROVE IInv
  OBVIOUS
<1>1. frames = EmptyPool /\ stream = ClosedStream /\ seen = [made |-> 0, given |-> 0, last |-> 0]
  BY DEF Init, EmptyPool
<1>2. Ready = {} /\ Cardinality(Ready) = 0
  BY <1>1, FS_EmptySet DEF Ready, EmptyPool, EmptyFrame
<1>3. PoolTypes /\ ClosedIsEmpty /\ Apart
  BY <1>1, FrameFacts DEF PoolTypes, StreamRecord, ClosedStream, FrameRecord, SeenRecord,
                          EmptyPool, EmptyFrame, ClosedIsEmpty, Apart
<1>4. Accounted /\ Sequenced /\ Gapless
  BY <1>1, <1>2 DEF Accounted, DropsAreExact, Sequenced, Gapless, ClosedStream
<1>5. Numbered /\ ServiceTypes /\ OpTypes /\ CaptureTypes /\ SignalTypes
  BY BoundsAssumption DEF Init, Numbered, Places, ServiceTypes, OpTypes, OpKinds, OpPlaces,
                          Free, CaptureTypes, SignalTypes
<1> QED
  BY <1>3, <1>4, <1>5 DEF IInv, Pictures

LEMMA NextInv == IInv /\ [Next]_vars => IInv'
BY StepIsPictureStep, PicturesKept, NumberedKept, OpKept, RestKept DEF IInv

(* Every reachable state of the camera satisfies IInv, whatever the number of
   frames, pictures and streams. *)
THEOREM Invariance == Spec => []IInv
BY InitInv, NextInv, PTL DEF Spec

(* The variables of the service, of the two kinds of callers and of the worker
   stay in their ranges: the counters of a stream never pass the pictures its
   sensor delivered. *)
THEOREM TypeCorrect == Spec => []TypeOK
<1>1. IInv => TypeOK
  BY DEF IInv, Pictures, PoolTypes, StreamRecord, FrameRecord, SeenRecord, Numbered, Places,
         ServiceTypes, OpTypes, OpKinds, OpPlaces, CaptureTypes, SignalTypes, TypeOK
<1> QED
  BY <1>1, Invariance, PTL

(* Whatever the worker submits while the application acquires and releases,
   every picture of a stream that did not fault was acquired, waits or is
   counted by camera_service_submit as dropped. *)
THEOREM LossesAreCounted == Spec => []DropsAreExact
<1>1. IInv => DropsAreExact
  BY DEF IInv, Pictures, Accounted
<1> QED
  BY <1>1, Invariance, PTL

(* camera_service_acquire hands pictures out in the order they were submitted,
   those of an encoded stream without a gap, although a full pool of another
   stream replaces its oldest. *)
THEOREM OrderIsKept == Spec => InOrder
<1>1. IInv /\ [Next]_vars =>
        (seen'.given > seen.given =>
           IF stream.format = "h264" THEN seen'.last = seen.last + 1
           ELSE seen'.last > seen.last)
  <2> SUFFICES ASSUME IInv, [Next]_vars, seen'.given > seen.given
               PROVE  IF stream.format = "h264" THEN seen'.last = seen.last + 1
                      ELSE seen'.last > seen.last
    OBVIOUS
  <2>1. seen \in SeenRecord /\ seen.given \in Nat
    BY FrameFacts DEF IInv, Pictures, PoolTypes, SeenRecord
  <2>2. PictureStep
    BY StepIsPictureStep DEF IInv
  <2>3. seen'.given # seen.given /\ seen'.given # 0
    BY <2>1
  <2>4. Acquire
    <3>1. ~(UNCHANGED seen)
      BY <2>3
    <3>2. ~Submit
      BY <2>1, <2>3 DEF Submit, SeenRecord
    <3>3. \A format \in Formats : ~Open(format)
      BY <2>3 DEF Open
    <3> QED
      BY <2>2, <3>1, <3>2, <3>3 DEF PictureStep, Marked, ReleaseLease
  <2> QED
    BY <2>4, AcquireKept DEF IInv
<1> QED
  BY <1>1, Invariance, PTL DEF Spec, InOrder

(* A submitted picture goes to a frame nobody leases, and a new stream begins
   with no lease: the picture under a lease changes only when its owner gives it
   back or the stream ends. *)
THEOREM LeasesAreStable == Spec => LeasedIsStable
<1>1. ASSUME IInv, [Next]_vars, NEW f \in Frame, frames[f].leased, frames'[f] # frames[f]
      PROVE  frames'[f] = [frames[f] EXCEPT !.leased = FALSE] \/ ~stream'.open
  <2>1. PictureStep /\ Pictures
    BY <1>1, StepIsPictureStep DEF IInv
  <2>2. frames' # frames
    BY <1>1
  <2>3. CASE free_stream
    BY <2>3 DEF free_stream, ClosedStream
  <2>4. ASSUME NEW format \in Formats, Open(format) PROVE FALSE
    BY <1>1, <2>1, <2>4 DEF Open, Pictures, ClosedIsEmpty, EmptyPool, EmptyFrame
  <2>5. CASE Acquire
    <3>1. NextReady \in Ready
      BY <2>1, <2>5, OldestOf, ReadyFacts DEF Acquire, NextReady, Pictures
    <3>2. NextReady # f
      BY <1>1, <2>1, <3>1, ReadyFacts DEF Pictures, Apart, Ready
    <3> QED
      BY <1>1, <2>1, <2>5, <3>2 DEF Acquire, Pictures, PoolTypes
  <2>6. ASSUME NEW g \in Frame, ReleaseLease(g)
        PROVE  frames'[f] = [frames[f] EXCEPT !.leased = FALSE]
    BY <1>1, <2>1, <2>6 DEF ReleaseLease, Pictures, PoolTypes
  <2>7. CASE Submit
    <3>1. PICK g : ~frames[g].leased /\ StoredIn(g)
      <4>1. CASE Empty # {}
        <5>1. Min(Empty) \in Empty
          BY <4>1, MinOf, FrameFacts, ReadyFacts
        <5>2. ~frames[Min(Empty)].leased
          BY <5>1 DEF Empty, Unleased
        <5> QED
          BY <2>2, <2>7, <4>1, <5>2
             DEF Submit, camera_service_submit, Stored, Filled, StoredIn
      <4>2. CASE Empty = {}
        <5>1. Replaceable # {} /\ Filled(Oldest(Replaceable), Dropped)
          BY <2>2, <2>7, <4>2 DEF Submit, camera_service_submit, Stored
        <5>2. Oldest(Replaceable) \in Unleased
          BY <2>1, <5>1, OldestOf, ReadyFacts DEF Replaceable, Pictures
        <5> QED
          BY <5>1, <5>2 DEF Unleased, Filled, StoredIn
      <4> QED
        BY <4>1, <4>2
    <3>2. g # f
      BY <1>1, <3>1
    <3> QED
      BY <1>1, <2>1, <3>1, <3>2 DEF StoredIn, Pictures, PoolTypes
  <2> QED
    BY <2>1, <2>2, <2>3, <2>4, <2>5, <2>6, <2>7 DEF PictureStep, Marked
<1>2. IInv /\ [Next]_vars =>
        \A f \in Frame :
          frames[f].leased /\ frames'[f] # frames[f] =>
            frames'[f] = [frames[f] EXCEPT !.leased = FALSE] \/ ~stream'.open
  BY <1>1
<1> QED
  BY <1>2, Invariance, PTL DEF Spec, LeasedIsStable
=============================================================================
