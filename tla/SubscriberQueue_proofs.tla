----------------------- MODULE SubscriberQueue_proofs -----------------------
(***************************************************************************)
(* Proofs about SubscriberQueue, for every capacity of the channel and any   *)
(* number of frames.                                                       *)
(*                                                                         *)
(* HoldsLatest alone is not inductive: the third select must find room, or   *)
(* the newest frame would be missing.  It does, as only the runner puts      *)
(* frames in (RoomMade).                                                   *)
(***************************************************************************)
EXTENDS SubscriberQueue, TLAPS

(* Once the second select has run, the third finds room, whatever the writer *)
(* does meanwhile; and a frame is being put in before any of its selects.    *)
RoomMade ==
    /\ bpc = "retry" => Len(frames) < Capacity
    /\ bpc # "idle" => newest > 0

Inv == TypeOK /\ HoldsLatest /\ RoomMade
-----------------------------------------------------------------------------
(* What a sequence that is not empty is without its first element.          *)
LEMMA TailFacts ==
    ASSUME NEW S, NEW s \in Seq(S), s # <<>>
    PROVE  /\ Tail(s) \in Seq(S) /\ Head(s) \in S /\ Head(s) = s[1]
           /\ Len(Tail(s)) = Len(s) - 1 /\ Len(s) \in Nat \ {0}
           /\ \A i \in 1..Len(Tail(s)) : Tail(s)[i] = s[i + 1]
OBVIOUS

LEMMA AppendFacts ==
    ASSUME NEW S, NEW s \in Seq(S), NEW x \in S
    PROVE  /\ Append(s, x) \in Seq(S) /\ Append(s, x) # <<>>
           /\ Len(Append(s, x)) = Len(s) + 1
           /\ Append(s, x)[Len(s) + 1] = x
           /\ \A i \in 1..Len(s) : Append(s, x)[i] = s[i]
OBVIOUS

LEMMA InitInv == Init => Inv
<1> SUFFICES ASSUME Init PROVE Inv
  OBVIOUS
<1>1. frames = <<>> /\ <<>> \in Seq(1..MaxFrames) /\ Len(<<>>) = 0
  BY DEF Init
<1>2. frames \in Seq(1..MaxFrames) /\ Len(frames) <= Capacity
  BY <1>1, QueueAssumption
<1>3. 0 \in 0..MaxFrames
  BY QueueAssumption
<1>4. TypeOK
  BY <1>2, <1>3 DEF Init, TypeOK
<1> QED
  BY <1>1, <1>4 DEF Init, Inv, HoldsLatest, RoomMade

LEMMA NextInv == Inv /\ [Next]_vars => Inv'
<1> SUFFICES ASSUME Inv, [Next]_vars PROVE Inv'
  OBVIOUS
<1> USE QueueAssumption DEF Inv, TypeOK, HoldsLatest, RoomMade
<1>1. CASE Enqueue
  <2>1. newest + 1 \in 1..MaxFrames /\ newest' = newest + 1
    BY <1>1 DEF Enqueue
  <2>2. CASE HasRoom
    <3>1. frames' = Append(frames, newest + 1) /\ bpc' = "idle" /\ bpc = "idle"
      BY <1>1, <2>1, <2>2 DEF Enqueue
    <3> QED
      BY <1>1, <2>1, <2>2, <3>1, AppendFacts DEF Enqueue, HasRoom
  <2>3. CASE ~HasRoom
    BY <1>1, <2>1, <2>3 DEF Enqueue
  <2> QED
    BY <2>2, <2>3
<1>2. CASE Evict
  <2>1. CASE frames = <<>>
    BY <1>2, <2>1 DEF Evict, WithoutOldest
  <2>2. CASE frames # <<>>
    <3>1. frames' = Tail(frames)
      BY <1>2, <2>2 DEF Evict, WithoutOldest
    <3> QED
      BY <1>2, <2>2, <3>1, TailFacts DEF Evict
  <2> QED
    BY <2>1, <2>2
<1>3. CASE Retry
  <2>1. newest \in 1..MaxFrames /\ frames' = Append(frames, newest)
    BY <1>3 DEF Retry, HasRoom
  <2>2. /\ frames' \in Seq(1..MaxFrames) /\ Len(frames') = Len(frames) + 1
        /\ frames'[Len(frames) + 1] = newest
        /\ \A i \in 1..Len(frames) : frames'[i] = frames[i]
    BY <2>1, AppendFacts
  <2>3. Len(frames) < Capacity /\ Len(frames) \in Nat
    BY <1>3 DEF Retry
  <2>4. \A i \in 1..Len(frames) : frames[i] = (newest - 1) - Len(frames) + i
    BY <1>3 DEF Retry
  <2>5. newest' = newest /\ bpc' = "idle"
    BY <1>3 DEF Retry
  <2>6. \A i \in 1..Len(frames') : frames'[i] = newest - Len(frames') + i
    BY <2>1, <2>2, <2>3, <2>4
  <2>7. HoldsLatest'
    BY <2>5, <2>6
  <2>8. TypeOK'
    BY <1>3, <2>2, <2>3 DEF Retry
  <2> QED
    BY <1>3, <2>7, <2>8 DEF Retry
<1>4. CASE TakeFrame
  <2>1. frames # <<>> /\ frames' = Tail(frames) /\ writing' = Head(frames)
    BY <1>4 DEF TakeFrame, NextFrame
  <2> QED
    BY <1>4, <2>1, TailFacts DEF TakeFrame
<1>5. CASE WriteFrame
  BY <1>5 DEF WriteFrame
<1>6. CASE WriteFrameFails
  BY <1>6 DEF WriteFrameFails
<1>7. CASE WriterReleased
  BY <1>7 DEF WriterReleased
<1>8. CASE Close
  BY <1>8 DEF Close
<1>9. CASE UNCHANGED vars
  BY <1>9 DEF vars
<1> QED
  BY <1>1, <1>2, <1>3, <1>4, <1>5, <1>6, <1>7, <1>8, <1>9
     DEF Next, Broadcaster, Writer

LEMMA Invariance == Spec => []Inv
BY InitInv, NextInv, PTL DEF Spec

(* The channel never holds more frames than it has places for.              *)
THEOREM WellTyped == Spec => []TypeOK
BY Invariance, PTL DEF Inv

(* Whatever the interleaving of the three selects with the writer, the        *)
(* channel holds the latest frames without a gap (media_hub.go:288-309).     *)
THEOREM LatestAreHeld == Spec => []HoldsLatest
BY Invariance, PTL DEF Inv

(* Every step of the three selects and the writer is a step of the abstract  *)
(* queue or leaves it as it is.                                             *)
LEMMA StepSimulates ==
    ASSUME Inv, [Next]_vars
    PROVE  [Latest!QueueNext]_(Latest!queueVars)
<1> DEFINE q == IF bpc = "retry" THEN Append(frames, newest) ELSE frames
           n == IF bpc = "evict" THEN newest - 1 ELSE newest
<1> USE QueueAssumption DEF Inv, TypeOK, HoldsLatest, RoomMade,
        Latest!QueueNext, Latest!queueVars, Latest!Offer, Latest!Take
<1>1. CASE Enqueue
  BY <1>1 DEF Enqueue, HasRoom
<1>2. CASE Evict
  <2>1. newest \in Nat \ {0} /\ (newest - 1) + 1 = newest
    BY <1>2 DEF Evict
  <2>2. CASE frames = <<>>
    BY <1>2, <2>1, <2>2 DEF Evict, WithoutOldest
  <2>3. CASE frames # <<>>
    BY <1>2, <2>1, <2>3 DEF Evict, WithoutOldest
  <2> QED
    BY <2>2, <2>3
<1>3. CASE Retry
  BY <1>3 DEF Retry, HasRoom
<1>4. CASE TakeFrame
  <2>1. /\ frames # <<>> /\ frames' = Tail(frames) /\ writing' = Head(frames)
        /\ bpc' = bpc /\ newest' = newest
    BY <1>4 DEF TakeFrame, NextFrame
  <2>2. CASE bpc # "retry"
    BY <2>1, <2>2
  <2>3. CASE bpc = "retry"
    <3>1. newest \in 1..MaxFrames
      BY <2>3
    <3>2. Head(Append(frames, newest)) = Head(frames)
      BY <2>1, <3>1, AppendFacts, TailFacts
    <3>3. Tail(Append(frames, newest)) = Append(Tail(frames), newest)
      BY <2>1, <3>1
    <3>4. q = Append(frames, newest) /\ q' = Append(frames', newest')
      BY <2>1, <2>3
    <3>5. q # <<>>
      BY <3>1, <3>4, AppendFacts
    <3>6. q' = Tail(q) /\ writing' = Head(q)
      BY <2>1, <3>2, <3>3, <3>4
    <3>7. n' = n
      BY <2>1
    <3> QED
      BY <3>5, <3>6, <3>7
  <2> QED
    BY <2>2, <2>3
<1>5. CASE WriteFrame
  BY <1>5 DEF WriteFrame
<1>6. CASE WriteFrameFails
  BY <1>6 DEF WriteFrameFails
<1>7. CASE WriterReleased
  BY <1>7 DEF WriterReleased
<1>8. CASE Close
  BY <1>8 DEF Close
<1>9. CASE UNCHANGED vars
  BY <1>9 DEF vars
<1> QED
  BY <1>1, <1>2, <1>3, <1>4, <1>5, <1>6, <1>7, <1>8, <1>9
     DEF Next, Broadcaster, Writer

(* A subscription implements the abstract lossy queue.                      *)
THEOREM ImplementsLatestFrames == Spec => LatestSpec
<1>1. Init => Latest!QueueInit
  BY DEF Init, Latest!QueueInit
<1>2. Inv /\ [Next]_vars => [Latest!QueueNext]_(Latest!queueVars)
  BY StepSimulates
<1> QED
  BY <1>1, <1>2, Invariance, PTL DEF Spec, LatestSpec, Latest!QueueSpec
-----------------------------------------------------------------------------
(* What the consumer sees of it.  The writer's last frame is older than      *)
(* everything in the channel, and than the frame still being put in.         *)
LastPut == IF bpc = "idle" THEN newest ELSE newest - 1
Behind == writing + Len(frames) <= LastPut

LEMMA BehindStep == Inv /\ Behind /\ [Next]_vars => Behind'
<1> SUFFICES ASSUME Inv, Behind, [Next]_vars PROVE Behind'
  OBVIOUS
<1> USE QueueAssumption DEF Behind, LastPut
<1>1. /\ frames \in Seq(1..MaxFrames) /\ newest \in Nat /\ writing \in Nat
      /\ Len(frames) \in Nat /\ bpc \in {"idle", "evict", "retry"}
  BY DEF Inv, TypeOK
<1>2. CASE Enqueue
  <2>1. CASE HasRoom
    BY <1>1, <1>2, <2>1 DEF Enqueue
  <2>2. CASE ~HasRoom
    BY <1>1, <1>2, <2>2 DEF Enqueue
  <2> QED
    BY <2>1, <2>2
<1>3. CASE Evict
  <2>1. CASE frames = <<>>
    BY <1>1, <1>3, <2>1 DEF Evict, WithoutOldest
  <2>2. CASE frames # <<>>
    <3>1. frames' = Tail(frames)
      BY <1>3, <2>2 DEF Evict, WithoutOldest
    <3> QED
      BY <1>1, <1>3, <2>2, <3>1, TailFacts DEF Evict
  <2> QED
    BY <2>1, <2>2
<1>4. CASE Retry
  <2>1. frames' = Append(frames, newest) /\ newest \in 1..MaxFrames
    BY <1>4 DEF Retry, HasRoom, Inv, TypeOK, RoomMade
  <2>2. Len(frames') = Len(frames) + 1
    BY <1>1, <2>1, AppendFacts
  <2> QED
    BY <1>1, <1>4, <2>2 DEF Retry
<1>5. CASE TakeFrame
  <2>1. /\ frames # <<>> /\ frames' = Tail(frames) /\ writing' = Head(frames)
        /\ UNCHANGED <<newest, bpc>>
    BY <1>5 DEF TakeFrame, NextFrame
  <2>2. Head(frames) = LastPut - Len(frames) + 1
    BY <1>1, <2>1, TailFacts DEF Inv, HoldsLatest
  <2>3. Len(frames') = Len(frames) - 1
    BY <1>1, <2>1, TailFacts
  <2> QED
    BY <1>1, <2>1, <2>2, <2>3
<1>6. CASE WriteFrame \/ WriteFrameFails \/ WriterReleased \/ Close
  BY <1>6 DEF WriteFrame, WriteFrameFails, WriterReleased, Close
<1>7. CASE UNCHANGED vars
  BY <1>7 DEF vars
<1> QED
  BY <1>2, <1>3, <1>4, <1>5, <1>6, <1>7 DEF Next, Broadcaster, Writer

LEMMA AlwaysBehind == Spec => []Behind
<1>1. Init => Behind
  BY DEF Init, Behind, LastPut
<1> QED
  BY <1>1, BehindStep, Invariance, PTL DEF Spec

(* A consumer gets each frame at most once and in the order the camera sent   *)
(* them, and what it is given is never more than Capacity frames older than   *)
(* the newest one: however slow it is, it lags by the channel and no more     *)
(* (media_hub.go:288-309, writeConsumerFrames).                              *)
TakenInOrder ==
    [][TakeFrame => /\ writing < writing' /\ writing' <= newest
                    /\ newest - writing' <= Capacity]_vars

THEOREM TakesInOrder == Spec => TakenInOrder
<1> DEFINE A == TakeFrame => /\ writing < writing' /\ writing' <= newest
                             /\ newest - writing' <= Capacity
<1>1. Inv /\ Behind => A
  <2> SUFFICES ASSUME Inv, Behind, TakeFrame
               PROVE  /\ writing < writing' /\ writing' <= newest
                      /\ newest - writing' <= Capacity
    OBVIOUS
  <2>1. /\ frames \in Seq(1..MaxFrames) /\ frames # <<>> /\ writing' = Head(frames)
        /\ newest \in Nat /\ writing \in Nat /\ Capacity \in Nat
        /\ Len(frames) <= Capacity /\ bpc \in {"idle", "evict", "retry"}
    BY QueueAssumption DEF Inv, TypeOK, TakeFrame, NextFrame
  <2>2. Len(frames) \in Nat \ {0} /\ Head(frames) = frames[1]
    BY <2>1, TailFacts
  <2>3. writing' = LastPut - Len(frames) + 1
    BY <2>1, <2>2 DEF Inv, HoldsLatest, LastPut
  <2>4. LastPut \in {newest, newest - 1} /\ writing + Len(frames) <= LastPut
    BY DEF LastPut, Behind
  <2> QED
    BY <2>1, <2>2, <2>3, <2>4
<1> QED
  BY <1>1, Invariance, AlwaysBehind, PTL DEF TakenInOrder
=============================================================================
