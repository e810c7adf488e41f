--------------------------- MODULE SubscriberQueue ---------------------------
(***************************************************************************)
(* The channel of one consumerSubscription (internal/app/server/media_hub.go): *)
(* the hub's runner calls Enqueue for every frame it reads, which never     *)
(* blocks, while the subscription's writer takes frames out and writes them *)
(* to the consumer.  Enqueue is three selects, and the writer may run       *)
(* between any two of them.  Frames are numbered in the order the runner    *)
(* reads them; MaxFrames bounds how many it reads.                         *)
(***************************************************************************)
EXTENDS Naturals, Sequences

CONSTANTS Capacity, MaxFrames

ASSUME QueueAssumption == Capacity \in Nat \ {0} /\ MaxFrames \in Nat

VARIABLES
    frames,     \* subscription.frames
    newest,     \* the last frame broadcast
    bpc,        \* where Enqueue is: "idle", "evict" or "retry"
    writing,    \* the frame the writer took last, 0 before the first
    wpc,        \* the writer: "select", "write" or "done"
    done        \* subscription.done is closed

vars == <<frames, newest, bpc, writing, wpc, done>>

TypeOK ==
    /\ frames \in Seq(1..MaxFrames) /\ Len(frames) <= Capacity
    /\ newest \in 0..MaxFrames
    /\ bpc \in {"idle", "evict", "retry"}
    /\ writing \in 0..MaxFrames
    /\ wpc \in {"select", "write", "done"}
    /\ done \in BOOLEAN

Init ==
    /\ frames = <<>> /\ newest = 0 /\ bpc = "idle"
    /\ writing = 0 /\ wpc = "select" /\ done = FALSE
-----------------------------------------------------------------------------
\* Off by one: breaks TypeOK.
RoomForOneMore == Len(frames) <= Capacity
HasRoom == Len(frames) < Capacity

(* The first select of Enqueue: put the frame in if there is room.          *)
Enqueue ==
    /\ bpc = "idle" /\ newest < MaxFrames
    /\ newest' = newest + 1
    /\ IF HasRoom
          THEN frames' = Append(frames, newest') /\ UNCHANGED bpc
          ELSE bpc' = "evict" /\ UNCHANGED frames
    /\ UNCHANGED <<writing, wpc, done>>

(* The second: drop the oldest frame, if the writer has left one.           *)
\* No second select: breaks HoldsLatest and LastFrameWritten.
NothingEvicted == frames
WithoutOldest == IF frames = <<>> THEN frames ELSE Tail(frames)

Evict ==
    /\ bpc = "evict"
    /\ frames' = WithoutOldest
    /\ bpc' = "retry"
    /\ UNCHANGED <<newest, writing, wpc, done>>

(* The third: try again, and let the frame go if there is no room now.      *)
Retry ==
    /\ bpc = "retry"
    /\ frames' = IF HasRoom THEN Append(frames, newest) ELSE frames
    /\ bpc' = "idle"
    /\ UNCHANGED <<newest, writing, wpc, done>>

(* writeConsumerFrames: the select picks any case that is ready.            *)
\* The channel read from the wrong end: breaks LatestSpec.
LastFrame == frames[Len(frames)]
NextFrame == Head(frames)

TakeFrame ==
    /\ wpc = "select" /\ frames # <<>>
    /\ writing' = NextFrame
    /\ frames' = Tail(frames)
    /\ wpc' = "write"
    /\ UNCHANGED <<newest, bpc, done>>

WriteFrame ==
    /\ wpc = "write"
    /\ wpc' = "select"
    /\ UNCHANGED <<frames, newest, bpc, writing, done>>

(* The consumer is gone: the writer calls RemoveConsumer, which closes done. *)
WriteFrameFails ==
    /\ wpc = "write"
    /\ wpc' = "done"
    /\ done' = TRUE
    /\ UNCHANGED <<frames, newest, bpc, writing>>

WriterReleased ==
    /\ wpc = "select" /\ done
    /\ wpc' = "done"
    /\ UNCHANGED <<frames, newest, bpc, writing, done>>

(* The handler or the hub's Stop closes the subscription; a broadcast that  *)
(* copied the subscriber list before still calls Enqueue.                  *)
Close ==
    /\ ~done
    /\ done' = TRUE
    /\ UNCHANGED <<frames, newest, bpc, writing, wpc>>

Broadcaster == Evict \/ Retry
Writer == TakeFrame \/ WriteFrame \/ WriterReleased

Next == Enqueue \/ Broadcaster \/ Writer \/ WriteFrameFails \/ Close

Spec == Init /\ [][Next]_vars /\ WF_vars(Broadcaster) /\ WF_vars(Writer)
-----------------------------------------------------------------------------
(* The channel holds the latest frames without a gap, up to the one that is *)
(* being put in: a slow consumer loses old frames, never the newest one,    *)
(* although the third select may give up.                                  *)
HoldsLatest ==
    LET last == IF bpc = "idle" THEN newest ELSE newest - 1
    IN  \A i \in 1..Len(frames) : frames[i] = last - Len(frames) + i

(* If the camera pauses, its last frame still reaches a consumer that stays. *)
LastFrameWritten ==
    (newest = MaxFrames) ~> (done \/ wpc = "done" \/ writing = MaxFrames)

(* The three selects and the writer, interleaved, implement the abstract    *)
(* queue: the frame counts as queued once the oldest has made way for it.   *)
Latest == INSTANCE LatestFrames WITH
    queue <- IF bpc = "retry" THEN Append(frames, newest) ELSE frames,
    newest <- IF bpc = "evict" THEN newest - 1 ELSE newest,
    taken <- writing

LatestSpec == Latest!QueueSpec
=============================================================================
