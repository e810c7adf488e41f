---------------------------- MODULE LatestFrames ----------------------------
(***************************************************************************)
(* What a subscription promises its consumer, with no channel and no        *)
(* selects: a queue of at most Capacity frames that always takes the newest *)
(* frame, at the price of the oldest one if need be, and hands out frames   *)
(* in order.                                                               *)
(***************************************************************************)
EXTENDS Naturals, Sequences

CONSTANT Capacity   \* a positive number

VARIABLES queue, newest, taken

queueVars == <<queue, newest, taken>>

QueueInit == queue = <<>> /\ newest = 0 /\ taken = 0

(* The next frame is queued; the oldest one may have to go for it.          *)
Offer ==
    /\ newest' = newest + 1
    /\ \/ Len(queue) < Capacity /\ queue' = Append(queue, newest + 1)
       \/ queue # <<>> /\ queue' = Append(Tail(queue), newest + 1)
    /\ UNCHANGED taken

Take ==
    /\ queue # <<>>
    /\ taken' = Head(queue)
    /\ queue' = Tail(queue)
    /\ UNCHANGED newest

QueueNext == Offer \/ Take

QueueSpec == QueueInit /\ [][QueueNext]_queueVars
=============================================================================
