------------------------ MODULE ServerSession_proofs ------------------------
(***************************************************************************)
(* Proofs about ServerSession, for any number of consumers and a producer    *)
(* that answers and breaks off as it likes.                                *)
(*                                                                         *)
(* The properties are not inductive.  A hub is only cleared after its Stop,  *)
(* so that no live hub is lost from Server.hub (StoppedBeforeCleared); that   *)
(* it is not cleared before it is born needs that nobody joins a hub, or      *)
(* runs it, before the handler that makes it has its response (Unborn); and   *)
(* a connection is only handed from the handshake to the hub by the holder   *)
(* of hubMu (LockHolder).                                                  *)
(***************************************************************************)
EXTENDS ServerSession, TLAPS

(* Before its handler has made it, a hub has no runner and no members.       *)
Unborn ==
    \A h \in Conns : spc[h] \in {"idle", "lock", "reply"} =>
        /\ hub # h /\ stop[h] = "unborn" /\ rpc[h] = "off"
        /\ \A c \in Conns : joined[c] # h

(* hubMu is held exactly by the handler that talks to the producer.          *)
LockHolder == \A c \in Conns : spc[c] = "reply" <=> hubMu = c

JoinedHub ==
    \A c \in Conns :
        spc[c] \in {"add", "write", "wait", "remove", "stop"} => joined[c] \in Conns

StoppedBeforeCleared ==
    \A h \in Conns : rpc[h] \in {"clear", "done"} => stop[h] = "drained"

(* What has members, a runner or a place in Server.hub has been made; and    *)
(* the runner's last act was to leave Server.hub.                           *)
Born ==
    /\ hub # None => stop[hub] # "unborn"
    /\ \A c \in Conns : joined[c] # None => stop[joined[c]] # "unborn"
    /\ \A c \in Conns : wpc[c] # "off" => joined[c] # None
    /\ \A h \in Conns : rpc[h] # "off" => stop[h] # "unborn"
    /\ \A h \in Conns : rpc[h] = "done" => hub # h

(* A connection is dialled under hubMu, before its hub is made.              *)
Dialled ==
    \A c \in Conns :
        /\ spc[c] \in {"idle", "lock"} => link[c] = "idle"
        /\ spc[c] = "reply" \/ stop[c] # "unborn" => link[c] # "idle"

(* STypeOK without the consequence of NoGhostSubscriber and JoinedHub.       *)
Typed ==
    /\ link \in [Conns -> {"idle", "open", "closed"}]
    /\ resp \in [Conns -> Conns \cup {None}]
    /\ media \in [Conns -> {"none", "open", "fin"}]
    /\ client \in [Conns -> {"idle", "open", "gone"}]
    /\ spc \in [Conns -> HandlerPhases]
    /\ joined \in [Conns -> Conns \cup {None}]
    /\ hubMu \in Conns \cup {None} /\ hub \in Conns \cup {None}
    /\ stop \in [Conns -> {"unborn", "live", "cancelled", "drained"}]
    /\ rpc \in [Conns -> {"off", "accept", "relay", "stop", "clear", "done"}]
    /\ wpc \in [Conns -> {"off", "run", "remove", "stop", "done"}]
    /\ subscribed \subseteq Conns /\ closed \subseteq Conns /\ queued \subseteq Conns

Support ==
    /\ Typed /\ Unborn /\ LockHolder /\ JoinedHub /\ StoppedBeforeCleared
    /\ Born /\ Dialled
Inv == Support /\ OneLiveHub /\ UpstreamAccounted /\ NoGhostSubscriber
-----------------------------------------------------------------------------
LEMMA InitInv == SInit => Inv
BY NoneAssumption
   DEF SInit, Inv, Support, Typed, Unborn, LockHolder, JoinedHub, StoppedBeforeCleared,
       Born, Dialled,
       OneLiveHub, UpstreamAccounted, NoGhostSubscriber, HandlerPhases

(* handleConsumerConnection, one step of it.                                  *)
LEMMA HandlerKeeps ==
    ASSUME Inv, NEW c \in Conns, Handler(c)
    PROVE  Inv'
<1> USE NoneAssumption
    DEF Inv, Support, Typed, Unborn, LockHolder, JoinedHub, StoppedBeforeCleared,
        Born, Dialled, OneLiveHub, UpstreamAccounted, NoGhostSubscriber, HandlerPhases, Goto,
        upstream, server, subs
<1>1. CASE ReadRequest(c)
  BY <1>1 DEF ReadRequest
<1>2. CASE ReadRequestFails(c)
  BY <1>2 DEF ReadRequestFails
<1>3. CASE DialProducer(c)
  BY <1>3 DEF DialProducer, MayLock
<1>4. CASE DialProducerFails(c)
  BY <1>4 DEF DialProducerFails, MayLock
<1>5. CASE RequestFails(c)
  BY <1>5 DEF RequestFails, AfterFailedRequest, HangUp, Return
<1>6. CASE JoinHub(c)
  BY <1>6 DEF JoinHub, HangUp, Return
<1>7. CASE OtherSession(c)
  BY <1>7 DEF OtherSession, HangUp, Return, AfterMismatch
<1>8. CASE CreateHub(c)
  BY <1>8 DEF CreateHub, Return
<1>9. CASE AddConsumer(c)
  BY <1>9 DEF AddConsumer
<1>10. CASE AddConsumerFails(c)
  BY <1>10 DEF AddConsumerFails
<1>11. CASE WriteResponse(c)
  BY <1>11 DEF WriteResponse
<1>12. CASE WriteResponseFails(c)
  BY <1>12 DEF WriteResponseFails, AfterFailedWrite
<1>13. CASE WaitReturns(c)
  BY <1>13 DEF WaitReturns
<1>14. CASE RemoveConsumer(c)
  BY <1>14 DEF RemoveConsumer, Unsubscribe
<1>15. CASE StopReturns(c)
  BY <1>15 DEF StopReturns
<1>16. CASE CloseConsumer(c)
  BY <1>16 DEF CloseConsumer
<1> QED
  BY <1>1, <1>2, <1>3, <1>4, <1>5, <1>6, <1>7, <1>8, <1>9, <1>10, <1>11, <1>12, <1>13, <1>14, <1>15, <1>16 DEF Handler

(* writeConsumerFrames.                                                       *)
LEMMA WriterKeeps ==
    ASSUME Inv, NEW c \in Conns, Writer(c)
    PROVE  Inv'
<1> USE NoneAssumption
    DEF Inv, Support, Typed, Unborn, LockHolder, JoinedHub, StoppedBeforeCleared,
        Born, Dialled, OneLiveHub, UpstreamAccounted, NoGhostSubscriber, HandlerPhases, Goto,
        upstream, server, subs
<1>1. CASE WriteFrame(c)
  BY <1>1 DEF WriteFrame
<1>2. CASE WriteFrameFails(c)
  BY <1>2 DEF WriteFrameFails, WriterGoto, AfterLostFrame
<1>3. CASE WriterReleased(c)
  BY <1>3 DEF WriterReleased, WriterGoto
<1>4. CASE WriterRemoves(c)
  BY <1>4 DEF WriterRemoves, WriterGoto, Unsubscribe
<1>5. CASE WriterStopReturns(c)
  BY <1>5 DEF WriterStopReturns, WriterGoto
<1> QED
  BY <1>1, <1>2, <1>3, <1>4, <1>5 DEF Writer, WriterLeaves

(* The runner and Stop.                                                       *)
LEMMA HubKeeps ==
    ASSUME Inv, NEW c \in Conns, Hub(c) \/ Broadcast(c)
    PROVE  Inv'
<1> USE NoneAssumption
    DEF Inv, Support, Typed, Unborn, LockHolder, JoinedHub, StoppedBeforeCleared,
        Born, Dialled, OneLiveHub, UpstreamAccounted, NoGhostSubscriber, HandlerPhases, Goto,
        upstream, server, subs
<1>1. CASE AcceptMedia(c)
  BY <1>1 DEF AcceptMedia, RunnerGoto
<1>2. CASE RunEnds(c)
  BY <1>2 DEF RunEnds, RunnerGoto, AfterRun
<1>3. CASE RunnerStopReturns(c)
  BY <1>3 DEF RunnerStopReturns, RunnerGoto
<1>4. CASE ClearMediaHub(c)
  BY <1>4 DEF ClearMediaHub, RunnerGoto, HubAfter
<1>5. CASE StopCancels(c)
  BY <1>5 DEF StopCancels, HangUp
<1>6. CASE StopDrains(c)
  BY <1>6 DEF StopDrains, Drained, Members
<1>7. CASE Broadcast(c)
  BY <1>7 DEF Broadcast, Members
<1> QED
  BY <1>1, <1>2, <1>3, <1>4, <1>5, <1>6, <1>7 DEF Hub

(* Consumers and the producer.                                                *)
LEMMA WorldKeeps ==
    ASSUME Inv, NEW c \in Conns, \/ ClientDials(c) \/ ClientLeaves(c)
           \/ EnvReplies(c) \/ EnvStreams(c) \/ EnvEndsStream(c)
    PROVE  Inv'
<1> USE NoneAssumption
    DEF Inv, Support, Typed, Unborn, LockHolder, JoinedHub, StoppedBeforeCleared,
        Born, Dialled, OneLiveHub, UpstreamAccounted, NoGhostSubscriber, HandlerPhases, Goto,
        upstream, server, subs
<1>1. CASE ClientDials(c)
  BY <1>1 DEF ClientDials
<1>2. CASE ClientLeaves(c)
  BY <1>2 DEF ClientLeaves
<1>3. CASE EnvReplies(c)
  BY <1>3 DEF EnvReplies
<1>4. CASE EnvStreams(c)
  BY <1>4 DEF EnvStreams
<1>5. CASE EnvEndsStream(c)
  BY <1>5 DEF EnvEndsStream
<1> QED
  BY <1>1, <1>2, <1>3, <1>4, <1>5

LEMMA ClosingKeeps ==
    ASSUME Inv, NEW C \in SUBSET Conns, EnvCloses(C)
    PROVE  Inv'
BY DEF EnvCloses, Inv, Support, Typed, Unborn, LockHolder, JoinedHub,
       StoppedBeforeCleared, Born, Dialled, OneLiveHub, UpstreamAccounted, NoGhostSubscriber,
       server, subs

LEMMA NextInv == Inv /\ [Next]_svars => Inv'
<1> SUFFICES ASSUME Inv, [Next]_svars PROVE Inv'
  OBVIOUS
<1>1. CASE UNCHANGED svars
  BY <1>1 DEF svars, Inv, Support, Typed, Unborn, LockHolder, JoinedHub,
     StoppedBeforeCleared, Born, Dialled, OneLiveHub, UpstreamAccounted, NoGhostSubscriber,
     upstream, server, subs
<1> QED
  BY <1>1, HandlerKeeps, WriterKeeps, HubKeeps, WorldKeeps, ClosingKeeps
     DEF Next, SNext, EnvNext

LEMMA Invariance == Spec => []Inv
BY InitInv, NextInv, PTL DEF Spec

(* The server's state is well typed; in particular every subscription        *)
(* belongs to a hub.                                                       *)
THEOREM WellTyped == Spec => []STypeOK
<1>1. Inv => STypeOK
  BY DEF Inv, Support, Typed, JoinedHub, NoGhostSubscriber, STypeOK
<1> QED
  BY <1>1, Invariance, PTL

(* Hubs succeed one another: Server.hub changes only after Stop is over       *)
(* (media_hub.go:114-118, app.go:201-208).                                 *)
THEOREM HubsSucceedEachOther == Spec => []OneLiveHub
BY Invariance, PTL DEF Inv

(* No connection to the producer is left open on any path of a handshake or  *)
(* at the end of a hub (app.go:151-199).                                    *)
THEOREM UpstreamIsAccounted == Spec => []UpstreamAccounted
BY Invariance, PTL DEF Inv

(* No subscription outlives its handler (app.go:138-148).                    *)
THEOREM NoSubscriptionOutlives == Spec => []NoGhostSubscriber
BY Invariance, PTL DEF Inv
-----------------------------------------------------------------------------
(* Consumers that wait.  Whoever was answered is subscribed or has been       *)
(* closed, the runner of its hub was started, and its writer left only        *)
(* because it was closed or its hub stopped.  Whoever made a hub joined it.   *)
Accounted ==
    \A c \in Conns : spc[c] \in {"write", "wait"} =>
        c \in subscribed \cup closed /\ wpc[c] # "off"

Started == \A c \in Conns : spc[c] = "wait" => rpc[joined[c]] # "off"

WriterLeftForCause ==
    \A c \in Conns :
        /\ spc[c] \in {"idle", "lock", "reply", "add"} => wpc[c] = "off"
        /\ wpc[c] \in {"stop", "done"} => c \in closed \/ stop[joined[c]] # "live"

Founded == \A h \in Conns : stop[h] # "unborn" => joined[h] = h

GoodBye == \A c \in Conns : spc[c] = "done" => client[c] = "gone"

Waiters == Accounted /\ Started /\ WriterLeftForCause /\ Founded /\ GoodBye

LEMMA InitWaiters == SInit => Waiters
BY DEF SInit, Waiters, Accounted, Started, WriterLeftForCause, Founded, GoodBye

LEMMA HandlerKeepsWaiters ==
    ASSUME Inv, Waiters, NEW c \in Conns, Handler(c)
    PROVE  Waiters'
<1> USE NoneAssumption
    DEF Waiters, Accounted, Started, WriterLeftForCause, Founded, GoodBye, Inv, Support,
        Typed, JoinedHub, NoGhostSubscriber, HandlerPhases, Goto, upstream, server, subs
<1>1. CASE ReadRequest(c) \/ ReadRequestFails(c)
  BY <1>1 DEF ReadRequest, ReadRequestFails
<1>2. CASE DialProducer(c) \/ DialProducerFails(c)
  BY <1>2 DEF DialProducer, DialProducerFails
<1>3. CASE RequestFails(c) \/ OtherSession(c)
  BY <1>3 DEF RequestFails, OtherSession, Return, AfterMismatch
<1>4. CASE JoinHub(c)
  BY <1>4 DEF JoinHub, Return, Unborn
<1>5. CASE CreateHub(c)
  BY <1>5 DEF CreateHub, Return, Unborn
<1>6. CASE AddConsumer(c)
  BY <1>6 DEF AddConsumer
<1>7. CASE AddConsumerFails(c)
  BY <1>7 DEF AddConsumerFails
<1>8. CASE WriteResponse(c)
  BY <1>8 DEF WriteResponse
<1>9. CASE WriteResponseFails(c)
  BY <1>9 DEF WriteResponseFails, AfterFailedWrite
<1>10. CASE WaitReturns(c)
  BY <1>10 DEF WaitReturns
<1>11. CASE RemoveConsumer(c)
  BY <1>11 DEF RemoveConsumer, Unsubscribe
<1>12. CASE StopReturns(c) \/ CloseConsumer(c)
  BY <1>12 DEF StopReturns, CloseConsumer
<1> QED
  BY <1>1, <1>2, <1>3, <1>4, <1>5, <1>6, <1>7, <1>8, <1>9, <1>10, <1>11, <1>12
     DEF Handler

LEMMA RestKeepsWaiters ==
    ASSUME Inv, Waiters, NEW c \in Conns,
           \/ Writer(c) \/ Hub(c) \/ Broadcast(c) \/ ClientDials(c) \/ ClientLeaves(c)
    PROVE  Waiters'
<1> USE NoneAssumption
    DEF Waiters, Accounted, Started, WriterLeftForCause, Founded, GoodBye, Inv, Support,
        Typed, HandlerPhases, Born, upstream, server, subs
<1>1. CASE WriteFrame(c) \/ WriteFrameFails(c)
  BY <1>1 DEF WriteFrame, WriteFrameFails, WriterGoto, AfterLostFrame
<1>2. CASE WriterReleased(c)
  BY <1>2 DEF WriterReleased, WriterGoto, Released
<1>3. CASE WriterRemoves(c)
  BY <1>3 DEF WriterRemoves, WriterGoto, Unsubscribe
<1>4. CASE WriterStopReturns(c)
  BY <1>4 DEF WriterStopReturns, WriterGoto
<1>5. CASE AcceptMedia(c) \/ RunEnds(c) \/ RunnerStopReturns(c) \/ ClearMediaHub(c)
  BY <1>5 DEF AcceptMedia, RunEnds, RunnerStopReturns, ClearMediaHub, RunnerGoto, AfterRun
<1>6. CASE StopCancels(c)
  BY <1>6 DEF StopCancels
<1>7. CASE StopDrains(c)
  BY <1>7 DEF StopDrains, Drained
<1>8. CASE Broadcast(c) \/ ClientDials(c) \/ ClientLeaves(c)
  BY <1>8 DEF Broadcast, ClientDials, ClientLeaves
<1> QED
  BY <1>1, <1>2, <1>3, <1>4, <1>5, <1>6, <1>7, <1>8 DEF Writer, WriterLeaves, Hub

LEMMA NextWaiters == Inv /\ Waiters /\ [Next]_svars => Waiters'
<1> SUFFICES ASSUME Inv, Waiters, [Next]_svars PROVE Waiters'
  OBVIOUS
<1>1. CASE SNext
  BY <1>1, HandlerKeepsWaiters, RestKeepsWaiters DEF SNext
<1>2. CASE EnvNext \/ UNCHANGED svars
  <2>1. UNCHANGED <<client, spc, joined, stop, rpc, subs>>
    BY <1>2 DEF EnvNext, EnvReplies, EnvStreams, EnvEndsStream, EnvCloses, svars
  <2> QED
    BY <2>1 DEF Waiters, Accounted, Started, WriterLeftForCause, Founded, GoodBye, subs
<1> QED
  BY <1>1, <1>2 DEF Next

LEMMA WaitersInvariance == Spec => []Waiters
BY InitWaiters, NextWaiters, Invariance, PTL DEF Spec

(* A subscription of a hub whose Stop has drained the subscribers.           *)
Late(c) == c \in subscribed /\ stop[joined[c]] = "drained"

(* AnsweredIsServed fails (media_hub.go:147).  How that comes about: Stop     *)
(* leaves no subscription behind, and only AddConsumer, which does not look   *)
(* whether the hub was stopped, puts one into a hub that is drained.         *)
LateOnlyByAdding ==
    [][\A c \in Conns : ~Late(c) /\ Late(c)'
          => AddConsumer(c) /\ stop[joined[c]] = "drained"]_svars

(* What a step does to the things Late speaks of.                            *)
LEMMA SubscriptionStep ==
    ASSUME Inv, Next, NEW c \in Conns
    PROVE  /\ c \notin subscribed /\ c \in subscribed' => AddConsumer(c)
           /\ c \in subscribed => joined'[c] = joined[c]
           /\ c \in subscribed /\ stop[joined[c]] # "drained" /\ stop'[joined[c]] = "drained"
                => StopDrains(joined[c])
<1> USE NoneAssumption
    DEF Inv, Support, Typed, JoinedHub, NoGhostSubscriber, upstream, server, subs
<1>1. ASSUME NEW d \in Conns, Handler(d)
      PROVE  /\ c \notin subscribed /\ c \in subscribed' => AddConsumer(c)
             /\ c \in subscribed => joined'[c] = joined[c]
             /\ stop' # stop => CreateHub(d)
  BY <1>1 DEF Handler, ReadRequest, ReadRequestFails, DialProducer, DialProducerFails,
     RequestFails, JoinHub, OtherSession, CreateHub, AddConsumer, AddConsumerFails,
     WriteResponse, WriteResponseFails, WaitReturns, RemoveConsumer, Unsubscribe,
     StopReturns, CloseConsumer
<1>2. ASSUME NEW d \in Conns, Writer(d) \/ Broadcast(d) \/ ClientDials(d) \/ ClientLeaves(d)
      PROVE  subscribed' \subseteq subscribed /\ joined' = joined /\ stop' = stop
  BY <1>2 DEF Writer, WriterLeaves, WriteFrame, WriteFrameFails, WriterReleased,
     WriterRemoves, WriterStopReturns, WriterGoto, Unsubscribe, Broadcast, ClientDials,
     ClientLeaves
<1>3. ASSUME NEW d \in Conns, Hub(d)
      PROVE  /\ subscribed' \subseteq subscribed /\ joined' = joined
             /\ stop' # stop => StopCancels(d) \/ StopDrains(d)
  BY <1>3 DEF Hub, AcceptMedia, RunEnds, RunnerStopReturns, ClearMediaHub, StopCancels,
     StopDrains
<1>4. ASSUME EnvNext
      PROVE  subscribed' = subscribed /\ joined' = joined /\ stop' = stop
  BY <1>4 DEF EnvNext, EnvReplies, EnvStreams, EnvEndsStream, EnvCloses
<1>5. ASSUME NEW d \in Conns, CreateHub(d) \/ StopCancels(d)
      PROVE  \A h \in Conns : stop'[h] = "drained" => stop[h] = "drained"
  BY <1>5 DEF CreateHub, StopCancels
<1>6. ASSUME NEW d \in Conns, StopDrains(d)
      PROVE  \A h \in Conns \ {d} : stop'[h] = stop[h]
  BY <1>6 DEF StopDrains
<1> QED
  BY <1>1, <1>2, <1>3, <1>4, <1>5, <1>6 DEF Next, SNext

THEOREM OnlyAddingIsLate == Spec => LateOnlyByAdding
<1>1. Inv /\ [Next]_svars
        => [\A c \in Conns : ~Late(c) /\ Late(c)'
              => AddConsumer(c) /\ stop[joined[c]] = "drained"]_svars
  <2> SUFFICES ASSUME Inv, Next, NEW c \in Conns, ~Late(c), Late(c)'
               PROVE  AddConsumer(c) /\ stop[joined[c]] = "drained"
    OBVIOUS
  <2>1. CASE c \in subscribed
    <3>1. /\ joined'[c] = joined[c] /\ joined[c] \in Conns
          /\ stop[joined[c]] # "drained" /\ stop'[joined[c]] = "drained"
      BY <2>1, SubscriptionStep DEF Late, Inv, Support, JoinedHub, NoGhostSubscriber
    <3>2. StopDrains(joined[c])
      BY <2>1, <3>1, SubscriptionStep
    <3> QED
      BY <2>1, <3>1, <3>2 DEF StopDrains, Drained, Members, Late
  <2>2. CASE c \notin subscribed
    <3>1. AddConsumer(c)
      BY <2>2, SubscriptionStep DEF Late
    <3> QED
      BY <3>1 DEF AddConsumer, Late
  <2> QED
    BY <2>1, <2>2
<1> QED
  BY <1>1, Invariance, PTL DEF Spec, LateOnlyByAdding

(* And it is for good: whatever the consumer, the producer and the other      *)
(* goroutines do, the handler of a stranded consumer waits for ever, and its *)
(* connection stays open (consumerSubscription.Wait, media_hub.go:182).      *)
StrandedStays == [][\A c \in Conns : Stranded(c) => Stranded(c)']_svars

THEOREM StrandedForEver == Spec => StrandedStays
<1>1. Inv /\ [Next]_svars => [\A c \in Conns : Stranded(c) => Stranded(c)']_svars
  <2> SUFFICES ASSUME Inv, Next, NEW c \in Conns, Stranded(c)
               PROVE  Stranded(c)'
    OBVIOUS
  <2>0. /\ spc[c] = "wait" /\ c \in subscribed \ closed /\ wpc[c] = "done"
        /\ joined[c] \in Conns /\ stop[joined[c]] = "drained"
    BY DEF Stranded, Inv, Support, JoinedHub
  <2> USE NoneAssumption DEF Inv, Support, Typed, upstream, server, subs, Goto
  <2>1. ASSUME NEW d \in Conns, Handler(d) PROVE Stranded(c)'
    <3>1. CASE d = c
      BY <2>0, <2>1, <3>1 DEF Handler, ReadRequest, ReadRequestFails, DialProducer,
         DialProducerFails, RequestFails, JoinHub, OtherSession, CreateHub, AddConsumer,
         AddConsumerFails, WriteResponse, WriteResponseFails, WaitReturns,
         RemoveConsumer, StopReturns, CloseConsumer
    <3>2. CASE d # c
      <4>1. CASE CreateHub(d)
        BY <2>0, <3>2, <4>1 DEF CreateHub, Return, Stranded, Unborn
      <4>2. CASE ~CreateHub(d)
        BY <2>0, <2>1, <3>2, <4>2 DEF Handler, ReadRequest, ReadRequestFails,
           DialProducer, DialProducerFails, RequestFails, JoinHub, OtherSession,
           AddConsumer, AddConsumerFails, WriteResponse, WriteResponseFails,
           WaitReturns, RemoveConsumer, Unsubscribe, StopReturns, CloseConsumer, Return,
           AfterMismatch, AfterFailedWrite, Stranded
      <4> QED
        BY <4>1, <4>2
    <3> QED
      BY <3>1, <3>2
  <2>2. ASSUME NEW d \in Conns, Writer(d) PROVE Stranded(c)'
    BY <2>0, <2>2 DEF Writer, WriterLeaves, WriteFrame, WriteFrameFails, WriterReleased,
       WriterRemoves, WriterStopReturns, WriterGoto, Unsubscribe, AfterLostFrame, Stranded
  <2>3. ASSUME NEW d \in Conns, Hub(d) PROVE Stranded(c)'
    BY <2>0, <2>3 DEF Hub, AcceptMedia, RunEnds, RunnerStopReturns, ClearMediaHub,
       StopCancels, StopDrains, Drained, Members, Stranded
  <2>4. ASSUME NEW d \in Conns, Broadcast(d) \/ ClientDials(d) \/ ClientLeaves(d)
        PROVE  Stranded(c)'
    BY <2>0, <2>4 DEF Broadcast, ClientDials, ClientLeaves, Stranded
  <2>5. ASSUME EnvNext PROVE Stranded(c)'
    BY <2>0, <2>5 DEF EnvNext, EnvReplies, EnvStreams, EnvEndsStream, EnvCloses, Stranded
  <2> QED
    BY <2>1, <2>2, <2>3, <2>4, <2>5 DEF Next, SNext
<1> QED
  BY <1>1, Invariance, PTL DEF Spec, StrandedStays
=============================================================================
