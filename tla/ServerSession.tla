---------------------------- MODULE ServerSession ----------------------------
(***************************************************************************)
(* The relay (internal/app/server): one handler goroutine per consumer      *)
(* connection, the media hub they share under hubMu, and for every hub the  *)
(* goroutines it starts: the runner that reads the producer's frames, and   *)
(* a writer per subscription.                                              *)
(*                                                                         *)
(* Handling consumer c dials the producer at most once, so one name serves  *)
(* for the consumer connection c, the upstream connection c dials, and the  *)
(* hub built on that upstream connection.  link, resp and media are the     *)
(* upstream connections as both ends see them; the producer is left to an   *)
(* environment that answers with any session and breaks off at will.       *)
(***************************************************************************)
CONSTANTS Conns, None

ASSUME NoneAssumption == None \notin Conns

VARIABLES
    link, resp, media,  \* upstream connections, see ProducerSession
    client,     \* consumer connection: "idle", "open", "gone"
    spc,        \* where handleConsumerConnection is
    joined,     \* the hub prepareMediaHub gave a handler
    hubMu, hub, \* Server.hubMu (its holder) and Server.hub
    stop,       \* FrameHub.stopOnce: "unborn", "live", "cancelled", "drained"
    rpc,        \* the runner goroutine of Start: "off" until startOnce
    subscribed, \* the subscriptions in their hub's subscribers map
    closed,     \* the subscriptions whose done channel is closed
    queued,     \* the subscriptions whose writer has a frame to write
    wpc         \* where writeConsumerFrames is

upstream == <<link, resp, media>>
server == <<hubMu, hub>>
subs == <<subscribed, closed, queued, wpc>>
svars == <<upstream, client, spc, joined, server, stop, rpc, subs>>

HandlerPhases == {"idle", "lock", "reply", "add", "write", "wait", "remove",
                  "stop", "close", "done"}

STypeOK ==
    /\ link \in [Conns -> {"idle", "open", "closed"}]
    /\ resp \in [Conns -> Conns \cup {None}]
    /\ media \in [Conns -> {"none", "open", "fin"}]
    /\ client \in [Conns -> {"idle", "open", "gone"}]
    /\ spc \in [Conns -> HandlerPhases]
    /\ joined \in [Conns -> Conns \cup {None}]
    /\ hubMu \in Conns \cup {None} /\ hub \in Conns \cup {None}
    /\ stop \in [Conns -> {"unborn", "live", "cancelled", "drained"}]
    /\ rpc \in [Conns -> {"off", "accept", "relay", "stop", "clear", "done"}]
    /\ wpc \in [Conns -> {"off", "run", "remove", "stop", "done"}]
    /\ subscribed \subseteq Conns /\ closed \subseteq Conns /\ queued \subseteq Conns
    /\ \A c \in subscribed : joined[c] \in Conns

SInit ==
    /\ link = [c \in Conns |-> "idle"]
    /\ resp = [c \in Conns |-> None]
    /\ media = [c \in Conns |-> "none"]
    /\ client = [c \in Conns |-> "idle"]
    /\ spc = [c \in Conns |-> "idle"]
    /\ joined = [c \in Conns |-> None]
    /\ hubMu = None /\ hub = None
    /\ stop = [c \in Conns |-> "unborn"]
    /\ rpc = [c \in Conns |-> "off"]
    /\ wpc = [c \in Conns |-> "off"]
    /\ subscribed = {} /\ closed = {} /\ queued = {}

Goto(c, phase) == spc' = [spc EXCEPT ![c] = phase]

Members(h) == {c \in subscribed : joined[c] = h}

HangUp(c) == link' = [link EXCEPT ![c] = "closed"]
-----------------------------------------------------------------------------
(* handleConsumerConnection.  A consumer that is gone is noticed at some    *)
(* later operation on its connection: until then the operations succeed.   *)

ReadRequest(c) ==
    /\ spc[c] = "idle" /\ client[c] = "open"
    /\ Goto(c, "lock")
    /\ UNCHANGED <<upstream, client, joined, server, stop, rpc, subs>>

ReadRequestFails(c) ==
    /\ spc[c] = "idle" /\ client[c] # "idle"
    /\ Goto(c, "close")
    /\ UNCHANGED <<upstream, client, joined, server, stop, rpc, subs>>

(* prepareMediaHub takes hubMu and holds it until it returns: over the dial  *)
(* and the whole handshake with the producer, which it may fail to reach.   *)
MayLock == hubMu = None

DialProducer(c) ==
    /\ spc[c] = "lock" /\ MayLock
    /\ hubMu' = c
    /\ link' = [link EXCEPT ![c] = "open"]
    /\ Goto(c, "reply")
    /\ UNCHANGED <<resp, media, client, joined, hub, stop, rpc, subs>>

DialProducerFails(c) ==
    /\ spc[c] = "lock" /\ MayLock
    /\ Goto(c, "close")
    /\ UNCHANGED <<upstream, client, joined, server, stop, rpc, subs>>

\* A return that leaves hubMu locked: breaks LockGranted and NobodyStuck.
KeepsLock(c, phase) == hubMu' = hubMu /\ Goto(c, phase)
Return(c, phase) == hubMu' = None /\ Goto(c, phase)

(* No response before HandshakeTimeout, a broken stream, a response that    *)
(* does not decode, or a camera certificate the trust store rejects.        *)
\* The connection of a failed handshake left open: breaks UpstreamAccounted
\* and CameraServesHub.
LeftOpen(c) == link' = link
AfterFailedRequest(c) == HangUp(c)

RequestFails(c) ==
    /\ spc[c] = "reply"
    /\ AfterFailedRequest(c)
    /\ Return(c, "close")
    /\ UNCHANGED <<resp, media, client, joined, hub, stop, rpc, subs>>

(* With a hub, the handshake only authenticates: its connection is closed,  *)
(* and the consumer joins if the producer named the session of the hub.     *)
SessionID(h) == resp[h]

\* The sessions not compared: breaks FramesMatchSession.
AnySession(c) == TRUE
SameSession(c) == resp[c] = SessionID(hub)

JoinHub(c) ==
    /\ spc[c] = "reply" /\ resp[c] # None /\ hub # None
    /\ SameSession(c)
    /\ HangUp(c)
    /\ joined' = [joined EXCEPT ![c] = hub]
    /\ Return(c, "add")
    /\ UNCHANGED <<resp, media, client, hub, stop, rpc, subs>>

\* The mismatch not returned as an error: breaks STypeOK.
MismatchIgnored(c) == "add"
AfterMismatch(c) == "close"

OtherSession(c) ==
    /\ spc[c] = "reply" /\ resp[c] # None /\ hub # None
    /\ ~SameSession(c)
    /\ HangUp(c)
    /\ Return(c, AfterMismatch(c))
    /\ UNCHANGED <<resp, media, client, joined, hub, stop, rpc, subs>>

(* Without one, the connection becomes the upstream of a new hub.           *)
CreateHub(c) ==
    /\ spc[c] = "reply" /\ resp[c] # None /\ hub = None
    /\ hub' = c
    /\ stop' = [stop EXCEPT ![c] = "live"]
    /\ joined' = [joined EXCEPT ![c] = c]
    /\ Return(c, "add")
    /\ UNCHANGED <<upstream, client, rpc, subs>>

(* AddConsumer opens the media stream to the consumer, enters the           *)
(* subscription and starts its writer.  It does not look whether the hub    *)
(* was stopped in the meantime.                                            *)
AddConsumer(c) ==
    /\ spc[c] = "add"
    /\ subscribed' = subscribed \cup {c}
    /\ wpc' = [wpc EXCEPT ![c] = "run"]
    /\ Goto(c, "write")
    /\ UNCHANGED <<upstream, client, joined, server, stop, rpc, closed, queued>>

AddConsumerFails(c) ==
    /\ spc[c] = "add" /\ client[c] = "gone"
    /\ Goto(c, "close")
    /\ UNCHANGED <<upstream, client, joined, server, stop, rpc, subs>>

(* WriteHandshakeResponse, then FrameHub.Start: startOnce lets the first     *)
(* caller start the runner.                                                *)
WriteResponse(c) ==
    /\ spc[c] = "write"
    /\ rpc' = [rpc EXCEPT ![joined[c]] = IF @ = "off" THEN "accept" ELSE @]
    /\ Goto(c, "wait")
    /\ UNCHANGED <<upstream, client, joined, server, stop, subs>>

\* The subscription of a failed handshake kept: breaks NoGhostSubscriber.
SubscriptionKept == "close"
AfterFailedWrite == "remove"

WriteResponseFails(c) ==
    /\ spc[c] = "write" /\ client[c] = "gone"
    /\ Goto(c, AfterFailedWrite)
    /\ UNCHANGED <<upstream, client, joined, server, stop, rpc, subs>>

(* consumerSubscription.Wait returns when done is closed; it does not watch *)
(* the consumer's connection.                                              *)
WaitReturns(c) ==
    /\ spc[c] = "wait" /\ c \in closed
    /\ Goto(c, "remove")
    /\ UNCHANGED <<upstream, client, joined, server, stop, rpc, subs>>

(* RemoveConsumer: the subscription leaves the map, is closed, and if it    *)
(* was there and was the last one the caller goes on to stop the hub.       *)
LastOut(c) == c \in subscribed /\ Members(joined[c]) = {c}

Unsubscribe(c) ==
    /\ subscribed' = subscribed \ {c}
    /\ closed' = closed \cup {c}

RemoveConsumer(c) ==
    /\ spc[c] = "remove"
    /\ Unsubscribe(c)
    /\ Goto(c, IF LastOut(c) THEN "stop" ELSE "close")
    /\ UNCHANGED <<upstream, client, joined, server, stop, rpc, queued, wpc>>

StopReturns(c) ==
    /\ spc[c] = "stop" /\ stop[joined[c]] = "drained"
    /\ Goto(c, "close")
    /\ UNCHANGED <<upstream, client, joined, server, stop, rpc, subs>>

CloseConsumer(c) ==
    /\ spc[c] = "close"
    /\ client' = [client EXCEPT ![c] = "gone"]
    /\ Goto(c, "done")
    /\ UNCHANGED <<upstream, joined, server, stop, rpc, subs>>

Handler(c) ==
    \/ ReadRequest(c) \/ ReadRequestFails(c)
    \/ DialProducer(c) \/ DialProducerFails(c) \/ RequestFails(c)
    \/ JoinHub(c) \/ OtherSession(c) \/ CreateHub(c)
    \/ AddConsumer(c) \/ AddConsumerFails(c)
    \/ WriteResponse(c) \/ WriteResponseFails(c)
    \/ WaitReturns(c) \/ RemoveConsumer(c) \/ StopReturns(c) \/ CloseConsumer(c)
-----------------------------------------------------------------------------
(* writeConsumerFrames: after a frame is written the channel may hold more. *)
WriterGoto(c, phase) ==
    /\ wpc' = [wpc EXCEPT ![c] = phase]
    /\ queued' = queued \ {c}

WriteFrame(c) ==
    /\ wpc[c] = "run" /\ c \in queued /\ c \notin closed
    /\ queued' = queued \ {c}
    /\ UNCHANGED <<upstream, client, spc, joined, server, stop, rpc,
                   subscribed, closed, wpc>>

\* A failed write ends the writer alone: breaks DepartureNoticed.
JustReturns == "done"
AfterLostFrame == "remove"

WriteFrameFails(c) ==
    /\ wpc[c] = "run" /\ c \in queued /\ (client[c] = "gone" \/ c \in closed)
    /\ WriterGoto(c, AfterLostFrame)
    /\ UNCHANGED <<upstream, client, spc, joined, server, stop, rpc,
                   subscribed, closed>>

\* The context of the hub not watched: breaks WaitsAreKnown.
WatchesDone(c) == c \in closed
Released(c) == c \in closed \/ stop[joined[c]] # "live"

WriterReleased(c) ==
    /\ wpc[c] = "run" /\ Released(c)
    /\ WriterGoto(c, "done")
    /\ UNCHANGED <<upstream, client, spc, joined, server, stop, rpc,
                   subscribed, closed>>

WriterRemoves(c) ==
    /\ wpc[c] = "remove"
    /\ Unsubscribe(c)
    /\ WriterGoto(c, IF LastOut(c) THEN "stop" ELSE "done")
    /\ UNCHANGED <<upstream, client, spc, joined, server, stop, rpc>>

WriterStopReturns(c) ==
    /\ wpc[c] = "stop" /\ stop[joined[c]] = "drained"
    /\ WriterGoto(c, "done")
    /\ UNCHANGED <<upstream, client, spc, joined, server, stop, rpc,
                   subscribed, closed>>

WriterLeaves(c) == WriterReleased(c) \/ WriterRemoves(c) \/ WriterStopReturns(c)

Writer(c) == WriteFrame(c) \/ WriteFrameFails(c) \/ WriterLeaves(c)
-----------------------------------------------------------------------------
(* The goroutine of FrameHub.Start: run, Stop, then Server.clearMediaHub.   *)
RunnerGoto(h, phase) == rpc' = [rpc EXCEPT ![h] = phase]

AcceptMedia(h) ==
    /\ rpc[h] = "accept" /\ media[h] # "none" /\ link[h] = "open"
    /\ RunnerGoto(h, "relay")
    /\ UNCHANGED <<upstream, client, spc, joined, server, stop, subs>>

(* broadcast, and Enqueue at every subscriber: see SubscriberQueue.  Frames  *)
(* read before the stream or the connection ended are still on their way.   *)
Broadcast(h) ==
    /\ rpc[h] = "relay" /\ media[h] # "none"
    /\ queued' = queued \cup {c \in Members(h) : wpc[c] = "run"}
    /\ UNCHANGED <<upstream, client, spc, joined, server, stop, rpc,
                   subscribed, closed, wpc>>

\* The hub cleared without a Stop: breaks OneLiveHub.
StopSkipped == "clear"
AfterRun == "stop"

RunEnds(h) ==
    /\ \/ rpc[h] \in {"accept", "relay"} /\ (link[h] = "closed" \/ stop[h] # "live")
       \/ rpc[h] = "relay" /\ media[h] = "fin"
    /\ RunnerGoto(h, AfterRun)
    /\ UNCHANGED <<upstream, client, spc, joined, server, stop, subs>>

RunnerStopReturns(h) ==
    /\ rpc[h] = "stop" /\ stop[h] = "drained"
    /\ RunnerGoto(h, "clear")
    /\ UNCHANGED <<upstream, client, spc, joined, server, stop, subs>>

\* Server.hub never reset: breaks StartedHubCleared and CameraServesHub.
NeverCleared(h) == hub
HubAfter(h) == IF hub = h THEN None ELSE hub

ClearMediaHub(h) ==
    /\ rpc[h] = "clear" /\ hubMu = None
    /\ hub' = HubAfter(h)
    /\ RunnerGoto(h, "done")
    /\ UNCHANGED <<upstream, client, spc, joined, hubMu, stop, subs>>

(* FrameHub.Stop runs once, in whichever goroutine calls it first; the      *)
(* others wait in stopOnce until it is done.  It cancels the context and    *)
(* closes the upstream connection, then drains the subscribers.            *)
StopCalled(h) ==
    \/ rpc[h] = "stop"
    \/ \E c \in Conns : joined[c] = h /\ (spc[c] = "stop" \/ wpc[c] = "stop")

StopCancels(h) ==
    /\ stop[h] = "live" /\ StopCalled(h)
    /\ stop' = [stop EXCEPT ![h] = "cancelled"]
    /\ HangUp(h)
    /\ UNCHANGED <<resp, media, client, spc, joined, server, rpc, subs>>

\* The subscribers of a stopped hub not closed: breaks ServedOrClosed.
NoneDrained(h) == {}
Drained(h) == Members(h)

StopDrains(h) ==
    /\ stop[h] = "cancelled"
    /\ stop' = [stop EXCEPT ![h] = "drained"]
    /\ subscribed' = subscribed \ Drained(h)
    /\ closed' = closed \cup Drained(h)
    /\ UNCHANGED <<upstream, client, spc, joined, server, rpc, queued, wpc>>

Hub(h) ==
    \/ AcceptMedia(h) \/ RunEnds(h) \/ RunnerStopReturns(h) \/ ClearMediaHub(h)
    \/ StopCancels(h) \/ StopDrains(h)
-----------------------------------------------------------------------------
(* Consumers connect, and leave or are cut off, at any time.                *)
ClientDials(c) ==
    /\ client[c] = "idle"
    /\ client' = [client EXCEPT ![c] = "open"]
    /\ UNCHANGED <<upstream, spc, joined, server, stop, rpc, subs>>

ClientLeaves(c) ==
    /\ client[c] = "open"
    /\ client' = [client EXCEPT ![c] = "gone"]
    /\ UNCHANGED <<upstream, spc, joined, server, stop, rpc, subs>>

SNext == \E c \in Conns :
    Handler(c) \/ Writer(c) \/ Hub(c) \/ Broadcast(c) \/ ClientDials(c) \/ ClientLeaves(c)

(* The environment: any producer, answering with any session.  It may not   *)
(* know yet that a connection is gone when it answers or ends the stream,   *)
(* and its restart ends several connections at once.                       *)
EnvReplies(c) ==
    /\ link[c] # "idle" /\ resp[c] = None
    /\ \E s \in Conns : resp' = [resp EXCEPT ![c] = s]
    /\ UNCHANGED <<link, media, client, spc, joined, server, stop, rpc, subs>>

EnvStreams(c) ==
    /\ link[c] = "open" /\ resp[c] # None /\ media[c] = "none"
    /\ media' = [media EXCEPT ![c] = "open"]
    /\ UNCHANGED <<link, resp, client, spc, joined, server, stop, rpc, subs>>

EnvEndsStream(c) ==
    /\ link[c] # "idle" /\ resp[c] # None /\ media[c] # "fin"
    /\ media' = [media EXCEPT ![c] = "fin"]
    /\ UNCHANGED <<link, resp, client, spc, joined, server, stop, rpc, subs>>

EnvCloses(C) ==
    /\ \A c \in C : link[c] = "open"
    /\ link' = [c \in Conns |-> IF c \in C THEN "closed" ELSE link[c]]
    /\ UNCHANGED <<resp, media, client, spc, joined, server, stop, rpc, subs>>

EnvNext ==
    \/ \E c \in Conns : EnvReplies(c) \/ EnvStreams(c) \/ EnvEndsStream(c)
    \/ \E C \in SUBSET Conns : EnvCloses(C)

Next == SNext \/ EnvNext

Spec == SInit /\ [][Next]_svars
-----------------------------------------------------------------------------
(* A steady producer: it answers with the session of the hub there is, or   *)
(* with a new one if there is none or its connection is gone, and streams to *)
(* a hub until it ends or the link breaks.                                 *)
SteadyReplies(c) ==
    /\ spc[c] = "reply" /\ resp[c] = None
    /\ \/ hub # None /\ resp' = [resp EXCEPT ![c] = SessionID(hub)]
       \/ (hub # None => link[hub] = "closed") /\ resp' = [resp EXCEPT ![c] = c]
    /\ UNCHANGED <<link, media, client, spc, joined, server, stop, rpc, subs>>

SteadyStreams(c) == rpc[c] = "accept" /\ EnvStreams(c)

SteadyEnds(c) ==
    rpc[c] = "relay" /\ link[c] = "open" /\ (EnvEndsStream(c) \/ EnvCloses({c}))

SteadyNext ==
    SNext \/ \E c \in Conns : SteadyReplies(c) \/ SteadyStreams(c) \/ SteadyEnds(c)

(* Some goroutine that can take a step takes one.  A handler, a runner and  *)
(* a writer's exit take boundedly many steps for each connection, so this   *)
(* is fair to each of them; only copying frames goes on for ever.           *)
Progress == \E c \in Conns : Handler(c) \/ Hub(c) \/ WriterLeaves(c)

(* The camera keeps giving frames, and a writer that keeps getting frames   *)
(* for a consumer that is gone sees one of its writes fail, at the latest   *)
(* when the connection's idle timeout has passed.                          *)
FramesArrive == \E h \in Conns :
    SteadyStreams(h) \/ (media[h] = "open" /\ link[h] = "open" /\ Broadcast(h))
LossNoticed == \E c \in Conns : WriteFrameFails(c)

Fairness ==
    WF_svars(Progress) /\ WF_svars(FramesArrive) /\ SF_svars(LossNoticed)

SteadySpec == SInit /\ [][SteadyNext]_svars /\ Fairness
-----------------------------------------------------------------------------
(* There is at most one hub at work, and it is the one consumers are sent   *)
(* to: Server.hub changes only after Stop is over (clearMediaHub).          *)
OneLiveHub == \A h \in Conns : stop[h] \in {"live", "cancelled"} => hub = h

(* No connection to the producer is forgotten open: it belongs to the       *)
(* handshake under hubMu or to the hub before its Stop, on every path.      *)
UpstreamAccounted ==
    \A c \in Conns : link[c] = "open" =>
        \/ hubMu = c /\ spc[c] = "reply"
        \/ hub = c /\ stop[c] = "live"

(* A subscription never outlives its handler, whichever way it returned.     *)
(* That the handler of a consumer that is gone does return is another       *)
(* matter (DepartureNoticed).                                              *)
NoGhostSubscriber ==
    \A c \in subscribed : spc[c] \in {"write", "wait", "remove"}

(* A hub whose runner was started and whose upstream is gone is cleared, so *)
(* that the next consumer gets a new one (FrameHub.Start).                  *)
StartedHubCleared ==
    \A h \in Conns :
        (hub = h /\ rpc[h] # "off" /\ link[h] = "closed") ~> hub # h

(* A consumer whose handshake completed on a hub that is not stopped gets a *)
(* frame, or its connection is closed so that it can tell.                  *)
ServedOrClosed ==
    \A c \in Conns :
        (spc[c] = "wait" /\ c \in subscribed /\ stop[joined[c]] = "live")
            ~> (c \in queued \/ client[c] = "gone" \/ spc[c] = "done")

(* A consumer that went away while its hub relays frames is unsubscribed,   *)
(* though nothing but a failing write tells the hub (Wait does not).        *)
DepartureNoticed ==
    \A c \in Conns :
        (/\ c \in subscribed /\ client[c] = "gone"
         /\ rpc[joined[c]] = "relay" /\ stop[joined[c]] = "live")
            ~> c \notin subscribed

(* Nobody waits for hubMu for ever, though it is held over the network and  *)
(* a runner that stops takes it too.                                       *)
LockGranted == \A c \in Conns : spc[c] = "lock" ~> spc[c] # "lock"
-----------------------------------------------------------------------------
(* What the documentation or a message of the code says and the code does   *)
(* not give.                                                               *)

(* After a successful handshake the consumer starts to show the stream      *)
(* (README.md:186): it gets a frame, or is closed.  A consumer that enters  *)
(* a hub after its Stop drained the subscribers is neither.                 *)
AnsweredIsServed ==
    \A c \in Conns :
        spc[c] = "wait" ~> (c \in queued \/ client[c] = "gone" \/ spc[c] = "done")

(* Such a consumer: its writer saw the end of the hub's context and left,    *)
(* and nobody is to close its subscription any more.                        *)
Stranded(c) ==
    /\ spc[c] = "wait" /\ c \in subscribed \ closed
    /\ wpc[c] = "done" /\ stop[joined[c]] = "drained"

(* One producer and several consumers are supported (README.md:60): a hub   *)
(* that has lost its upstream does not stay in the way of the next          *)
(* consumers.  One that was never started does.                            *)
HubCleared == \A h \in Conns : (hub = h /\ link[h] = "closed") ~> hub # h
=============================================================================
