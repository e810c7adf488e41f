----------------------------- MODULE RelaySystem -----------------------------
(***************************************************************************)
(* The producer and the server together, over the upstream connections they *)
(* share: the server dials, reads resp and media and hangs up; the producer *)
(* answers, streams and closes.  Consumers come and go, either end may find *)
(* a connection lost, and the producer may be restarted.                    *)
(***************************************************************************)
CONSTANTS Conns, None

\* None stands for no session and no hub.
ASSUME NilAssumption == None \notin Conns

VARIABLES
    link, resp, media,                              \* shared
    active, ppc, sess, camera,                      \* ProducerSession
    client, spc, joined, hubMu, hub, stop, rpc,     \* ServerSession
    subscribed, closed, queued, wpc

producer == <<active, ppc, sess, camera>>
relay == <<client, spc, joined, hubMu, hub, stop, rpc, subscribed, closed, queued, wpc>>
vars == <<link, resp, media, producer, relay>>

P == INSTANCE ProducerSession
S == INSTANCE ServerSession

Init == P!PInit /\ S!SInit

(* The network drops an upstream connection, or its idle timeout passes.    *)
LoseUpstream(c) ==
    /\ link[c] = "open"
    /\ link' = [link EXCEPT ![c] = "closed"]
    /\ UNCHANGED <<resp, media, producer, relay>>

Next ==
    \/ P!PNext /\ UNCHANGED relay
    \/ S!SNext /\ UNCHANGED producer
    \/ \E c \in Conns : LoseUpstream(c)

(* A step some goroutine of either program can take by itself.  The endless *)
(* copying of frames is left out, and so is what ffmpeg must do first.      *)
Progress == \E c \in Conns :
    \/ P!Handler(c) /\ (P!SendFrame(c) => media[c] = "none") /\ UNCHANGED relay
    \/ (S!Handler(c) \/ S!Hub(c) \/ S!WriterLeaves(c)) /\ UNCHANGED producer

Spec == Init /\ [][Next]_vars
-----------------------------------------------------------------------------
(* What each goroutine may wait for.  A handler of the producer: its request *)
(* or, while it streams, ffmpeg, whatever has become of the connection; or   *)
(* it copies frames.                                                       *)
ProducerWaits(c) ==
    \/ ppc[c] = "done"
    \/ ppc[c] = "idle" /\ link[c] = "idle"
    \/ ppc[c] = "send"
    \/ ppc[c] = "frame" /\ link[c] = "open" /\ media[c] # "none"

(* A handler whose connection is gone and whom ffmpeg does not let find out. *)
Stalled(c) == ppc[c] = "send" /\ link[c] = "closed"

(* A handler of the server: its consumer, hubMu, done or stopOnce.          *)
HandlerWaits(c) ==
    \/ spc[c] = "done"
    \/ spc[c] = "idle" /\ client[c] = "idle"
    \/ spc[c] = "lock" /\ hubMu # None
    \/ spc[c] = "wait" /\ c \notin closed
    \/ spc[c] = "stop" /\ stop[joined[c]] # "drained"

(* A writer: frames, done or the context of its hub; or stopOnce.           *)
WriterWaits(c) ==
    \/ wpc[c] \in {"off", "done"}
    \/ wpc[c] = "run" /\ c \notin closed /\ stop[joined[c]] = "live"
    \/ wpc[c] = "stop" /\ stop[joined[c]] # "drained"

(* A runner: the media stream, frames, stopOnce or hubMu.                   *)
RunnerWaits(h) ==
    \/ rpc[h] \in {"off", "done"}
    \/ /\ rpc[h] = "accept" /\ stop[h] = "live" /\ link[h] # "closed"
       /\ link[h] = "open" => media[h] = "none"
    \/ /\ rpc[h] = "relay" /\ stop[h] = "live" /\ link[h] # "closed"
       /\ media[h] # "fin"
    \/ rpc[h] = "stop" /\ stop[h] # "drained"
    \/ rpc[h] = "clear" /\ hubMu # None

(* Nobody is inside Stop, or could now enter it.                            *)
NobodyStops(h) ==
    stop[h] # "cancelled" /\ (stop[h] = "live" => ~ S!StopCalled(h))

(* The system has settled: whoever still waits, waits until the outside     *)
(* world acts.                                                             *)
Settled == \A c \in Conns :
    ProducerWaits(c) /\ HandlerWaits(c) /\ WriterWaits(c) /\ RunnerWaits(c) /\ NobodyStops(c)

(* These waits are all there are: no goroutine of either program is held up *)
(* anywhere else, whatever the others do.                                  *)
WaitsAreKnown == Settled <=> ~ ENABLED Progress

(* The types of the server's state; a subscriber has joined a hub.           *)
STypeOK == S!STypeOK

(* Hubs succeed one another in order (clearMediaHub, FrameHub.Stop): none is  *)
(* at work but Server.hub, whatever the producer does to their upstreams.    *)
OneLiveHub == S!OneLiveHub

(* Over every path of a handshake and of Stop, each connection to the real    *)
(* producer that is open has a handshake or a hub that will close it.        *)
UpstreamAccounted == S!UpstreamAccounted

(* On every path out of handleConsumerConnection that was past AddConsumer,   *)
(* the handler takes its subscription with it.                             *)
NoGhostSubscriber == S!NoGhostSubscriber

(* Whatever the server relays to a consumer was signed for the session that *)
(* consumer was told in its handshake: frames of one session never reach a  *)
(* consumer of another, over reconnects, restarts of the producer and hubs  *)
(* that succeed each other (prepareMediaHub, buildHandshakeResponse).       *)
FramesMatchSession ==
    \A c \in queued : resp[c] = joined[c] /\ sess[joined[c]] = joined[c]

(* When the system has settled, nobody is left waiting for a lock, for      *)
(* stopOnce, or for the other program (hubMu, stopOnce, sessionMu): who      *)
(* still waits for a stream waits for ffmpeg alone.                         *)
NobodyStuck ==
    Settled => \A c \in Conns :
        /\ spc[c] \in {"idle", "wait", "done"}
        /\ ppc[c] \in {"idle", "done"} \cup P!Streaming
        /\ wpc[c] \in {"off", "run", "done"}
        /\ rpc[c] \in {"off", "accept", "relay", "done"}
        /\ rpc[c] = "accept" => ppc[c] = "send" /\ ~Stalled(c)

(* A consumer the hub serves: it was told the active session, the one the    *)
(* producer streams on the upstream of that hub.                            *)
Served(c) ==
    /\ joined[c] = hub /\ c \in subscribed /\ wpc[c] = "run"
    /\ resp[c] = hub /\ active = hub

(* Once things have settled the two programs agree on who is served: the    *)
(* producer runs the camera for no connection but the hub's - a handshake    *)
(* that starts media it should not have, such as a probe after the producer  *)
(* dropped its session, is undone - or ffmpeg stalls for one that is gone; a *)
(* hub that was started is fed by the active session, streamed on the hub's  *)
(* own connection; and every consumer that still waits is served by that     *)
(* hub, or entered one that was stopped.                                   *)
CameraServesHub ==
    Settled =>
        /\ \A c \in camera : hub = c \/ Stalled(c)
        /\ hub # None /\ rpc[hub] # "off"
             => active = hub /\ ppc[hub] \in P!Streaming /\ link[hub] = "open"
        /\ \A c \in Conns : spc[c] = "wait" =>
             \/ Served(c) /\ rpc[hub] # "off"
             \/ S!Stranded(c)
-----------------------------------------------------------------------------
(* After a successful handshake the consumer starts to show the stream      *)
(* (README.md:186): the session it was told is the one that is streamed on  *)
(* the upstream of its hub.  Not if the producer had not yet given up the   *)
(* session of the hub before, and answered with that one.                   *)
HubCarriesItsSession ==
    \A c \in Conns : spc[c] = "wait" => S!SessionID(joined[c]) = joined[c]
=============================================================================
