--------------------------- MODULE ProducerSession ---------------------------
(***************************************************************************)
(* The camera side (internal/app/producer/app.go): one goroutine per        *)
(* accepted connection runs handleConnection; the goroutines share          *)
(* activeSession under sessionMu and the one camera through ffmpeg.         *)
(*                                                                         *)
(* A connection answers one handshake.  If no session is active the handler *)
(* makes its own one active and streams it on this connection; otherwise it *)
(* answers with the active session and closes the connection.  A session is *)
(* named after the connection that created it (ids are 16 random bytes, so  *)
(* two sessions never share one).                                          *)
(*                                                                         *)
(* link, resp and media are the connections as both ends see them; the      *)
(* dialling end is left to an environment that dials and drops connections  *)
(* at will.                                                                *)
(***************************************************************************)
CONSTANTS Conns, None

ASSUME NoneAssumption == None \notin Conns

VARIABLES
    link,       \* upstream connection: "idle" until dialled, "open", "closed"
    resp,       \* handshake response written to a connection: a session or None
    media,      \* media stream: "none", "open" once a frame is sent, "fin"
    active,     \* Producer.activeSession: a session, or None for nil
    ppc,        \* where the handler of a connection is
    sess,       \* the session buildHandshakeResponse returned to a handler
    camera      \* the handlers that have an ffmpeg process they have not closed

pvars == <<link, resp, media, active, ppc, sess, camera>>

SessionOrNil == Conns \cup {None}

(* The handler's deferred calls run in the order closeSource, clear, close. *)
\* Without defer source.Close(): breaks ExclusiveCamera.
SourceNotClosed == "clear"
AfterSend == "closeSource"

\* Without defer p.clearActiveSession(session): breaks StreamReleased.
SessionNotCleared == "close"
AfterSource == "clear"

(* While it streams, a handler waits for a payload of ffmpeg ("send") or has  *)
(* one to sign and write ("frame").                                        *)
Streaming == {"send", "frame"}

Phases == {"idle", "build", "write", "source", "closeSource", "clear", "close",
           "done"} \cup Streaming

PTypeOK ==
    /\ link \in [Conns -> {"idle", "open", "closed"}]
    /\ resp \in [Conns -> SessionOrNil]
    /\ media \in [Conns -> {"none", "open", "fin"}]
    /\ active \in SessionOrNil
    /\ ppc \in [Conns -> Phases]
    /\ sess \in [Conns -> SessionOrNil]
    /\ camera \subseteq Conns
    /\ \A c \in Conns : ppc[c] = "write" => sess[c] \in Conns

PInit ==
    /\ link = [c \in Conns |-> "idle"]
    /\ resp = [c \in Conns |-> None]
    /\ media = [c \in Conns |-> "none"]
    /\ active = None
    /\ ppc = [c \in Conns |-> "idle"]
    /\ sess = [c \in Conns |-> None]
    /\ camera = {}
-----------------------------------------------------------------------------
Goto(c, phase) == ppc' = [ppc EXCEPT ![c] = phase]

(* AcceptStream and ReadHandshakeRequest: the request arrives, or the stream *)
(* breaks, the message is malformed or HandshakeTimeout passes.              *)
ReadRequest(c) ==
    /\ ppc[c] = "idle" /\ link[c] = "open"
    /\ Goto(c, "build")
    /\ UNCHANGED <<link, resp, media, active, sess, camera>>

ReadRequestFails(c) ==
    /\ ppc[c] = "idle" /\ link[c] # "idle"
    /\ Goto(c, "close")
    /\ UNCHANGED <<link, resp, media, active, sess, camera>>

(* buildHandshakeResponse, one critical section of sessionMu: the session a *)
(* request is answered with.                                               *)

\* The check of activeSession lost: breaks SessionKept and LeaseSpec.
AlwaysNewSession(c) == c
\* The nil case lost: breaks PTypeOK.
NeverNewSession(c) == active
SessionFor(c) == IF active = None THEN c ELSE active

BuildResponse(c) ==
    /\ ppc[c] = "build"
    /\ sess' = [sess EXCEPT ![c] = SessionFor(c)]
    /\ active' = SessionFor(c)
    /\ Goto(c, "write")
    /\ UNCHANGED <<link, resp, media, camera>>

(* The TPM or the random source fails: activeSession is left as it was.     *)
BuildResponseFails(c) ==
    /\ ppc[c] = "build"
    /\ Goto(c, "close")
    /\ UNCHANGED <<link, resp, media, active, sess, camera>>

StartsMedia(c) == sess[c] = c

(* WriteHandshakeResponse, then the branch on startsMedia.                  *)
WriteResponse(c) ==
    /\ ppc[c] = "write"
    /\ resp' = [resp EXCEPT ![c] = sess[c]]
    /\ Goto(c, IF StartsMedia(c) THEN "source" ELSE "close")
    /\ UNCHANGED <<link, media, active, sess, camera>>

(* The write fails on a dead connection; handleConnection returns before it *)
(* has deferred clearActiveSession.                                        *)
AfterFailedWrite(c) == "close"

WriteResponseFails(c) ==
    /\ ppc[c] = "write" /\ link[c] = "closed"
    /\ Goto(c, AfterFailedWrite(c))
    /\ UNCHANGED <<link, resp, media, active, sess, camera>>

(* media.NewFFmpegSource starts ffmpeg, or fails to.                        *)
NewFFmpegSource(c) ==
    /\ ppc[c] = "source"
    /\ camera' = camera \cup {c}
    /\ Goto(c, "send")
    /\ UNCHANGED <<link, resp, media, active, sess>>

NewFFmpegSourceFails(c) ==
    /\ ppc[c] = "source"
    /\ Goto(c, "clear")
    /\ UNCHANGED <<link, resp, media, active, sess, camera>>

(* SendSignedFrames cannot open its streams on a connection that is gone; so  *)
(* far only the handler knows of the ffmpeg process it has started.         *)
OpenStreamFails(c) ==
    /\ ppc[c] = "source" /\ link[c] = "closed"
    /\ camera' = camera \cup {c}
    /\ Goto(c, AfterSend)
    /\ UNCHANGED <<link, resp, media, active, sess>>

(* Its loop.  NextPayload reads the pipe of ffmpeg, without a deadline and    *)
(* without regard to the connection, until ffmpeg writes something.         *)
NextPayload(c) ==
    /\ ppc[c] = "send"
    /\ Goto(c, "frame")
    /\ UNCHANGED <<link, resp, media, active, sess, camera>>

(* The first frame makes the media stream visible to the other end; later    *)
(* ones change nothing that is modelled here.                              *)
SendFrame(c) ==
    /\ ppc[c] = "frame" /\ link[c] = "open"
    /\ media' = [media EXCEPT ![c] = "open"]
    /\ Goto(c, "send")
    /\ UNCHANGED <<link, resp, active, sess, camera>>

(* SendSignedFrames returns and its deferred Close ends the media stream:   *)
(* the write of a frame meets a connection that is gone ...                 *)
SendEnds(c) ==
    /\ Goto(c, AfterSend)
    /\ media' = [media EXCEPT ![c] = "fin"]
    /\ UNCHANGED <<link, resp, active, sess, camera>>

SendFrameFails(c) == ppc[c] = "frame" /\ link[c] = "closed" /\ SendEnds(c)

(* ... or ffmpeg ends, or its output cannot be read.                        *)
PayloadEnds(c) == ppc[c] = "send" /\ SendEnds(c)

CloseSource(c) ==
    /\ ppc[c] = "closeSource"
    /\ camera' = camera \ {c}
    /\ Goto(c, AfterSource)
    /\ UNCHANGED <<link, resp, media, active, sess>>

(* clearActiveSession forgets the session only if it is still the handler's. *)
AfterClear(c) == IF active = sess[c] THEN None ELSE active

ClearActiveSession(c) ==
    /\ ppc[c] = "clear"
    /\ active' = AfterClear(c)
    /\ Goto(c, "close")
    /\ UNCHANGED <<link, resp, media, sess, camera>>

CloseSession(c) ==
    /\ ppc[c] = "close"
    /\ link' = [link EXCEPT ![c] = "closed"]
    /\ Goto(c, "done")
    /\ UNCHANGED <<resp, media, active, sess, camera>>

(* The producer process is killed and started again: every handler is gone, *)
(* with its connection, and activeSession is nil.  That its ffmpeg is gone   *)
(* too by then is assumed: its pipe breaks, but nothing in the code waits.   *)
Restart ==
    /\ active' = None
    /\ camera' = {}
    /\ ppc' = [c \in Conns |-> IF link[c] = "idle" THEN "idle" ELSE "done"]
    /\ link' = [c \in Conns |-> IF link[c] = "idle" THEN "idle" ELSE "closed"]
    /\ UNCHANGED <<resp, media, sess>>

(* Every step a handler takes by itself ...                                 *)
Handler(c) ==
    \/ ReadRequest(c) \/ ReadRequestFails(c)
    \/ BuildResponse(c) \/ BuildResponseFails(c)
    \/ WriteResponse(c) \/ WriteResponseFails(c)
    \/ NewFFmpegSource(c) \/ NewFFmpegSourceFails(c)
    \/ OpenStreamFails(c) \/ SendFrame(c) \/ SendFrameFails(c)
    \/ CloseSource(c) \/ ClearActiveSession(c) \/ CloseSession(c)

(* ... and those it waits for ffmpeg to let it take.                         *)
Camera(c) == NextPayload(c) \/ PayloadEnds(c)

PNext == Restart \/ \E c \in Conns : Handler(c) \/ Camera(c)
-----------------------------------------------------------------------------
(* The environment: any dialler.  Losing a connection and closing it are    *)
(* the same to the producer.                                               *)
EnvDial(c) ==
    /\ link[c] = "idle"
    /\ link' = [link EXCEPT ![c] = "open"]
    /\ UNCHANGED <<resp, media, active, ppc, sess, camera>>

EnvDrop(c) ==
    /\ link[c] = "open"
    /\ link' = [link EXCEPT ![c] = "closed"]
    /\ UNCHANGED <<resp, media, active, ppc, sess, camera>>

Next == PNext \/ \E c \in Conns : EnvDial(c) \/ EnvDrop(c)

SafetySpec == PInit /\ [][Next]_pvars

(* A goroutine that can go on does.                                         *)
PFairness == \A c \in Conns : WF_pvars(Handler(c))

Spec == SafetySpec /\ PFairness

(* ffmpeg is not this code: that it keeps giving payloads, or ends, is an     *)
(* assumption, and nothing in the producer makes up for it if it stalls.    *)
CameraRuns == \A c \in Conns : WF_pvars(Camera(c))

CameraSpec == Spec /\ CameraRuns
-----------------------------------------------------------------------------
(* The session a handler created and has not finished with is the active    *)
(* one: nobody else's request replaces it, and nobody else's cleanup clears *)
(* it (buildHandshakeResponse and clearActiveSession, app.go:195-223).      *)
UsesOwnSession(c) ==
    /\ StartsMedia(c)
    /\ ppc[c] \in {"write", "source", "closeSource", "clear"} \cup Streaming

SessionKept == \A c \in Conns : UsesOwnSession(c) => active = c

(* The camera is one DirectShow device: at no time do two handlers hold an  *)
(* ffmpeg process, not even while one session ends and the next begins.     *)
ExclusiveCamera == \A c, d \in camera : c = d

(* A session whose connection is gone while it streams is given up, so that *)
(* the next handshake starts a new one - as long as ffmpeg gives payloads or *)
(* ends (CameraRuns): the loss is only met by the write of the next frame.   *)
StreamReleased ==
    \A c \in Conns : (ppc[c] \in Streaming /\ link[c] = "closed") ~> active # c

(* app.go:179 logs mode=existing_media_session for a handshake that joins   *)
(* activeSession: some handler is still using that session.  Not so after   *)
(* the handler that created it has failed to write its response.            *)
ActiveSessionServed == active # None => UsesOwnSession(active)

(* The producer implements the abstract lease: activeSession is the holder, *)
(* and a handler is granted the session its response is built for.          *)
Lease == INSTANCE MediaLease WITH Callers <- Conns, holder <- active, grant <- sess

LeaseSpec == Lease!LeaseSpec
=============================================================================
