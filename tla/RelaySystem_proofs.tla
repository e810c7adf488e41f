------------------------- MODULE RelaySystem_proofs -------------------------
(***************************************************************************)
(* Proofs about producer and server together, for any number of consumers,  *)
(* with restarts of the producer and lost connections.                      *)
(*                                                                         *)
(* FramesMatchSession speaks of frames that are queued; it holds because of  *)
(* what happened at both ends long before.  The producer streams on a       *)
(* connection only the session it named there (Streams), and names one only  *)
(* once (AnswersOnce, which a restart keeps as it forgets no connection that *)
(* is not yet dialled: Undialled).  The server lets a consumer join a hub    *)
(* only if both were named the same session (Told), and only once           *)
(* (JoinsOnce), and queues what came on the hub's own connection (Relayed).  *)
(*                                                                         *)
(* The second part shows that each program is one of the environments the    *)
(* other was proved about with, so that what it keeps alone it keeps in the  *)
(* system (CInv).  The third uses both: when no goroutine can go on by       *)
(* itself, none is waiting for another one.  The last shows that this is     *)
(* where every behaviour goes: the steps the goroutines can take by          *)
(* themselves run out (WorkComesToAnEnd).                                   *)
(***************************************************************************)
EXTENDS RelaySystem, Naturals, TLAPS

Typed ==
    /\ link \in [Conns -> {"idle", "open", "closed"}]
    /\ resp \in [Conns -> Conns \cup {None}]
    /\ media \in [Conns -> {"none", "open", "fin"}]
    /\ active \in Conns \cup {None}
    /\ ppc \in [Conns -> P!Phases]
    /\ sess \in [Conns -> Conns \cup {None}]
    /\ spc \in [Conns -> S!HandlerPhases]
    /\ joined \in [Conns -> Conns \cup {None}]
    /\ hub \in Conns \cup {None}
    /\ queued \subseteq Conns /\ subscribed \subseteq Conns
    /\ wpc \in [Conns -> {"off", "run", "remove", "stop", "done"}]

Undialled == \A c \in Conns : link[c] = "idle" => ppc[c] = "idle"

AnswersOnce ==
    \A c \in Conns : ppc[c] \in {"idle", "build", "write"} =>
        resp[c] = None /\ media[c] = "none"

Streams ==
    \A c \in Conns :
        /\ ppc[c] \in {"source"} \cup P!Streaming \/ media[c] # "none" =>
               sess[c] = c /\ resp[c] = c
        /\ ppc[c] \in {"source"} \cup P!Streaming => media[c] # "fin"

JoinsOnce ==
    \A c \in Conns : spc[c] \in {"idle", "lock", "reply"} => joined[c] = None

Told ==
    \A c \in Conns : joined[c] # None =>
        resp[c] # None /\ resp[c] = resp[joined[c]]

Relayed == \A c \in queued : joined[c] # None /\ media[joined[c]] # "none"

(* The writer of a subscription is started by AddConsumer alone.             *)
Unlaunched ==
    \A c \in Conns : spc[c] \in {"idle", "lock", "reply", "add"} => wpc[c] = "off"

Inv ==
    Typed /\ Undialled /\ AnswersOnce /\ Streams /\ JoinsOnce /\ Told /\ Relayed
    /\ Unlaunched
-----------------------------------------------------------------------------
LEMMA InitInv == Init => Inv
BY NilAssumption
   DEF Init, P!PInit, S!SInit, Inv, Typed, Undialled, AnswersOnce, Streams,
       JoinsOnce, Told, Relayed, Unlaunched, P!Phases, P!Streaming, S!HandlerPhases

(* A step of the producer's handler.                                        *)
LEMMA HandlerKeeps ==
    ASSUME Inv, NEW c \in Conns, P!Handler(c) \/ P!Camera(c), UNCHANGED relay
    PROVE  Inv'
<1> USE NilAssumption
    DEF Inv, Typed, Undialled, AnswersOnce, Streams, JoinsOnce, Told, Relayed, Unlaunched,
        P!Phases, P!Streaming, P!Goto, relay
<1>1. CASE P!ReadRequest(c)
  BY <1>1 DEF P!ReadRequest
<1>2. CASE P!ReadRequestFails(c)
  BY <1>2 DEF P!ReadRequestFails
<1>3. CASE P!BuildResponse(c)
  BY <1>3 DEF P!BuildResponse, P!SessionFor
<1>4. CASE P!BuildResponseFails(c)
  BY <1>4 DEF P!BuildResponseFails
<1>5. CASE P!WriteResponse(c)
  BY <1>5 DEF P!WriteResponse, P!StartsMedia
<1>6. CASE P!WriteResponseFails(c)
  BY <1>6 DEF P!WriteResponseFails, P!AfterFailedWrite
<1>7. CASE P!NewFFmpegSource(c) \/ P!OpenStreamFails(c)
  BY <1>7 DEF P!NewFFmpegSource, P!OpenStreamFails, P!AfterSend
<1>8. CASE P!NewFFmpegSourceFails(c)
  BY <1>8 DEF P!NewFFmpegSourceFails
<1>9. CASE P!NextPayload(c) \/ P!SendFrame(c)
  BY <1>9 DEF P!NextPayload, P!SendFrame
<1>10. CASE P!SendFrameFails(c) \/ P!PayloadEnds(c)
  BY <1>10 DEF P!SendFrameFails, P!PayloadEnds, P!SendEnds, P!AfterSend
<1>11. CASE P!CloseSource(c)
  BY <1>11 DEF P!CloseSource, P!AfterSource
<1>12. CASE P!ClearActiveSession(c)
  BY <1>12 DEF P!ClearActiveSession, P!AfterClear
<1>13. CASE P!CloseSession(c)
  BY <1>13 DEF P!CloseSession
<1> QED
  BY <1>1, <1>2, <1>3, <1>4, <1>5, <1>6, <1>7, <1>8, <1>9, <1>10, <1>11, <1>12, <1>13
     DEF P!Handler, P!Camera

(* A restart keeps what was written: handlers of dialled connections are     *)
(* gone, the others have not begun.                                        *)
LEMMA RestartKeeps ==
    ASSUME Inv, P!Restart, UNCHANGED relay
    PROVE  Inv'
BY DEF Inv, Typed, Undialled, AnswersOnce, Streams, JoinsOnce, Told, Relayed, Unlaunched,
       P!Phases, P!Streaming, P!Restart, relay

(* A step of the server's handler.                                          *)
LEMMA ServerHandlerKeeps ==
    ASSUME Inv, NEW c \in Conns, S!Handler(c), UNCHANGED producer
    PROVE  Inv'
<1> USE NilAssumption
    DEF Inv, Typed, Undialled, AnswersOnce, Streams, JoinsOnce, Told, Relayed, Unlaunched,
        S!HandlerPhases, S!Goto, S!upstream, S!server, S!subs, producer
<1>1. CASE S!ReadRequest(c)
  BY <1>1 DEF S!ReadRequest
<1>2. CASE S!ReadRequestFails(c)
  BY <1>2 DEF S!ReadRequestFails
<1>3. CASE S!DialProducer(c)
  BY <1>3 DEF S!DialProducer
<1>4. CASE S!DialProducerFails(c)
  BY <1>4 DEF S!DialProducerFails
<1>5. CASE S!RequestFails(c)
  BY <1>5 DEF S!RequestFails, S!AfterFailedRequest, S!HangUp, S!Return
<1>6. CASE S!JoinHub(c)
  BY <1>6 DEF S!JoinHub, S!SameSession, S!SessionID, S!HangUp, S!Return
<1>7. CASE S!OtherSession(c)
  BY <1>7 DEF S!OtherSession, S!HangUp, S!Return, S!AfterMismatch
<1>8. CASE S!CreateHub(c)
  BY <1>8 DEF S!CreateHub, S!Return
<1>9. CASE S!AddConsumer(c)
  BY <1>9 DEF S!AddConsumer
<1>10. CASE S!AddConsumerFails(c)
  BY <1>10 DEF S!AddConsumerFails
<1>11. CASE S!WriteResponse(c)
  BY <1>11 DEF S!WriteResponse
<1>12. CASE S!WriteResponseFails(c)
  BY <1>12 DEF S!WriteResponseFails, S!AfterFailedWrite
<1>13. CASE S!WaitReturns(c)
  BY <1>13 DEF S!WaitReturns
<1>14. CASE S!RemoveConsumer(c)
  BY <1>14 DEF S!RemoveConsumer, S!Unsubscribe
<1>15. CASE S!StopReturns(c)
  BY <1>15 DEF S!StopReturns
<1>16. CASE S!CloseConsumer(c)
  BY <1>16 DEF S!CloseConsumer
<1> QED
  BY <1>1, <1>2, <1>3, <1>4, <1>5, <1>6, <1>7, <1>8, <1>9, <1>10, <1>11, <1>12, <1>13,
     <1>14, <1>15, <1>16 DEF S!Handler

(* A step of a writer, of a hub's runner or of Stop, or of a consumer.        *)
LEMMA HubKeeps ==
    ASSUME Inv, NEW c \in Conns, UNCHANGED producer,
           \/ S!Writer(c) \/ S!Hub(c) \/ S!Broadcast(c)
           \/ S!ClientDials(c) \/ S!ClientLeaves(c)
    PROVE  Inv'
<1> USE NilAssumption
    DEF Inv, Typed, Undialled, AnswersOnce, Streams, JoinsOnce, Told, Relayed, Unlaunched,
        S!upstream, S!server, S!subs, producer
<1>1. CASE S!WriteFrame(c)
  BY <1>1 DEF S!WriteFrame
<1>2. CASE S!WriteFrameFails(c)
  BY <1>2 DEF S!WriteFrameFails, S!WriterGoto, S!AfterLostFrame
<1>3. CASE S!WriterReleased(c)
  BY <1>3 DEF S!WriterReleased, S!WriterGoto
<1>4. CASE S!WriterRemoves(c)
  BY <1>4 DEF S!WriterRemoves, S!WriterGoto, S!Unsubscribe
<1>5. CASE S!WriterStopReturns(c)
  BY <1>5 DEF S!WriterStopReturns, S!WriterGoto
<1>6. CASE S!AcceptMedia(c) \/ S!RunEnds(c) \/ S!RunnerStopReturns(c)
  BY <1>6 DEF S!AcceptMedia, S!RunEnds, S!RunnerStopReturns
<1>7. CASE S!ClearMediaHub(c)
  BY <1>7 DEF S!ClearMediaHub, S!HubAfter
<1>8. CASE S!StopCancels(c)
  BY <1>8 DEF S!StopCancels, S!HangUp
<1>9. CASE S!StopDrains(c)
  BY <1>9 DEF S!StopDrains
<1>10. CASE S!Broadcast(c)
  BY <1>10 DEF S!Broadcast, S!Members
<1>11. CASE S!ClientDials(c) \/ S!ClientLeaves(c)
  BY <1>11 DEF S!ClientDials, S!ClientLeaves
<1> QED
  BY <1>1, <1>2, <1>3, <1>4, <1>5, <1>6, <1>7, <1>8, <1>9, <1>10, <1>11
     DEF S!Writer, S!WriterLeaves, S!Hub

LEMMA NextInv == Inv /\ [Next]_vars => Inv'
<1> SUFFICES ASSUME Inv, [Next]_vars PROVE Inv'
  OBVIOUS
<1>1. CASE P!PNext /\ UNCHANGED relay
  BY <1>1, HandlerKeeps, RestartKeeps DEF P!PNext
<1>2. CASE S!SNext /\ UNCHANGED producer
  BY <1>2, ServerHandlerKeeps, HubKeeps DEF S!SNext
<1>3. ASSUME NEW c \in Conns, LoseUpstream(c) PROVE Inv'
  BY <1>3 DEF LoseUpstream, Inv, Typed, Undialled, AnswersOnce, Streams, JoinsOnce,
     Told, Relayed, Unlaunched, producer, relay
<1>4. CASE UNCHANGED vars
  BY <1>4 DEF vars, Inv, Typed, Undialled, AnswersOnce, Streams, JoinsOnce,
     Told, Relayed, Unlaunched, producer, relay
<1> QED
  BY <1>1, <1>2, <1>3, <1>4 DEF Next

(* Frames of one session never reach a consumer that was told another, over  *)
(* reconnects, restarts of the producer and hubs that succeed each other     *)
(* (server/app.go:151-176, producer/app.go:195-214).                       *)
THEOREM FramesAlwaysMatch == Spec => []FramesMatchSession
<1>1. Inv => FramesMatchSession
  BY DEF Inv, Typed, Streams, Told, Relayed, FramesMatchSession
<1> QED
  BY <1>1, InitInv, NextInv, PTL DEF Spec
-----------------------------------------------------------------------------
(* Each program, run with the other one, still is the program that was       *)
(* proved about with the other left to its environment.  PP and SP give the  *)
(* theorems of the two; first, that they speak of the same actions.          *)
PP == INSTANCE ProducerSession_proofs
SP == INSTANCE ServerSession_proofs

LEMMA SameProducer ==
    /\ PP!PInit <=> P!PInit
    /\ [P!Next]_P!pvars => [PP!Next]_PP!pvars
<1>1. ASSUME NEW c \in Conns PROVE P!Handler(c) => PP!Handler(c)
  BY DEF P!Handler, PP!Handler,
         P!ReadRequest, PP!ReadRequest, P!ReadRequestFails, PP!ReadRequestFails,
         P!BuildResponse, PP!BuildResponse, P!BuildResponseFails,
         PP!BuildResponseFails, P!WriteResponse, PP!WriteResponse,
         P!WriteResponseFails, PP!WriteResponseFails, P!NewFFmpegSource,
         PP!NewFFmpegSource, P!NewFFmpegSourceFails, PP!NewFFmpegSourceFails,
         P!OpenStreamFails, PP!OpenStreamFails,
         P!SendFrame, PP!SendFrame, P!SendFrameFails, PP!SendFrameFails,
         P!CloseSource, PP!CloseSource, P!ClearActiveSession, PP!ClearActiveSession,
         P!CloseSession, PP!CloseSession, P!Goto, PP!Goto, P!SendEnds, PP!SendEnds,
         P!AfterSend, PP!AfterSend, P!AfterSource, PP!AfterSource, P!AfterClear,
         PP!AfterClear, P!SessionFor, PP!SessionFor, P!StartsMedia, PP!StartsMedia,
         P!AfterFailedWrite, PP!AfterFailedWrite
<1>2. ASSUME NEW c \in Conns PROVE P!Camera(c) => PP!Camera(c)
  BY DEF P!Camera, PP!Camera, P!NextPayload, PP!NextPayload,
         P!PayloadEnds, PP!PayloadEnds, P!SendEnds, PP!SendEnds, P!AfterSend,
         PP!AfterSend, P!Goto, PP!Goto
<1>3. P!Restart => PP!Restart
  BY DEF P!Restart, PP!Restart
<1>4. ASSUME NEW c \in Conns
      PROVE  P!EnvDial(c) \/ P!EnvDrop(c) => PP!EnvDial(c) \/ PP!EnvDrop(c)
  BY DEF P!EnvDial, PP!EnvDial, P!EnvDrop, PP!EnvDrop
<1> QED
  BY <1>1, <1>2, <1>3, <1>4
     DEF PP!PInit, P!PInit, P!Next, PP!Next, P!PNext, PP!PNext, P!pvars, PP!pvars

LEMMA SameServer ==
    /\ SP!SInit <=> S!SInit
    /\ [S!Next]_S!svars => [SP!Next]_SP!svars
<1> USE DEF S!upstream, SP!upstream, S!server, SP!server, S!subs, SP!subs, S!Goto,
            SP!Goto, S!Return, SP!Return, S!HangUp, SP!HangUp
<1>1. ASSUME NEW c \in Conns PROVE S!Handler(c) => SP!Handler(c)
  BY DEF S!Handler, SP!Handler,
         S!ReadRequest, SP!ReadRequest, S!ReadRequestFails, SP!ReadRequestFails,
         S!DialProducer, SP!DialProducer, S!DialProducerFails, SP!DialProducerFails,
         S!RequestFails, SP!RequestFails, S!JoinHub, SP!JoinHub, S!OtherSession,
         SP!OtherSession, S!CreateHub, SP!CreateHub, S!AddConsumer, SP!AddConsumer,
         S!AddConsumerFails, SP!AddConsumerFails, S!WriteResponse, SP!WriteResponse,
         S!WriteResponseFails, SP!WriteResponseFails, S!WaitReturns, SP!WaitReturns,
         S!RemoveConsumer, SP!RemoveConsumer, S!StopReturns, SP!StopReturns,
         S!CloseConsumer, SP!CloseConsumer, S!MayLock, SP!MayLock,
         S!AfterFailedRequest, SP!AfterFailedRequest, S!SessionID, SP!SessionID,
         S!SameSession, SP!SameSession, S!AfterMismatch, SP!AfterMismatch,
         S!AfterFailedWrite, SP!AfterFailedWrite, S!LastOut, SP!LastOut, S!Members,
         SP!Members, S!Unsubscribe, SP!Unsubscribe
<1>2. ASSUME NEW c \in Conns PROVE S!Writer(c) => SP!Writer(c)
  BY DEF S!Writer, SP!Writer, S!WriterLeaves, SP!WriterLeaves, S!WriteFrame,
         SP!WriteFrame, S!WriteFrameFails, SP!WriteFrameFails, S!WriterReleased,
         SP!WriterReleased, S!Released, SP!Released, S!WriterRemoves,
         SP!WriterRemoves, S!WriterStopReturns, SP!WriterStopReturns, S!WriterGoto,
         SP!WriterGoto, S!AfterLostFrame, SP!AfterLostFrame, S!LastOut, SP!LastOut, S!Members, SP!Members,
         S!Unsubscribe, SP!Unsubscribe
<1>3. ASSUME NEW h \in Conns PROVE S!Hub(h) \/ S!Broadcast(h) => SP!Hub(h) \/ SP!Broadcast(h)
  BY DEF S!Hub, SP!Hub, S!Broadcast, SP!Broadcast, S!AcceptMedia, SP!AcceptMedia,
         S!RunEnds, SP!RunEnds, S!RunnerStopReturns, SP!RunnerStopReturns,
         S!ClearMediaHub, SP!ClearMediaHub, S!StopCancels, SP!StopCancels,
         S!StopDrains, SP!StopDrains, S!StopCalled, SP!StopCalled, S!Drained,
         SP!Drained, S!HubAfter, SP!HubAfter, S!RunnerGoto, SP!RunnerGoto,
         S!AfterRun, SP!AfterRun, S!Members, SP!Members
<1>4. ASSUME NEW c \in Conns
      PROVE  S!ClientDials(c) \/ S!ClientLeaves(c) => SP!ClientDials(c) \/ SP!ClientLeaves(c)
  BY DEF S!ClientDials, SP!ClientDials, S!ClientLeaves, SP!ClientLeaves
<1>5. S!EnvNext => SP!EnvNext
  BY DEF S!EnvNext, SP!EnvNext, S!EnvReplies, SP!EnvReplies, S!EnvStreams,
         SP!EnvStreams, S!EnvEndsStream, SP!EnvEndsStream, S!EnvCloses, SP!EnvCloses
<1> QED
  BY <1>1, <1>2, <1>3, <1>4, <1>5
     DEF SP!SInit, S!SInit, S!Next, SP!Next, S!SNext, SP!SNext, S!svars, SP!svars

CInv == Inv /\ PP!IInv /\ SP!Inv

(* What the server does to the connections they share, any client of the     *)
(* producer may do: it dials a fresh connection and hangs up dialled ones.   *)
LEMMA ServerIsClient ==
    ASSUME CInv, S!SNext, UNCHANGED producer
    PROVE  [P!Next]_P!pvars
<1>1. SUFFICES \/ \E c \in Conns : P!EnvDial(c) \/ P!EnvDrop(c)
               \/ UNCHANGED P!pvars
  BY DEF P!Next
<1>2. link \in [Conns -> {"idle", "open", "closed"}]
  BY DEF CInv, Inv, Typed
<1>3. ASSUME NEW c \in Conns, S!HangUp(c), link[c] # "idle", resp' = resp, media' = media
      PROVE  P!EnvDrop(c) \/ UNCHANGED P!pvars
  BY <1>2, <1>3 DEF S!HangUp, P!EnvDrop, P!pvars, producer
<1>4. ASSUME NEW c \in Conns, spc[c] = "reply" PROVE link[c] # "idle"
  BY <1>4 DEF CInv, SP!Inv, SP!Support, SP!Dialled
<1> USE DEF S!upstream, producer, P!pvars
<1>5. ASSUME NEW c \in Conns, S!DialProducer(c) PROVE P!EnvDial(c)
  BY <1>5 DEF S!DialProducer, P!EnvDial, CInv, SP!Inv, SP!Support, SP!Dialled
<1>6. ASSUME NEW c \in Conns, S!RequestFails(c) \/ S!JoinHub(c) \/ S!OtherSession(c)
      PROVE  P!EnvDrop(c) \/ UNCHANGED P!pvars
  BY <1>3, <1>4, <1>6
     DEF S!RequestFails, S!AfterFailedRequest, S!JoinHub, S!OtherSession
<1>7. ASSUME NEW c \in Conns, S!StopCancels(c)
      PROVE  P!EnvDrop(c) \/ UNCHANGED P!pvars
  BY <1>3, <1>7 DEF S!StopCancels, CInv, SP!Inv, SP!Support, SP!Dialled
<1>8. ASSUME NEW c \in Conns,
             \/ S!ReadRequest(c) \/ S!ReadRequestFails(c) \/ S!DialProducerFails(c)
             \/ S!CreateHub(c) \/ S!AddConsumer(c) \/ S!AddConsumerFails(c)
             \/ S!WriteResponse(c) \/ S!WriteResponseFails(c) \/ S!WaitReturns(c)
             \/ S!RemoveConsumer(c) \/ S!StopReturns(c) \/ S!CloseConsumer(c)
             \/ S!Writer(c) \/ S!AcceptMedia(c) \/ S!RunEnds(c)
             \/ S!RunnerStopReturns(c) \/ S!ClearMediaHub(c) \/ S!StopDrains(c)
             \/ S!Broadcast(c) \/ S!ClientDials(c) \/ S!ClientLeaves(c)
      PROVE  UNCHANGED P!pvars
  BY <1>8
     DEF S!ReadRequest, S!ReadRequestFails, S!DialProducerFails, S!CreateHub,
         S!AddConsumer, S!AddConsumerFails, S!WriteResponse, S!WriteResponseFails,
         S!WaitReturns, S!RemoveConsumer, S!StopReturns, S!CloseConsumer, S!Writer,
         S!WriterLeaves, S!WriteFrame, S!WriteFrameFails, S!WriterReleased,
         S!WriterRemoves, S!WriterStopReturns, S!AcceptMedia, S!RunEnds,
         S!RunnerStopReturns, S!ClearMediaHub, S!StopDrains, S!Broadcast,
         S!ClientDials, S!ClientLeaves
<1> QED
  BY <1>5, <1>6, <1>7, <1>8 DEF S!SNext, S!Handler, S!Hub

LEMMA ProducerSteps == CInv /\ [Next]_vars => [P!Next]_P!pvars
<1> SUFFICES ASSUME CInv, [Next]_vars PROVE [P!Next]_P!pvars
  OBVIOUS
<1>1. CASE P!PNext
  BY <1>1 DEF P!Next
<1>2. CASE S!SNext /\ UNCHANGED producer
  BY <1>2, ServerIsClient
<1>3. ASSUME NEW c \in Conns, LoseUpstream(c) PROVE P!EnvDrop(c)
  BY <1>3 DEF LoseUpstream, P!EnvDrop, producer
<1>4. CASE UNCHANGED vars
  BY <1>4 DEF vars, producer, P!pvars
<1> QED
  BY <1>1, <1>2, <1>3, <1>4 DEF Next, P!Next

(* What the producer does to them, any producer may do: it answers once, with *)
(* some session, streams once, and hangs up.                               *)
LEMMA ProducerIsProducer ==
    ASSUME CInv, P!PNext, UNCHANGED relay
    PROVE  [S!Next]_S!svars
<1>1. SUFFICES S!EnvNext \/ UNCHANGED S!svars
  BY DEF S!Next
<1> USE DEF relay, S!subs, S!server, S!upstream, S!svars
<1>2. /\ link \in [Conns -> {"idle", "open", "closed"}]
      /\ resp \in [Conns -> Conns \cup {None}]
      /\ media \in [Conns -> {"none", "open", "fin"}]
      /\ \A c \in Conns : link[c] = "idle" => ppc[c] = "idle"
      /\ \A c \in Conns : ppc[c] = "write" => sess[c] \in Conns /\ resp[c] = None
      /\ \A c \in Conns : ppc[c] \in P!Streaming => resp[c] # None /\ media[c] # "fin"
  BY NilAssumption DEF P!Streaming, CInv, Inv, Typed, Undialled, AnswersOnce, Streams, PP!IInv, PP!PTypeOK
<1>3. ASSUME NEW c \in Conns, P!WriteResponse(c) PROVE S!EnvReplies(c)
  BY <1>2, <1>3 DEF P!WriteResponse, S!EnvReplies
<1>4. ASSUME NEW c \in Conns, P!SendFrame(c)
      PROVE  S!EnvStreams(c) \/ UNCHANGED S!svars
  BY <1>2, <1>4 DEF P!SendFrame, P!Streaming, S!EnvStreams
<1>5. ASSUME NEW c \in Conns, P!SendFrameFails(c) \/ P!PayloadEnds(c)
      PROVE  S!EnvEndsStream(c) \/ UNCHANGED S!svars
  BY <1>2, <1>5 DEF P!SendFrameFails, P!PayloadEnds, P!Streaming, P!SendEnds,
     S!EnvEndsStream
<1>6. ASSUME NEW c \in Conns, P!CloseSession(c) PROVE S!EnvNext \/ UNCHANGED S!svars
  <2>1. link[c] \in {"open", "closed"} /\ link' = [link EXCEPT ![c] = "closed"]
    BY <1>2, <1>6 DEF P!CloseSession
  <2>2. CASE link[c] = "closed"
    BY <2>1, <2>2, <1>2, <1>6 DEF P!CloseSession
  <2>3. CASE link[c] = "open"
    <3>1. link' = [d \in Conns |-> IF d \in {c} THEN "closed" ELSE link[d]]
      BY <2>1, <1>2
    <3>2. S!EnvCloses({c})
      BY <2>3, <3>1, <1>6 DEF S!EnvCloses, P!CloseSession
    <3> QED
      BY <3>2 DEF S!EnvNext
  <2> QED
    BY <2>1, <2>2, <2>3
<1>7. CASE P!Restart
  <2> DEFINE C == {c \in Conns : link[c] = "open"}
  <2>1. link' = [c \in Conns |-> IF c \in C THEN "closed" ELSE link[c]]
    BY <1>2, <1>7 DEF P!Restart
  <2>2. S!EnvCloses(C)
    BY <2>1, <1>7 DEF S!EnvCloses, P!Restart
  <2> QED
    BY <2>2 DEF S!EnvNext
<1>8. ASSUME NEW c \in Conns,
             \/ P!ReadRequest(c) \/ P!ReadRequestFails(c) \/ P!BuildResponse(c)
             \/ P!BuildResponseFails(c) \/ P!WriteResponseFails(c)
             \/ P!NewFFmpegSource(c) \/ P!NewFFmpegSourceFails(c)
             \/ P!OpenStreamFails(c) \/ P!NextPayload(c)
             \/ P!CloseSource(c) \/ P!ClearActiveSession(c)
      PROVE  UNCHANGED S!svars
  BY <1>8
     DEF P!ReadRequest, P!ReadRequestFails, P!BuildResponse, P!BuildResponseFails,
         P!WriteResponseFails, P!NewFFmpegSource, P!NewFFmpegSourceFails,
         P!OpenStreamFails, P!NextPayload, P!CloseSource, P!ClearActiveSession
<1> QED
  BY <1>3, <1>4, <1>5, <1>6, <1>7, <1>8 DEF P!PNext, P!Handler, P!Camera, S!EnvNext

LEMMA ServerSteps == CInv /\ [Next]_vars => [S!Next]_S!svars
<1> SUFFICES ASSUME CInv, [Next]_vars PROVE [S!Next]_S!svars
  OBVIOUS
<1>1. CASE P!PNext /\ UNCHANGED relay
  BY <1>1, ProducerIsProducer
<1>2. CASE S!SNext
  BY <1>2 DEF S!Next
<1>3. ASSUME NEW c \in Conns, LoseUpstream(c) PROVE S!EnvCloses({c})
  <2>1. link' = [d \in Conns |-> IF d \in {c} THEN "closed" ELSE link[d]]
    BY <1>3 DEF LoseUpstream, CInv, Inv, Typed
  <2> QED
    BY <2>1, <1>3 DEF LoseUpstream, S!EnvCloses, relay, S!subs, S!server
<1>4. CASE UNCHANGED vars
  BY <1>4 DEF vars, relay, S!svars, S!upstream, S!subs, S!server
<1> QED
  BY <1>1, <1>2, <1>3, <1>4 DEF Next, S!Next, S!EnvNext

LEMMA Composed == Spec => []CInv
<1>1. Init => CInv
  BY InitInv, PP!InitIInv, SP!InitInv, SameProducer, SameServer, NilAssumption
     DEF Init, CInv
<1>2. CInv /\ [Next]_vars => CInv'
  <2> SUFFICES ASSUME CInv, [Next]_vars PROVE CInv'
    OBVIOUS
  <2>1. [PP!Next]_PP!pvars /\ [SP!Next]_SP!svars
    BY ProducerSteps, ServerSteps, SameProducer, SameServer
  <2>2. PP!IInv'
    BY <2>1, PP!NextIInv, NilAssumption DEF CInv
  <2>3. SP!Inv'
    BY <2>1, SP!NextInv, NilAssumption DEF CInv
  <2> QED
    BY <2>2, <2>3, NextInv DEF CInv
<1> QED
  BY <1>1, <1>2, PTL DEF Spec

(* The server is one of the clients ProducerSession allows: whatever was     *)
(* shown of the producer with any client holds when it serves the server.   *)
THEOREM ProducerInSystem == Spec => P!SafetySpec
<1>1. Init => P!PInit
  BY DEF Init
<1> QED
  BY <1>1, Composed, ProducerSteps, PTL DEF Spec, P!SafetySpec

(* The producer is one of the producers ServerSession allows.                *)
THEOREM ServerInSystem == Spec => S!Spec
<1>1. Init => S!SInit
  BY DEF Init
<1> QED
  BY <1>1, Composed, ServerSteps, PTL DEF Spec, S!Spec

(* What each program promises, it keeps in the system: the session of a      *)
(* streaming connection is not taken from it and the camera is never shared;  *)
(* the server's state is well typed, hubs succeed one another, and no        *)
(* connection or subscription is forgotten.                                 *)
THEOREM PromisesKept ==
    Spec => [](/\ P!SessionKept /\ P!ExclusiveCamera
               /\ STypeOK /\ OneLiveHub /\ UpstreamAccounted /\ NoGhostSubscriber)
<1>1. CInv => P!SessionKept /\ P!ExclusiveCamera
  BY PP!IInvExclusive, NilAssumption
     DEF CInv, PP!IInv, PP!SessionKept, P!SessionKept, PP!UsesOwnSession, P!UsesOwnSession,
         PP!StartsMedia, P!StartsMedia, PP!Streaming, P!Streaming, PP!ExclusiveCamera, P!ExclusiveCamera
<1>2. CInv => OneLiveHub /\ UpstreamAccounted /\ NoGhostSubscriber
  BY DEF CInv, SP!Inv, OneLiveHub, SP!OneLiveHub, S!OneLiveHub, UpstreamAccounted,
         SP!UpstreamAccounted, S!UpstreamAccounted, NoGhostSubscriber,
         SP!NoGhostSubscriber, S!NoGhostSubscriber
<1>3. CInv => STypeOK
  BY DEF CInv, SP!Inv, SP!Support, SP!Typed, SP!JoinedHub, SP!NoGhostSubscriber,
         STypeOK, S!STypeOK, SP!HandlerPhases, S!HandlerPhases
<1> QED
  BY <1>1, <1>2, <1>3, Composed, PTL

(* The abstract lease is kept by the producer in the system as well: its     *)
(* session never passes from one connection of the server to another        *)
(* without a moment in which nobody holds it, restarts included.            *)
THEOREM LeaseInSystem == Spec => P!LeaseSpec
<1>1. Init => P!Lease!LeaseInit
  BY DEF Init, P!PInit, P!Lease!LeaseInit
<1>2. CInv /\ [Next]_vars => [P!Lease!LeaseNext]_P!Lease!leaseVars
  <2> SUFFICES ASSUME CInv, [Next]_vars
               PROVE  [P!Lease!LeaseNext]_P!Lease!leaseVars
    OBVIOUS
  <2>1. [PP!Lease!LeaseNext]_<<active, sess>>
    BY ProducerSteps, SameProducer, PP!NextLease, NilAssumption DEF CInv
  <2> QED
    BY <2>1 DEF P!Lease!LeaseNext, PP!Lease!LeaseNext, P!Lease!Ask, PP!Lease!Ask,
       P!Lease!Retire, PP!Lease!Retire, P!Lease!leaseVars
<1> QED
  BY <1>1, <1>2, Composed, PTL DEF Spec, P!LeaseSpec, P!Lease!LeaseSpec
-----------------------------------------------------------------------------
(* Whoever waits for stopOnce is not alone: someone is inside Stop, or may    *)
(* enter it.                                                               *)
LEMMA StopAnswers ==
    ASSUME CInv, Settled, NEW h \in Conns, S!StopCalled(h), stop[h] # "unborn"
    PROVE  stop[h] = "drained"
<1>1. stop[h] \in {"unborn", "live", "cancelled", "drained"}
  BY DEF CInv, SP!Inv, SP!Support, SP!Typed
<1> QED
  BY <1>1 DEF Settled, NobodyStops

LEMMA Unstuck == CInv /\ Settled => NobodyStuck
<1> SUFFICES ASSUME CInv, Settled, NEW c \in Conns
             PROVE  /\ spc[c] \in {"idle", "wait", "done"}
                    /\ ppc[c] \in {"idle", "done"} \cup P!Streaming
                    /\ wpc[c] \in {"off", "run", "done"}
                    /\ rpc[c] \in {"off", "accept", "relay", "done"}
                    /\ rpc[c] = "accept" => ppc[c] = "send" /\ ~Stalled(c)
  BY DEF NobodyStuck
<1>1. \A d \in Conns : ProducerWaits(d) /\ HandlerWaits(d) /\ WriterWaits(d) /\ RunnerWaits(d)
  BY DEF Settled
<1>2. hubMu = None
  <2>1. \A d \in Conns : spc[d] # "reply"
    BY <1>1 DEF HandlerWaits
  <2> QED
    BY <2>1 DEF CInv, SP!Inv, SP!Support, SP!Typed, SP!LockHolder
<1>3. joined[c] # None => joined[c] \in Conns /\ stop[joined[c]] # "unborn"
  BY DEF CInv, SP!Inv, SP!Support, SP!Typed, SP!Born
<1>4. spc[c] \in {"idle", "wait", "done"}
  <2>1. spc[c] # "stop"
    <3> SUFFICES ASSUME spc[c] = "stop" PROVE FALSE
      OBVIOUS
    <3>1. joined[c] \in Conns /\ stop[joined[c]] # "unborn"
      BY <1>3, NilAssumption DEF CInv, SP!Inv, SP!Support, SP!JoinedHub
    <3>2. stop[joined[c]] = "drained"
      BY <3>1, StopAnswers DEF S!StopCalled
    <3> QED
      BY <3>2, <1>1 DEF HandlerWaits
  <2> QED
    BY <2>1, <1>1, <1>2 DEF HandlerWaits
<1>5. wpc[c] \in {"off", "run", "done"}
  <2>1. wpc[c] # "stop"
    <3> SUFFICES ASSUME wpc[c] = "stop" PROVE FALSE
      OBVIOUS
    <3>1. joined[c] \in Conns /\ stop[joined[c]] # "unborn"
      BY <1>3 DEF CInv, SP!Inv, SP!Support, SP!Born
    <3>2. stop[joined[c]] = "drained"
      BY <3>1, StopAnswers DEF S!StopCalled
    <3> QED
      BY <3>2, <1>1 DEF WriterWaits
  <2> QED
    BY <2>1, <1>1 DEF WriterWaits
<1>6. rpc[c] \in {"off", "accept", "relay", "done"}
  <2>1. rpc[c] # "stop"
    BY <1>1, StopAnswers DEF S!StopCalled, RunnerWaits, CInv, SP!Inv, SP!Support, SP!Born
  <2> QED
    BY <2>1, <1>1, <1>2 DEF RunnerWaits
<1>7. ASSUME rpc[c] = "accept" PROVE ppc[c] = "send" /\ ~Stalled(c)
  <2>1. stop[c] = "live" /\ link[c] # "closed" /\ (link[c] = "open" => media[c] = "none")
    BY <1>1, <1>7 DEF RunnerWaits
  <2>2. link[c] = "open"
    BY <2>1 DEF CInv, SP!Inv, SP!Support, SP!Typed, SP!Dialled
  <2>3. ppc[c] # "done"
    BY <2>2 DEF CInv, PP!IInv, PP!HungUp
  <2> QED
    BY <2>1, <2>2, <2>3, <1>1 DEF ProducerWaits, Stalled
<1> QED
  BY <1>1, <1>4, <1>5, <1>6, <1>7 DEF ProducerWaits, P!Streaming

(* Neither the order of the locks nor a lost connection or restart leaves a   *)
(* goroutine of either program waiting for another one (hubMu over the dial, *)
(* server/app.go:151-199; stopOnce, media_hub.go:145-160).                  *)
THEOREM NobodyIsStuck == Spec => []NobodyStuck
<1>1. CInv => NobodyStuck
  BY Unstuck DEF NobodyStuck
<1> QED
  BY <1>1, Composed, PTL

(* What ServerSession_proofs adds about consumers that wait (Waiters).        *)
LEMMA WaitersInSystem == Spec => []SP!Waiters
<1>1. Init => SP!Waiters
  BY SP!InitWaiters, SameServer, NilAssumption DEF Init
<1>2. CInv /\ SP!Waiters /\ [Next]_vars => SP!Waiters'
  BY ServerSteps, SameServer, SP!NextWaiters, NilAssumption DEF CInv
<1> QED
  BY <1>1, <1>2, Composed, PTL DEF Spec

(* At rest a camera that runs is the hub's or stalls, and a hub that was      *)
(* started has it.                                                         *)
LEMMA CameraAtRest ==
    ASSUME CInv, Settled
    PROVE  /\ \A c \in camera : hub = c \/ Stalled(c)
           /\ hub # None /\ rpc[hub] # "off"
                => active = hub /\ ppc[hub] \in P!Streaming /\ link[hub] = "open"
<1>1. \A c \in Conns : ProducerWaits(c) /\ HandlerWaits(c) /\ RunnerWaits(c)
  BY DEF Settled
<1>2. /\ link \in [Conns -> {"idle", "open", "closed"}] /\ hub \in Conns \cup {None}
      /\ camera \subseteq Conns
      /\ \A c \in Conns : link[c] = "idle" => ppc[c] = "idle"
      /\ \A c \in Conns : ppc[c] = "done" => link[c] = "closed"
  BY DEF CInv, PP!IInv, PP!PTypeOK, PP!MediaPhasesOwned, PP!HungUp, Inv, Typed
<1>3. ASSUME NEW c \in camera, ~Stalled(c) PROVE hub = c
  <2>1. link[c] = "open"
    BY <1>1, <1>2, <1>3
       DEF ProducerWaits, Stalled, CInv, PP!IInv, PP!CameraPhases, PP!Streaming
  <2> QED
    BY <2>1, <1>1, <1>2 DEF HandlerWaits, CInv, SP!Inv, SP!UpstreamAccounted
<1>4. ASSUME hub # None, rpc[hub] # "off"
      PROVE  active = hub /\ ppc[hub] \in P!Streaming /\ link[hub] = "open"
  <2>1. hub \in Conns /\ rpc[hub] \in {"off", "accept", "relay", "done"}
    BY <1>2, <1>4, Unstuck DEF NobodyStuck
  <2>2. rpc[hub] \in {"accept", "relay"}
    BY <2>1, <1>4 DEF CInv, SP!Inv, SP!Support, SP!Born
  <2>3. stop[hub] = "live" /\ link[hub] # "closed"
    BY <2>1, <2>2, <1>1 DEF RunnerWaits
  <2>4. link[hub] = "open"
    BY <2>1, <2>3, <1>2 DEF CInv, SP!Inv, SP!Support, SP!Dialled
  <2>5. ppc[hub] \in P!Streaming
    BY <2>1, <2>4, <1>1, <1>2 DEF ProducerWaits, P!Streaming
  <2>6. active = hub
    BY <2>1, <2>5 DEF CInv, PP!IInv, PP!SessionKept, PP!MediaPhasesOwned,
       PP!UsesOwnSession, PP!Streaming, P!Streaming
  <2> QED
    BY <2>4, <2>5, <2>6
<1> QED
  BY <1>3, <1>4

(* Whoever waits at rest is subscribed.  If its hub is live, that is the hub, *)
(* its writer runs, and it was told what the hub was told (Told): the session *)
(* streamed on the hub's connection (Streams).                              *)
LEMMA WaitersAtRest ==
    ASSUME CInv, SP!Waiters, Settled, NEW c \in Conns, spc[c] = "wait"
    PROVE  \/ Served(c) /\ rpc[hub] # "off"
           \/ S!Stranded(c)
<1>1. /\ HandlerWaits(c) /\ WriterWaits(c)
      /\ \A h \in Conns : NobodyStops(h)
  BY DEF Settled
<1>2. /\ joined[c] \in Conns /\ stop[joined[c]] # "unborn"
      /\ stop[joined[c]] \in {"unborn", "live", "cancelled", "drained"}
  BY NilAssumption DEF CInv, SP!Inv, SP!Support, SP!JoinedHub, SP!Born, SP!Typed
<1>3. c \notin closed
  BY <1>1 DEF HandlerWaits
<1>4. /\ c \in subscribed /\ wpc[c] # "off" /\ rpc[joined[c]] # "off"
      /\ wpc[c] \in {"stop", "done"} => stop[joined[c]] # "live"
  BY <1>3 DEF SP!Waiters, SP!Accounted, SP!Started, SP!WriterLeftForCause
<1>5. wpc[c] \in {"off", "run", "done"}
  BY Unstuck DEF NobodyStuck
<1>6. CASE stop[joined[c]] = "live"
  <2>1. joined[c] = hub /\ hub \in Conns /\ wpc[c] = "run" /\ hub # None
    BY <1>2, <1>4, <1>5, <1>6, NilAssumption DEF CInv, SP!Inv, SP!OneLiveHub
  <2>2. active = hub /\ ppc[hub] \in P!Streaming
    BY <2>1, <1>4, CameraAtRest
  <2>3. resp[hub] = hub /\ resp[c] = resp[hub]
    BY <2>1, <2>2 DEF CInv, Inv, Streams, Told
  <2> QED
    BY <2>1, <2>2, <2>3, <1>4 DEF Served
<1>7. CASE stop[joined[c]] # "live"
  <2>1. stop[joined[c]] = "drained"
    BY <1>1, <1>2, <1>7 DEF NobodyStops
  <2>2. wpc[c] = "done"
    BY <2>1, <1>1, <1>4, <1>5 DEF WriterWaits
  <2> QED
    BY <2>1, <2>2, <1>3, <1>4 DEF S!Stranded
<1> QED
  BY <1>6, <1>7

(* Once the two programs have come to rest: a camera that runs is the hub's   *)
(* unless ffmpeg stalls, a hub that was started has it, and who waits is      *)
(* served by it or stranded (producer/app.go:142-223, server/app.go:98-208, media_hub.go:104-300).    *)
THEOREM CameraIsServed == Spec => []CameraServesHub
<1>1. CInv /\ SP!Waiters => CameraServesHub
  BY CameraAtRest, WaitersAtRest DEF CameraServesHub
<1> QED
  BY <1>1, Composed, WaitersInSystem, PTL

(* What a stalled ffmpeg costs (sender.go:49).  The handler that waits for it *)
(* on a lost connection keeps its session active, and while that is so, the   *)
(* programs come to rest only with nobody served: every handshake is answered *)
(* with a session whose frames no connection carries.                       *)
THEOREM StallServesNobody ==
    Spec => [](Settled => \A c \in Conns : Stalled(c) =>
                  /\ active = c
                  /\ \A d \in Conns : spc[d] = "wait" => S!Stranded(d))
<1> SUFFICES ASSUME CInv, SP!Waiters, Settled
             PROVE  \A c \in Conns : Stalled(c) =>
                       /\ active = c
                       /\ \A d \in Conns : spc[d] = "wait" => S!Stranded(d)
  BY Composed, WaitersInSystem, PTL
<1>1. ASSUME NEW c \in Conns, Stalled(c)
      PROVE  active = c /\ \A d \in Conns : spc[d] = "wait" => S!Stranded(d)
  <2>1. active = c
    BY <1>1 DEF Stalled, CInv, PP!IInv, PP!SessionKept, PP!MediaPhasesOwned,
       PP!UsesOwnSession, PP!Streaming
  <2>2. ASSUME NEW d \in Conns, spc[d] = "wait", Served(d), rpc[hub] # "off" PROVE FALSE
    <3>1. hub # None
      BY <1>1, <2>2, NilAssumption DEF Served, CInv, SP!Inv, SP!Support, SP!JoinedHub
    <3>2. active = hub /\ link[hub] = "open"
      BY <1>1, <2>2, <3>1, CameraAtRest
    <3> QED
      BY <1>1, <2>1, <3>2 DEF Stalled
  <2> QED
    BY <1>1, <2>1, <2>2, WaitersAtRest
<1> QED
  BY <1>1
-----------------------------------------------------------------------------
(* HubCleared fails (server/app.go:134).  How far that goes.  A hub nobody    *)
(* started, whose consumers have all given up, and whose session the         *)
(* producer has dropped: no handler can be answered with it any more, so     *)
(* none joins and starts the hub, and no runner will ever clear it.          *)
Wedged(h) ==
    /\ hub = h /\ rpc[h] = "off"
    /\ resp[h] # None /\ active # resp[h] /\ ppc[resp[h]] \notin {"idle", "build"}
    /\ \A c \in Conns :
        /\ joined[c] = h => spc[c] \in {"remove", "stop", "close", "done"}
        /\ spc[c] \in {"idle", "lock", "reply"} => resp[c] # resp[h]
        /\ ppc[c] = "write" => sess[c] # resp[h]

(* A handshake that gets a consumer to a hub.                                *)
Admits(c) == spc[c] # "add" /\ spc'[c] = "add"

LEMMA ProducerLeavesWedged ==
    ASSUME Inv, NEW h \in Conns, Wedged(h), NEW c \in Conns,
           P!Handler(c) \/ P!Camera(c), UNCHANGED relay
    PROVE  Wedged(h)'
<1> USE NilAssumption DEF Inv, Typed, AnswersOnce, P!Phases, P!Streaming, P!Goto, relay,
        Wedged
<1>1. CASE P!ReadRequest(c) \/ P!ReadRequestFails(c)
  BY <1>1 DEF P!ReadRequest, P!ReadRequestFails
<1>2. CASE P!BuildResponse(c)
  BY <1>2 DEF P!BuildResponse, P!SessionFor
<1>3. CASE P!BuildResponseFails(c)
  BY <1>3 DEF P!BuildResponseFails
<1>4. CASE P!WriteResponse(c)
  BY <1>4 DEF P!WriteResponse
<1>5. CASE P!WriteResponseFails(c)
  BY <1>5 DEF P!WriteResponseFails, P!AfterFailedWrite
<1>6. CASE P!NewFFmpegSource(c) \/ P!NewFFmpegSourceFails(c) \/ P!OpenStreamFails(c)
  BY <1>6 DEF P!NewFFmpegSource, P!NewFFmpegSourceFails, P!OpenStreamFails, P!AfterSend
<1>7. CASE P!NextPayload(c) \/ P!SendFrame(c)
  BY <1>7 DEF P!NextPayload, P!SendFrame
<1>8. CASE P!SendFrameFails(c) \/ P!PayloadEnds(c)
  BY <1>8 DEF P!SendFrameFails, P!PayloadEnds, P!SendEnds, P!AfterSend
<1>9. CASE P!CloseSource(c) \/ P!CloseSession(c)
  BY <1>9 DEF P!CloseSource, P!AfterSource, P!CloseSession
<1>10. CASE P!ClearActiveSession(c)
  BY <1>10 DEF P!ClearActiveSession, P!AfterClear
<1> QED
  BY <1>1, <1>2, <1>3, <1>4, <1>5, <1>6, <1>7, <1>8, <1>9, <1>10
     DEF P!Handler, P!Camera

LEMMA HandlerLeavesWedged ==
    ASSUME Inv, NEW h \in Conns, Wedged(h), NEW c \in Conns, S!Handler(c),
           UNCHANGED producer
    PROVE  Wedged(h)' /\ \A d \in Conns : ~Admits(d)
<1> USE NilAssumption
    DEF Inv, Typed, JoinsOnce, S!HandlerPhases, S!Goto, S!upstream, S!server, S!subs,
        producer, Wedged, Admits
<1>1. CASE S!ReadRequest(c) \/ S!ReadRequestFails(c)
  BY <1>1 DEF S!ReadRequest, S!ReadRequestFails
<1>2. CASE S!DialProducer(c) \/ S!DialProducerFails(c)
  BY <1>2 DEF S!DialProducer, S!DialProducerFails
<1>3. CASE S!RequestFails(c) \/ S!OtherSession(c)
  BY <1>3 DEF S!RequestFails, S!OtherSession, S!Return, S!AfterMismatch
<1>4. ~ S!JoinHub(c) /\ ~ S!CreateHub(c)
  BY DEF S!JoinHub, S!SameSession, S!SessionID, S!CreateHub
<1>5. CASE S!AddConsumer(c) \/ S!AddConsumerFails(c)
  BY <1>5 DEF S!AddConsumer, S!AddConsumerFails
<1>6. CASE S!WriteResponse(c)
  BY <1>6 DEF S!WriteResponse
<1>7. CASE S!WriteResponseFails(c) \/ S!WaitReturns(c)
  BY <1>7 DEF S!WriteResponseFails, S!AfterFailedWrite, S!WaitReturns
<1>8. CASE S!RemoveConsumer(c)
  BY <1>8 DEF S!RemoveConsumer
<1>9. CASE S!StopReturns(c) \/ S!CloseConsumer(c)
  BY <1>9 DEF S!StopReturns, S!CloseConsumer
<1> QED
  BY <1>1, <1>2, <1>3, <1>4, <1>5, <1>6, <1>7, <1>8, <1>9 DEF S!Handler

LEMMA RestLeavesWedged ==
    ASSUME Inv, NEW h \in Conns, Wedged(h), NEW c \in Conns, UNCHANGED producer,
           \/ S!Writer(c) \/ S!Hub(c) \/ S!Broadcast(c)
           \/ S!ClientDials(c) \/ S!ClientLeaves(c)
    PROVE  Wedged(h)' /\ \A d \in Conns : ~Admits(d)
<1> USE NilAssumption
    DEF Inv, Typed, S!upstream, S!server, S!subs, producer, Wedged, Admits
<1>1. CASE S!Writer(c)
  BY <1>1 DEF S!Writer, S!WriterLeaves, S!WriteFrame, S!WriteFrameFails,
     S!WriterReleased, S!WriterRemoves, S!WriterStopReturns
<1>2. CASE S!AcceptMedia(c) \/ S!RunEnds(c) \/ S!RunnerStopReturns(c)
  <2>1. c # h /\ \E phase \in {"relay", "stop", "clear"} : rpc' = [rpc EXCEPT ![c] = phase]
    BY <1>2 DEF S!AcceptMedia, S!RunEnds, S!RunnerStopReturns, S!RunnerGoto, S!AfterRun
  <2>2. rpc'[h] = "off"
    BY <2>1
  <2> QED
    BY <1>2, <2>2 DEF S!AcceptMedia, S!RunEnds, S!RunnerStopReturns
<1>3. CASE S!ClearMediaHub(c)
  BY <1>3 DEF S!ClearMediaHub, S!HubAfter, S!RunnerGoto
<1>4. CASE S!StopCancels(c) \/ S!StopDrains(c)
  BY <1>4 DEF S!StopCancels, S!StopDrains
<1>5. CASE S!Broadcast(c) \/ S!ClientDials(c) \/ S!ClientLeaves(c)
  BY <1>5 DEF S!Broadcast, S!ClientDials, S!ClientLeaves
<1> QED
  BY <1>1, <1>2, <1>3, <1>4, <1>5 DEF S!Hub

(* It is for good: not even a restart of the producer, which names its        *)
(* sessions anew, gets the server out of it.  From then on no handshake      *)
(* gets a consumer to a hub (prepareMediaHub, server/app.go:151-199).         *)
THEOREM WedgedForEver ==
    Spec => [][\A h \in Conns :
                  Wedged(h) => Wedged(h)' /\ \A c \in Conns : ~Admits(c)]_vars
<1>1. Inv /\ [Next]_vars
        => [\A h \in Conns : Wedged(h) => Wedged(h)' /\ \A c \in Conns : ~Admits(c)]_vars
  <2> SUFFICES ASSUME Inv, Next, NEW h \in Conns, Wedged(h)
               PROVE  Wedged(h)' /\ \A c \in Conns : ~Admits(c)
    OBVIOUS
  <2>1. CASE P!PNext /\ UNCHANGED relay
    <3>1. \A c \in Conns : ~Admits(c)
      BY <2>1 DEF relay, Admits
    <3>2. CASE P!Restart
      BY <2>1, <3>1, <3>2 DEF P!Restart, relay, Wedged, Inv, Typed, Undialled
    <3> QED
      BY <2>1, <3>1, <3>2, ProducerLeavesWedged DEF P!PNext
  <2>2. CASE S!SNext /\ UNCHANGED producer
    BY <2>2, HandlerLeavesWedged, RestLeavesWedged DEF S!SNext
  <2>3. ASSUME NEW c \in Conns, LoseUpstream(c)
        PROVE  Wedged(h)' /\ \A d \in Conns : ~Admits(d)
    BY <2>3 DEF LoseUpstream, producer, relay, Wedged, Admits
  <2> QED
    BY <2>1, <2>2, <2>3 DEF Next
<1>2. Spec => []Inv
  BY InitInv, NextInv, PTL DEF Spec
<1> QED
  BY <1>1, <1>2, PTL DEF Spec

(* What ProducerSession_proofs knows of the sessions that were named (LInv).  *)
LEMMA NamesInSystem == Spec => []PP!LInv
<1>1. Init => PP!LInv
  BY PP!InitLInv, SameProducer, NilAssumption DEF Init
<1>2. CInv /\ PP!LInv /\ [Next]_vars => PP!LInv'
  BY ProducerSteps, SameProducer, PP!NextLInv, NilAssumption DEF CInv
<1> QED
  BY <1>1, <1>2, Composed, PTL DEF Spec

(* A hub that was not started when the programs have come to rest has no      *)
(* consumers left, and the next one either is told its session, joins it and  *)
(* starts it, or finds the server wedged (server/app.go:125-148, 151-176).     *)
THEOREM UnstartedAtRest ==
    Spec => [](Settled /\ hub # None /\ rpc[hub] = "off" =>
                 /\ \A c \in Conns : joined[c] = hub => spc[c] = "done" /\ client[c] = "gone"
                 /\ active = resp[hub] \/ Wedged(hub))
<1> SUFFICES ASSUME CInv, SP!Waiters, PP!LInv, Settled, hub # None, rpc[hub] = "off"
             PROVE  /\ \A c \in Conns :
                         joined[c] = hub => spc[c] = "done" /\ client[c] = "gone"
                    /\ active = resp[hub] \/ Wedged(hub)
  BY Composed, WaitersInSystem, NamesInSystem, PTL
<1>1. /\ hub \in Conns
      /\ \A c \in Conns : ProducerWaits(c)
      /\ \A c \in Conns : spc[c] \in {"idle", "wait", "done"}
  BY Unstuck DEF CInv, Inv, Typed, Settled, NobodyStuck
<1>2. ASSUME NEW c \in Conns, joined[c] = hub
      PROVE  spc[c] = "done" /\ client[c] = "gone"
  BY <1>1, <1>2 DEF CInv, Inv, JoinsOnce, SP!Waiters, SP!Started, SP!GoodBye
<1>3. resp[hub] # None /\ resp[hub] \in Conns
  <2>1. joined[hub] = hub
    BY <1>1 DEF SP!Waiters, SP!Founded, CInv, SP!Inv, SP!Support, SP!Born
  <2> QED
    BY <1>1, <2>1 DEF CInv, Inv, Typed, Told
<1>4. ppc[resp[hub]] \notin {"idle", "build"}
  BY <1>1, <1>3 DEF PP!LInv, PP!NamedWasMade
<1>5. ASSUME NEW c \in Conns, spc[c] \in {"idle", "lock", "reply"} PROVE resp[c] = None
  BY <1>1, <1>5 DEF CInv, Inv, Undialled, AnswersOnce, SP!Inv, SP!Support, SP!Dialled
<1>6. \A c \in Conns : ppc[c] # "write"
  BY <1>1 DEF ProducerWaits
<1> QED
  BY <1>2, <1>3, <1>4, <1>5, <1>6 DEF Wedged

(* ActiveSessionServed fails as well (producer/app.go:174).  What that does    *)
(* to the server's consumers: while a session is left behind, whenever the    *)
(* programs have come to rest the camera is off and no consumer is served,   *)
(* only stranded ones still wait; and only a restart of the producer ends it. *)
THEOREM LeakServesNobody ==
    Spec => /\ [](~P!ActiveSessionServed /\ Settled =>
                     camera = {} /\ \A c \in Conns : spc[c] = "wait" => S!Stranded(c))
            /\ [][~P!ActiveSessionServed => P!Restart \/ ~P!ActiveSessionServed']_vars
<1>1. ASSUME CInv, SP!Waiters, ~P!ActiveSessionServed, Settled
      PROVE  camera = {} /\ \A c \in Conns : spc[c] = "wait" => S!Stranded(c)
  <2>1. ASSUME NEW c \in camera PROVE FALSE
    <3>1. c \in Conns /\ ppc[c] \in {"closeSource"} \cup P!Streaming
      BY <1>1 DEF CInv, PP!IInv, PP!PTypeOK, PP!CameraPhases, PP!Streaming, P!Streaming
    <3>2. sess[c] = c /\ active = c
      BY <1>1, <3>1 DEF CInv, PP!IInv, PP!MediaPhasesOwned, PP!SessionKept,
         PP!UsesOwnSession, PP!StartsMedia, PP!Streaming, P!Streaming
    <3> QED
      BY <1>1, <3>1, <3>2 DEF P!ActiveSessionServed, P!UsesOwnSession, P!StartsMedia
  <2>2. ASSUME NEW c \in Conns, spc[c] = "wait", Served(c), rpc[hub] # "off" PROVE FALSE
    <3>1. hub \in Conns /\ hub # None
      BY <1>1, <2>2, NilAssumption DEF Served, CInv, SP!Inv, SP!Support, SP!JoinedHub
    <3>2. active = hub /\ ppc[hub] \in P!Streaming
      BY <1>1, <2>2, <3>1, CameraAtRest
    <3>3. sess[hub] = hub
      BY <1>1, <3>1, <3>2 DEF CInv, Inv, Streams
    <3> QED
      BY <1>1, <3>2, <3>3 DEF P!ActiveSessionServed, P!UsesOwnSession, P!StartsMedia
  <2> QED
    BY <1>1, <2>1, <2>2, WaitersAtRest
<1>2. CInv /\ PP!LInv /\ [Next]_vars
        => [~P!ActiveSessionServed => P!Restart \/ ~P!ActiveSessionServed']_vars
  <2> SUFFICES ASSUME CInv, PP!LInv, Next, ~P!ActiveSessionServed, ~P!Restart
               PROVE  ~P!ActiveSessionServed'
    OBVIOUS
  <2> USE DEF P!ActiveSessionServed, PP!ActiveSessionServed, P!UsesOwnSession,
              PP!UsesOwnSession, P!StartsMedia, PP!StartsMedia, P!Streaming,
              PP!Streaming, PP!Leaked
  <2>1. [PP!Next]_PP!pvars
    BY ProducerSteps, SameProducer
  <2>2. ~PP!Restart /\ PP!Leaked
    BY DEF P!Restart, PP!Restart
  <2>3. CASE UNCHANGED PP!pvars
    BY <2>3 DEF PP!pvars
  <2>4. CASE PP!Next
    BY <2>2, <2>4, PP!LeakStep, NilAssumption DEF CInv
  <2> QED
    BY <2>1, <2>3, <2>4
<1> QED
  BY <1>1, <1>2, Composed, WaitersInSystem, NamesInSystem, PTL DEF Spec
-----------------------------------------------------------------------------
(* The steps a goroutine has left at most, from the place it has reached.     *)
(* A producer's handler also opens its media stream, without moving on.  The *)
(* camera takes it round the loop of SendSignedFrames.                      *)
ProducerLeft(c) ==
    (CASE ppc[c] = "idle" -> 8 [] ppc[c] = "build" -> 7 [] ppc[c] = "write" -> 6
       [] ppc[c] = "source" -> 5 [] ppc[c] \in P!Streaming -> 4
       [] ppc[c] = "closeSource" -> 3
       [] ppc[c] = "clear" -> 2 [] ppc[c] = "close" -> 1 [] ppc[c] = "done" -> 0)
    + (IF media[c] = "none" THEN 1 ELSE 0)

HandlerLeft(c) ==
    CASE spc[c] = "idle" -> 9 [] spc[c] = "lock" -> 8 [] spc[c] = "reply" -> 7
      [] spc[c] = "add" -> 6 [] spc[c] = "write" -> 5 [] spc[c] = "wait" -> 4
      [] spc[c] = "remove" -> 3 [] spc[c] = "stop" -> 2 [] spc[c] = "close" -> 1
      [] spc[c] = "done" -> 0

WriterLeft(c) ==
    CASE wpc[c] = "off" -> 4 [] wpc[c] = "run" -> 3 [] wpc[c] = "remove" -> 2
      [] wpc[c] = "stop" -> 1 [] wpc[c] = "done" -> 0

RunnerLeft(h) ==
    CASE rpc[h] = "off" -> 5 [] rpc[h] = "accept" -> 4 [] rpc[h] = "relay" -> 3
      [] rpc[h] = "stop" -> 2 [] rpc[h] = "clear" -> 1 [] rpc[h] = "done" -> 0

StopLeft(h) ==
    CASE stop[h] = "unborn" -> 3 [] stop[h] = "live" -> 2
      [] stop[h] = "cancelled" -> 1 [] stop[h] = "drained" -> 0

(* So there are at most 30 for each connection.                             *)
StepsLeft(c) ==
    ProducerLeft(c) + HandlerLeft(c) + WriterLeft(c) + RunnerLeft(c) + StopLeft(c)

(* No step of the outside world, of the camera or of a frame on its way gives *)
(* a goroutine work it has done before, and every step of Progress uses up    *)
(* one of those left: from wherever it is, the system settles.              *)
StepsRunOut ==
    [][/\ \A c \in Conns : StepsLeft(c)' <= StepsLeft(c)
       /\ Progress => \E c \in Conns : StepsLeft(c)' < StepsLeft(c)]_vars

Counted ==
    \A c \in Conns :
        /\ ProducerLeft(c) \in Nat /\ HandlerLeft(c) \in Nat
        /\ WriterLeft(c) \in Nat /\ RunnerLeft(c) \in Nat /\ StopLeft(c) \in Nat

LEMMA StepsAreCounted == CInv => Counted
<1> SUFFICES ASSUME CInv, NEW c \in Conns
             PROVE  /\ ProducerLeft(c) \in Nat /\ HandlerLeft(c) \in Nat
                    /\ WriterLeft(c) \in Nat /\ RunnerLeft(c) \in Nat
                    /\ StopLeft(c) \in Nat
  BY DEF Counted
<1>1. /\ ppc[c] \in P!Phases /\ spc[c] \in S!HandlerPhases
      /\ wpc[c] \in {"off", "run", "remove", "stop", "done"}
      /\ rpc[c] \in {"off", "accept", "relay", "stop", "clear", "done"}
      /\ stop[c] \in {"unborn", "live", "cancelled", "drained"}
  BY DEF CInv, Inv, Typed, SP!Inv, SP!Support, SP!Typed
<1>2. ProducerLeft(c) \in Nat
  BY <1>1 DEF P!Phases, P!Streaming, ProducerLeft
<1>3. HandlerLeft(c) \in Nat
  BY <1>1 DEF S!HandlerPhases, HandlerLeft
<1> QED
  BY <1>1, <1>2, <1>3 DEF WriterLeft, RunnerLeft, StopLeft

(* A handler of the producer moves on, and is alone in it; the camera and the *)
(* frames after the first keep it where it is.                             *)
LEMMA ProducerMovesOn ==
    ASSUME CInv, NEW c \in Conns, P!Handler(c) \/ P!Camera(c)
    PROVE  /\ \A d \in Conns \ {c} : ProducerLeft(d)' = ProducerLeft(d)
           /\ ProducerLeft(c)' <= ProducerLeft(c)
           /\ P!Handler(c) /\ (P!SendFrame(c) => media[c] = "none")
                => ProducerLeft(c)' < ProducerLeft(c)
<1> USE DEF P!Goto, P!Phases, P!Streaming, ProducerLeft
<1>0. /\ media \in [Conns -> {"none", "open", "fin"}] /\ ppc \in [Conns -> P!Phases]
      /\ ppc[c] \in P!Streaming => media[c] # "fin"
  BY DEF CInv, Inv, Typed, Streams
<1>1. CASE P!ReadRequest(c) \/ P!ReadRequestFails(c)
  BY <1>0, <1>1 DEF P!ReadRequest, P!ReadRequestFails
<1>2. CASE P!BuildResponse(c) \/ P!BuildResponseFails(c)
  BY <1>0, <1>2 DEF P!BuildResponse, P!BuildResponseFails
<1>3. CASE P!WriteResponse(c) \/ P!WriteResponseFails(c)
  BY <1>0, <1>3 DEF P!WriteResponse, P!WriteResponseFails, P!AfterFailedWrite
<1>4. CASE P!NewFFmpegSource(c) \/ P!NewFFmpegSourceFails(c) \/ P!OpenStreamFails(c)
  BY <1>0, <1>4 DEF P!NewFFmpegSource, P!NewFFmpegSourceFails, P!OpenStreamFails, P!AfterSend
<1>5. CASE P!SendFrame(c)
  BY <1>0, <1>5 DEF P!SendFrame
<1>6. CASE P!SendFrameFails(c)
  BY <1>0, <1>6 DEF P!SendFrameFails, P!SendEnds, P!AfterSend
<1>7. CASE P!CloseSource(c)
  BY <1>0, <1>7 DEF P!CloseSource, P!AfterSource
<1>8. CASE P!ClearActiveSession(c) \/ P!CloseSession(c)
  BY <1>0, <1>8 DEF P!ClearActiveSession, P!CloseSession
<1>9. CASE P!NextPayload(c)
  <2>1. UNCHANGED media /\ ppc' = [ppc EXCEPT ![c] = "frame"] /\ ppc[c] = "send"
    BY <1>9 DEF P!NextPayload
  <2>2. ~P!Handler(c)
    BY <2>1
       DEF P!Handler, P!ReadRequest, P!ReadRequestFails, P!BuildResponse,
           P!BuildResponseFails, P!WriteResponse, P!WriteResponseFails,
           P!NewFFmpegSource, P!NewFFmpegSourceFails, P!OpenStreamFails, P!SendFrame,
           P!SendFrameFails, P!CloseSource, P!ClearActiveSession, P!CloseSession
  <2>3. ProducerLeft(c)' = ProducerLeft(c)
        /\ \A d \in Conns \ {c} : ProducerLeft(d)' = ProducerLeft(d)
    BY <1>0, <2>1
  <2>4. ProducerLeft(c) \in Nat
    BY <1>0
  <2> HIDE DEF ProducerLeft
  <2> QED
    BY <2>2, <2>3, <2>4
<1>10. CASE P!PayloadEnds(c)
  BY <1>0, <1>10 DEF P!PayloadEnds, P!SendEnds, P!AfterSend
<1> QED
  BY <1>1, <1>2, <1>3, <1>4, <1>5, <1>6, <1>7, <1>8, <1>9, <1>10 DEF P!Handler, P!Camera

(* A restart ends the handlers that began and leaves the others as they are. *)
LEMMA RestartAddsNothing ==
    ASSUME CInv, P!Restart, NEW c \in Conns
    PROVE  ProducerLeft(c)' <= ProducerLeft(c)
<1>1. ppc[c] \in P!Phases /\ (link[c] = "idle" => ppc[c] = "idle")
  BY DEF CInv, Inv, Typed, Undialled
<1> QED
  BY <1>1 DEF P!Restart, P!Phases, P!Streaming, ProducerLeft

(* What a step of the server does to the work of consumer d.                 *)
NoMore(d) ==
    /\ HandlerLeft(d)' <= HandlerLeft(d) /\ WriterLeft(d)' <= WriterLeft(d)
    /\ RunnerLeft(d)' <= RunnerLeft(d) /\ StopLeft(d)' <= StopLeft(d)

Less(d) ==
    \/ HandlerLeft(d)' < HandlerLeft(d) \/ WriterLeft(d)' < WriterLeft(d)
    \/ RunnerLeft(d)' < RunnerLeft(d) \/ StopLeft(d)' < StopLeft(d)

LEMMA ServerHandlerMovesOn ==
    ASSUME CInv, NEW c \in Conns, S!Handler(c)
    PROVE  Less(c) /\ \A d \in Conns : NoMore(d)
<1> USE DEF S!Goto, S!HandlerPhases, NoMore, Less, HandlerLeft, WriterLeft, RunnerLeft,
            StopLeft, S!subs
<1>0. /\ spc \in [Conns -> S!HandlerPhases]
      /\ wpc \in [Conns -> {"off", "run", "remove", "stop", "done"}]
      /\ rpc \in [Conns -> {"off", "accept", "relay", "stop", "clear", "done"}]
      /\ stop \in [Conns -> {"unborn", "live", "cancelled", "drained"}]
  BY DEF CInv, SP!Inv, SP!Support, SP!Typed, SP!HandlerPhases
<1>1. CASE S!ReadRequest(c) \/ S!ReadRequestFails(c)
  BY <1>0, <1>1 DEF S!ReadRequest, S!ReadRequestFails
<1>2. CASE S!DialProducer(c) \/ S!DialProducerFails(c)
  BY <1>0, <1>2 DEF S!DialProducer, S!DialProducerFails
<1>3. CASE S!RequestFails(c) \/ S!JoinHub(c) \/ S!OtherSession(c)
  BY <1>0, <1>3 DEF S!RequestFails, S!JoinHub, S!OtherSession, S!Return, S!AfterMismatch
<1>4. CASE S!CreateHub(c)
  <2>1. stop[c] = "unborn"
    BY <1>4 DEF S!CreateHub, CInv, SP!Inv, SP!Support, SP!Unborn
  <2> QED
    BY <1>0, <1>4, <2>1 DEF S!CreateHub, S!Return
<1>5. CASE S!AddConsumer(c)
  <2>1. wpc[c] = "off"
    BY <1>5 DEF S!AddConsumer, CInv, Inv, Unlaunched
  <2> QED
    BY <1>0, <1>5, <2>1 DEF S!AddConsumer
<1>6. CASE S!WriteResponse(c)
  BY <1>0, <1>6 DEF S!WriteResponse
<1>7. CASE S!AddConsumerFails(c) \/ S!WriteResponseFails(c)
  BY <1>0, <1>7 DEF S!AddConsumerFails, S!WriteResponseFails, S!AfterFailedWrite
<1>8. CASE S!WaitReturns(c) \/ S!RemoveConsumer(c)
  BY <1>0, <1>8 DEF S!WaitReturns, S!RemoveConsumer
<1>9. CASE S!StopReturns(c) \/ S!CloseConsumer(c)
  BY <1>0, <1>9 DEF S!StopReturns, S!CloseConsumer
<1> QED
  BY <1>1, <1>2, <1>3, <1>4, <1>5, <1>6, <1>7, <1>8, <1>9 DEF S!Handler

LEMMA WriterAndHubMoveOn ==
    ASSUME CInv, NEW c \in Conns,
           S!WriteFrameFails(c) \/ S!WriterLeaves(c) \/ S!Hub(c)
    PROVE  Less(c) /\ \A d \in Conns : NoMore(d)
<1> USE DEF NoMore, Less, HandlerLeft, WriterLeft, RunnerLeft, StopLeft, S!HandlerPhases
<1>0. /\ spc \in [Conns -> S!HandlerPhases]
      /\ wpc \in [Conns -> {"off", "run", "remove", "stop", "done"}]
      /\ rpc \in [Conns -> {"off", "accept", "relay", "stop", "clear", "done"}]
      /\ stop \in [Conns -> {"unborn", "live", "cancelled", "drained"}]
  BY DEF CInv, SP!Inv, SP!Support, SP!Typed, SP!HandlerPhases
<1>1. CASE S!WriteFrameFails(c)
  BY <1>0, <1>1 DEF S!WriteFrameFails, S!WriterGoto, S!AfterLostFrame
<1>2. CASE S!WriterLeaves(c)
  BY <1>0, <1>2 DEF S!WriterLeaves, S!WriterReleased, S!WriterRemoves,
     S!WriterStopReturns, S!WriterGoto
<1>3. CASE S!AcceptMedia(c) \/ S!RunEnds(c)
  BY <1>0, <1>3 DEF S!AcceptMedia, S!RunEnds, S!AfterRun, S!RunnerGoto, S!subs
<1>4. CASE S!RunnerStopReturns(c) \/ S!ClearMediaHub(c)
  BY <1>0, <1>4 DEF S!RunnerStopReturns, S!ClearMediaHub, S!RunnerGoto, S!subs
<1>5. CASE S!StopCancels(c) \/ S!StopDrains(c)
  BY <1>0, <1>5 DEF S!StopCancels, S!StopDrains, S!subs
<1> QED
  BY <1>1, <1>2, <1>3, <1>4, <1>5 DEF S!Hub

(* From one event of the outside world to the next, the two programs take    *)
(* boundedly many steps and then rest: Settled is where every behaviour      *)
(* goes, so what holds there is what is reached at last (all goroutines of   *)
(* server/app.go, media_hub.go and producer/app.go).                        *)
THEOREM WorkComesToAnEnd == Spec => StepsRunOut
<1> DEFINE Advances ==
      /\ \A c \in Conns : StepsLeft(c)' <= StepsLeft(c)
      /\ Progress => \E c \in Conns : StepsLeft(c)' < StepsLeft(c)
      MovesOn ==
        /\ \A c \in Conns : StepsLeft(c)' <= StepsLeft(c)
        /\ \E c \in Conns : StepsLeft(c)' < StepsLeft(c)
<1>1. CInv /\ Counted /\ Counted' /\ [Next]_vars => [Advances]_vars
  <2> SUFFICES ASSUME CInv, Counted, Counted', Next PROVE Advances
    BY DEF vars, producer, relay, StepsLeft
  <2> USE DEF StepsLeft
  <2>1. \A c \in Conns :
          /\ ProducerLeft(c) \in Nat /\ ProducerLeft(c)' \in Nat
          /\ HandlerLeft(c) \in Nat /\ HandlerLeft(c)' \in Nat
          /\ WriterLeft(c) \in Nat /\ WriterLeft(c)' \in Nat
          /\ RunnerLeft(c) \in Nat /\ RunnerLeft(c)' \in Nat
          /\ StopLeft(c) \in Nat /\ StopLeft(c)' \in Nat
    BY DEF Counted
  <2>2. ASSUME UNCHANGED relay
        PROVE  \A d \in Conns : /\ HandlerLeft(d)' = HandlerLeft(d)
                                /\ WriterLeft(d)' = WriterLeft(d)
                                /\ RunnerLeft(d)' = RunnerLeft(d)
                                /\ StopLeft(d)' = StopLeft(d)
    BY <2>2 DEF relay, HandlerLeft, WriterLeft, RunnerLeft, StopLeft
  <2>3. ASSUME UNCHANGED <<ppc, media>>
        PROVE  \A d \in Conns : ProducerLeft(d)' = ProducerLeft(d)
    BY <2>3 DEF ProducerLeft
  <2>4. ASSUME NEW c \in Conns, P!Handler(c) \/ P!Camera(c), UNCHANGED relay
        PROVE  /\ \A d \in Conns : StepsLeft(d)' <= StepsLeft(d)
               /\ P!Handler(c) /\ (P!SendFrame(c) => media[c] = "none") => MovesOn
    BY <2>1, <2>2, <2>4, ProducerMovesOn
  <2>5. ASSUME NEW c \in Conns, UNCHANGED producer,
               \/ S!Handler(c) \/ S!WriteFrameFails(c)
               \/ S!WriterLeaves(c) \/ S!Hub(c)
        PROVE  MovesOn
    <3>1. UNCHANGED media
      BY <2>5 DEF S!Handler, S!ReadRequest, S!ReadRequestFails, S!DialProducer,
         S!DialProducerFails, S!RequestFails, S!JoinHub, S!OtherSession, S!CreateHub,
         S!AddConsumer, S!AddConsumerFails, S!WriteResponse, S!WriteResponseFails,
         S!WaitReturns, S!RemoveConsumer, S!StopReturns, S!CloseConsumer,
         S!WriteFrameFails, S!WriterLeaves, S!WriterReleased, S!WriterRemoves,
         S!WriterStopReturns, S!Hub, S!AcceptMedia, S!RunEnds, S!RunnerStopReturns,
         S!ClearMediaHub, S!StopCancels, S!StopDrains, S!upstream
    <3>2. \A d \in Conns : ProducerLeft(d)' = ProducerLeft(d)
      BY <3>1, <2>3, <2>5 DEF producer
    <3>3. Less(c) /\ \A d \in Conns : NoMore(d)
      BY <2>5, ServerHandlerMovesOn, WriterAndHubMoveOn
    <3> QED
      BY <2>1, <3>2, <3>3 DEF Less, NoMore
  <2>6. ASSUME P!Restart, UNCHANGED relay
        PROVE  \A d \in Conns : StepsLeft(d)' <= StepsLeft(d)
    BY <2>1, <2>2, <2>6, RestartAddsNothing
  <2>7. ASSUME NEW c \in Conns,
               \/ LoseUpstream(c)
               \/ UNCHANGED producer /\ (S!WriteFrame(c) \/ S!Broadcast(c))
               \/ UNCHANGED producer /\ (S!ClientDials(c) \/ S!ClientLeaves(c))
        PROVE  \A d \in Conns : StepsLeft(d)' = StepsLeft(d)
    <3>1. UNCHANGED <<ppc, media, spc, wpc, rpc, stop>>
      BY <2>7 DEF LoseUpstream, S!WriteFrame, S!Broadcast, S!ClientDials,
         S!ClientLeaves, S!upstream, S!subs, producer, relay
    <3> QED
      BY <3>1 DEF ProducerLeft, HandlerLeft, WriterLeft, RunnerLeft, StopLeft
  <2>8. Progress => MovesOn
    BY <2>4, <2>5 DEF Progress
  <2>9. \A c \in Conns : StepsLeft(c)' <= StepsLeft(c)
    <3>1. CASE P!PNext /\ UNCHANGED relay
      BY <3>1, <2>4, <2>6 DEF P!PNext
    <3>2. CASE S!SNext /\ UNCHANGED producer
      BY <3>2, <2>1, <2>5, <2>7 DEF S!SNext, S!Writer
    <3>3. ASSUME NEW c \in Conns, LoseUpstream(c)
          PROVE  \A d \in Conns : StepsLeft(d)' <= StepsLeft(d)
      BY <3>3, <2>1, <2>7
    <3> QED
      BY <3>1, <3>2, <3>3 DEF Next
  <2> QED
    BY <2>8, <2>9
<1> QED
  BY <1>1, Composed, StepsAreCounted, PTL DEF Spec, StepsRunOut
=============================================================================
