----------------------- MODULE ProducerSession_proofs -----------------------
(***************************************************************************)
(* Proofs about ProducerSession, for any number of connections.             *)
(*                                                                         *)
(* SessionKept and ExclusiveCamera are not inductive: that the handler      *)
(* holding an ffmpeg process is the only one needs that it is the handler   *)
(* of the active session, that only such handlers reach the media phases,   *)
(* and that a connection not yet answered has no session.                   *)
(***************************************************************************)
EXTENDS ProducerSession, TLAPS

(* Only the creator of a session goes past its response into the media      *)
(* phases, a session is nobody's before its handler builds a response, and  *)
(* no handler runs on a connection that was never dialled.                 *)
MediaPhasesOwned ==
    \A c \in Conns :
        /\ ppc[c] \in {"source", "closeSource", "clear"} \cup Streaming => StartsMedia(c)
        /\ ppc[c] \in {"idle", "build"} => sess[c] = None
        /\ link[c] = "idle" => ppc[c] = "idle"

(* A handler that has returned has closed its connection.                   *)
HungUp == \A c \in Conns : ppc[c] = "done" => link[c] = "closed"

(* An ffmpeg process is held exactly between its start and CloseSource.     *)
CameraPhases == \A c \in camera : ppc[c] \in {"closeSource"} \cup Streaming

IInv == PTypeOK /\ MediaPhasesOwned /\ HungUp /\ CameraPhases /\ SessionKept

(* The inductive invariant implies that the camera has at most one holder.  *)
LEMMA IInvExclusive == IInv => ExclusiveCamera
BY DEF IInv, PTypeOK, Streaming, MediaPhasesOwned, CameraPhases, SessionKept,
       ExclusiveCamera, UsesOwnSession, StartsMedia

(* Initially no handler has a session or a camera.                          *)
LEMMA InitIInv == PInit => IInv
BY NoneAssumption
   DEF PInit, IInv, PTypeOK, Phases, Streaming, SessionOrNil, MediaPhasesOwned, HungUp,
       CameraPhases, SessionKept, UsesOwnSession, StartsMedia

(* Every step keeps the inductive invariant, one action at a time.          *)
LEMMA NextIInv == IInv /\ [Next]_pvars => IInv'
<1> SUFFICES ASSUME IInv, [Next]_pvars PROVE IInv'
  OBVIOUS
<1> USE NoneAssumption
    DEF IInv, PTypeOK, Phases, Streaming, SessionOrNil, MediaPhasesOwned, HungUp,
        CameraPhases, SessionKept, UsesOwnSession, StartsMedia
<1>1. ASSUME NEW c \in Conns, ReadRequest(c) PROVE IInv'
  BY <1>1 DEF ReadRequest, Goto
<1>2. ASSUME NEW c \in Conns, ReadRequestFails(c) PROVE IInv'
  BY <1>2 DEF ReadRequestFails, Goto
<1>3. ASSUME NEW c \in Conns, BuildResponse(c) PROVE IInv'
  BY <1>3 DEF BuildResponse, SessionFor, Goto
<1>4. ASSUME NEW c \in Conns, BuildResponseFails(c) PROVE IInv'
  BY <1>4 DEF BuildResponseFails, Goto
<1>5. ASSUME NEW c \in Conns, WriteResponse(c) PROVE IInv'
  BY <1>5 DEF WriteResponse, Goto
<1>6. ASSUME NEW c \in Conns, WriteResponseFails(c) PROVE IInv'
  BY <1>6 DEF WriteResponseFails, AfterFailedWrite, Goto
<1>7. ASSUME NEW c \in Conns, NewFFmpegSource(c) PROVE IInv'
  BY <1>7 DEF NewFFmpegSource, Goto
<1>8. ASSUME NEW c \in Conns, NewFFmpegSourceFails(c) PROVE IInv'
  BY <1>8 DEF NewFFmpegSourceFails, Goto
<1>9. ASSUME NEW c \in Conns, NextPayload(c) \/ SendFrame(c) PROVE IInv'
  BY <1>9 DEF NextPayload, SendFrame, Goto
<1>10. ASSUME NEW c \in Conns, SendFrameFails(c) \/ PayloadEnds(c) PROVE IInv'
  BY <1>10 DEF SendFrameFails, PayloadEnds, SendEnds, AfterSend, Goto
<1>11. ASSUME NEW c \in Conns, CloseSource(c) PROVE IInv'
  BY <1>11 DEF CloseSource, AfterSource, Goto
<1>12. ASSUME NEW c \in Conns, ClearActiveSession(c) PROVE IInv'
  BY <1>12 DEF ClearActiveSession, AfterClear, Goto
<1>13. ASSUME NEW c \in Conns, CloseSession(c) PROVE IInv'
  BY <1>13 DEF CloseSession, Goto
<1>14. CASE Restart
  BY <1>14 DEF Restart
<1>15. ASSUME NEW c \in Conns, EnvDial(c) \/ EnvDrop(c) PROVE IInv'
  BY <1>15 DEF EnvDial, EnvDrop
<1>16. CASE UNCHANGED pvars
  BY <1>16 DEF pvars
<1>17. ASSUME NEW c \in Conns, OpenStreamFails(c) PROVE IInv'
  BY <1>17 DEF OpenStreamFails, AfterSend, Goto
<1> QED
  BY <1>1, <1>2, <1>3, <1>4, <1>5, <1>6, <1>7, <1>8, <1>9, <1>10, <1>11, <1>12,
     <1>13, <1>14, <1>15, <1>16, <1>17 DEF Next, PNext, Handler, Camera

(* The inductive invariant holds of every state the producer reaches.       *)
THEOREM Inductive == SafetySpec => []IInv
BY InitIInv, NextIInv, PTL DEF SafetySpec

(* Types: every handler is in one of its phases and answers with a session. *)
THEOREM TypeCorrect == SafetySpec => []PTypeOK
<1>1. IInv => PTypeOK
  BY DEF IInv
<1> QED
  BY <1>1, Inductive, PTL

(* No request and no cleanup takes a session from the handler that uses it  *)
(* (buildHandshakeResponse, clearActiveSession), for any set of connections. *)
THEOREM SessionIsKept == SafetySpec => []SessionKept
<1>1. IInv => SessionKept
  BY DEF IInv
<1> QED
  BY <1>1, Inductive, PTL

(* At most one ffmpeg process holds the camera, for any set of connections. *)
THEOREM CameraIsExclusive == SafetySpec => []ExclusiveCamera
BY Inductive, IInvExclusive, PTL

(* Every step of the producer is a step of the lease or leaves it alone.    *)
LEMMA NextLease == IInv /\ [Next]_pvars => [Lease!LeaseNext]_<<active, sess>>
<1> SUFFICES ASSUME IInv, [Next]_pvars
             PROVE  Lease!LeaseNext \/ UNCHANGED <<active, sess>>
  BY DEF Lease!LeaseNext
<1> USE NoneAssumption
<1>1. ASSUME NEW c \in Conns, BuildResponse(c) PROVE Lease!Ask(c)
  BY <1>1 DEF IInv, PTypeOK, SessionOrNil, MediaPhasesOwned, BuildResponse,
              SessionFor, Lease!Ask
<1>2. ASSUME NEW c \in Conns, ClearActiveSession(c)
      PROVE  Lease!Retire \/ UNCHANGED <<active, sess>>
  BY <1>2 DEF ClearActiveSession, AfterClear, Lease!Retire
<1>3. CASE Restart
  BY <1>3 DEF Restart, Lease!Retire, Lease!LeaseNext
<1>4. ASSUME NEW c \in Conns,
             \/ ReadRequest(c) \/ ReadRequestFails(c) \/ BuildResponseFails(c)
             \/ WriteResponse(c) \/ WriteResponseFails(c)
             \/ NewFFmpegSource(c) \/ NewFFmpegSourceFails(c)
             \/ OpenStreamFails(c) \/ NextPayload(c) \/ SendFrame(c)
             \/ SendFrameFails(c) \/ PayloadEnds(c)
             \/ CloseSource(c) \/ CloseSession(c) \/ EnvDial(c) \/ EnvDrop(c)
      PROVE  UNCHANGED <<active, sess>>
  BY <1>4 DEF ReadRequest, ReadRequestFails, BuildResponseFails, WriteResponse,
              WriteResponseFails, NewFFmpegSource, NewFFmpegSourceFails,
              OpenStreamFails, NextPayload, SendFrame, SendFrameFails, PayloadEnds, SendEnds, CloseSource,
              CloseSession, EnvDial, EnvDrop
<1>5. CASE UNCHANGED pvars
  BY <1>5 DEF pvars
<1> QED
  BY <1>1, <1>2, <1>3, <1>4, <1>5 DEF Next, PNext, Handler, Camera, Lease!LeaseNext

(* The producer implements the abstract lease: sessions are granted, joined  *)
(* and retired atomically although handlers interleave.                     *)
THEOREM ImplementsLease == SafetySpec => LeaseSpec
<1>1. PInit => Lease!LeaseInit
  BY DEF PInit, Lease!LeaseInit
<1>2. IInv /\ [Next]_pvars => [Lease!LeaseNext]_Lease!leaseVars
  BY NextLease DEF Lease!leaseVars
<1> QED
  BY <1>1, <1>2, Inductive, PTL DEF SafetySpec, LeaseSpec, Lease!LeaseSpec
-----------------------------------------------------------------------------
(* ActiveSessionServed fails: a session can stay active with nobody using it *)
(* (app.go:174).  How far that goes: its handler never got its answer        *)
(* through, has returned or is about to, and never streams.                 *)
Leaked == ~ ActiveSessionServed

Unanswered ==
    active # None /\ ppc[active] \in {"close", "done"} =>
        resp[active] = None /\ media[active] = "none" /\ link[active] = "closed"

(* What a handler does to its connection it does in its order: it answers    *)
(* once, and streams after that.                                            *)
NothingSentYet ==
    \A c \in Conns :
        /\ ppc[c] \in {"idle", "build", "write"} => resp[c] = None /\ media[c] = "none"
        /\ sess[c] # c => media[c] = "none"

(* The session that is active was made by the handler of that name.          *)
MadeByItsHandler ==
    active # None => sess[active] = active /\ ppc[active] \notin {"idle", "build"}

(* A session that was named to anybody has been made, and is not made again.  *)
NamedWasMade ==
    \A c \in Conns :
        /\ sess[c] # None => ppc[sess[c]] \notin {"idle", "build"}
        /\ resp[c] # None => ppc[resp[c]] \notin {"idle", "build"}

LInv == Unanswered /\ NothingSentYet /\ MadeByItsHandler /\ NamedWasMade

LEMMA NextLInv == IInv /\ LInv /\ [Next]_pvars => LInv'
<1> SUFFICES ASSUME IInv, LInv, [Next]_pvars PROVE LInv'
  OBVIOUS
<1> USE NoneAssumption
    DEF IInv, PTypeOK, Phases, Streaming, SessionOrNil, MediaPhasesOwned, HungUp,
        SessionKept, UsesOwnSession, StartsMedia, LInv, Unanswered, NothingSentYet, MadeByItsHandler,
        NamedWasMade
<1>1. ASSUME NEW c \in Conns, ReadRequest(c) \/ ReadRequestFails(c) PROVE LInv'
  BY <1>1 DEF ReadRequest, ReadRequestFails, Goto
<1>2. ASSUME NEW c \in Conns, BuildResponse(c) PROVE LInv'
  BY <1>2 DEF BuildResponse, SessionFor, Goto
<1>3. ASSUME NEW c \in Conns, BuildResponseFails(c) PROVE LInv'
  BY <1>3 DEF BuildResponseFails, Goto
<1>4. ASSUME NEW c \in Conns, WriteResponse(c) PROVE LInv'
  BY <1>4 DEF WriteResponse, Goto
<1>5. ASSUME NEW c \in Conns, WriteResponseFails(c) PROVE LInv'
  BY <1>5 DEF WriteResponseFails, AfterFailedWrite, Goto
<1>6. ASSUME NEW c \in Conns, NewFFmpegSource(c) \/ NewFFmpegSourceFails(c) PROVE LInv'
  BY <1>6 DEF NewFFmpegSource, NewFFmpegSourceFails, Goto
<1>7. ASSUME NEW c \in Conns, NextPayload(c) \/ SendFrame(c) PROVE LInv'
  BY <1>7 DEF NextPayload, SendFrame, Goto
<1>8. ASSUME NEW c \in Conns, SendFrameFails(c) \/ PayloadEnds(c) PROVE LInv'
  BY <1>8 DEF SendFrameFails, PayloadEnds, SendEnds, AfterSend, Goto
<1>9. ASSUME NEW c \in Conns, CloseSource(c) PROVE LInv'
  BY <1>9 DEF CloseSource, AfterSource, Goto
<1>10. ASSUME NEW c \in Conns, ClearActiveSession(c) PROVE LInv'
  BY <1>10 DEF ClearActiveSession, AfterClear, Goto
<1>11. ASSUME NEW c \in Conns, CloseSession(c) PROVE LInv'
  BY <1>11 DEF CloseSession, Goto
<1>12. CASE Restart
  BY <1>12 DEF Restart
<1>13. ASSUME NEW c \in Conns, EnvDial(c) \/ EnvDrop(c) PROVE LInv'
  BY <1>13 DEF EnvDial, EnvDrop
<1>14. CASE UNCHANGED pvars
  BY <1>14 DEF pvars
<1>15. ASSUME NEW c \in Conns, OpenStreamFails(c) PROVE LInv'
  BY <1>15 DEF OpenStreamFails, AfterSend, Goto
<1> QED
  BY <1>1, <1>2, <1>3, <1>4, <1>5, <1>6, <1>7, <1>8, <1>9, <1>10, <1>11, <1>12,
     <1>13, <1>14, <1>15 DEF Next, PNext, Handler, Camera

LEMMA InitLInv == PInit => LInv
BY NoneAssumption
   DEF PInit, LInv, Unanswered, NothingSentYet, MadeByItsHandler, NamedWasMade

LEMMA LeakInvariance == SafetySpec => []LInv
BY InitLInv, NextLInv, Inductive, PTL DEF SafetySpec

(* The only session that can be left behind is one whose own response could   *)
(* not be written, on a connection that is lost: every path that answered    *)
(* clears it (app.go:166-192).                                             *)
THEOREM OnlyUnansweredLeak ==
    SafetySpec => [](Leaked => /\ ppc[active] \in {"close", "done"}
                               /\ resp[active] = None /\ media[active] = "none"
                               /\ link[active] = "closed")
<1>1. IInv /\ LInv /\ Leaked => /\ ppc[active] \in {"close", "done"}
                               /\ resp[active] = None /\ media[active] = "none"
                               /\ link[active] = "closed"
  BY DEF IInv, PTypeOK, Phases, Streaming, SessionOrNil, LInv, Unanswered,
         MadeByItsHandler, Leaked, ActiveSessionServed, UsesOwnSession, StartsMedia
<1> QED
  BY <1>1, Inductive, LeakInvariance, PTL

LEMMA LeakStep ==
    ASSUME IInv, LInv, Leaked, Next, ~Restart
    PROVE  Leaked' /\ active' = active
<1>1. active \in Conns /\ ppc[active] \in {"close", "done"}
  BY DEF IInv, PTypeOK, Phases, Streaming, SessionOrNil, LInv, MadeByItsHandler, Leaked,
         ActiveSessionServed, UsesOwnSession, StartsMedia
<1>2. PICK c \in Conns : Handler(c) \/ Camera(c) \/ EnvDial(c) \/ EnvDrop(c)
  BY DEF Next, PNext
<1> USE NoneAssumption
    DEF IInv, PTypeOK, Phases, Streaming, MediaPhasesOwned, LInv, Leaked, ActiveSessionServed,
        UsesOwnSession, StartsMedia, Goto
<1>3. CASE BuildResponse(c)
  BY <1>1, <1>3 DEF BuildResponse, SessionFor
<1>4. CASE ClearActiveSession(c)
  BY <1>1, <1>4 DEF ClearActiveSession, AfterClear, SessionOrNil
<1>5. CASE \/ ReadRequest(c) \/ ReadRequestFails(c) \/ BuildResponseFails(c)
           \/ WriteResponse(c) \/ WriteResponseFails(c)
           \/ NewFFmpegSource(c) \/ NewFFmpegSourceFails(c)
           \/ OpenStreamFails(c) \/ NextPayload(c) \/ SendFrame(c)
           \/ SendFrameFails(c) \/ PayloadEnds(c)
           \/ CloseSource(c) \/ CloseSession(c) \/ EnvDial(c) \/ EnvDrop(c)
  <2>1. active' = active /\ ppc'[active] \in {"close", "done"}
    BY <1>1, <1>5
       DEF ReadRequest, ReadRequestFails, BuildResponseFails, WriteResponse,
           WriteResponseFails, NewFFmpegSource, NewFFmpegSourceFails, OpenStreamFails,
           NextPayload, SendFrame, SendFrameFails, PayloadEnds, SendEnds, CloseSource, CloseSession,
           EnvDial, EnvDrop
  <2> QED
    BY <1>1, <2>1
<1> QED
  BY <1>2, <1>3, <1>4, <1>5 DEF Handler, Camera

(* And then it stays for good: no request, no cleanup and no connection that  *)
(* comes or goes changes activeSession again, only a restart of the producer *)
(* does.  Every handshake until then is answered with a session that nobody  *)
(* streams (app.go:195-223).                                               *)
THEOREM LeakLasts ==
    SafetySpec => [][Leaked => Restart \/ (Leaked' /\ active' = active)]_pvars
<1>1. IInv /\ LInv /\ [Next]_pvars
        => [Leaked => Restart \/ (Leaked' /\ active' = active)]_pvars
  BY LeakStep
<1> QED
  BY <1>1, Inductive, LeakInvariance, PTL DEF SafetySpec
=============================================================================
