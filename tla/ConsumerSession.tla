--------------------------- MODULE ConsumerSession ---------------------------
(***************************************************************************)
(* The consumer (internal/app/consumer, internal/stream/receiver.go): Run   *)
(* makes up to MaxSessionAttempts sessions.  A session dials the relay,     *)
(* verifies the handshake response, opens the sink (ffplay) and plays the   *)
(* frames it can verify; the goroutine of ReadFramesFromStreams reads them  *)
(* from the media stream and hands them over on a channel of one place      *)
(* (MediaStreamCount = 1).                                                 *)
(*                                                                         *)
(* The path to the producer is not trusted to keep anything: it may delay   *)
(* or repeat a response, lose, repeat or reorder frames, mix up sessions    *)
(* and damage what it carries.  Attempt a sends the nonce a.  Sequence      *)
(* number 0 stands for all the headers ValidateFrame drops unseen (empty    *)
(* payload, no sequence number, no timestamp).  MaxReads bounds the frames  *)
(* of an attempt, MaxSequence their numbers, Start and MaxClock the time,   *)
(* MaxAhead how far the producer's clock is ahead.  A session's ephemeral   *)
(* key is named by the session it was made for.  Run gets                   *)
(* context.Background() (cmd/consumer/main.go:25), so it is never cancelled *)
(* from outside.                                                            *)
(***************************************************************************)
EXTENDS FramePolicy, Handshake, Sequences

CONSTANTS MaxSessionAttempts, Sessions, Camera,
          MaxReads, MaxSequence, Start, MaxClock, MaxAhead

Attempts == 1..MaxSessionAttempts

(* Nonces and session identifiers are not zero (fillRandomNonZero), the      *)
(* camera's certificate is in the trust store, and it is after 1970.        *)
ASSUME ConsumerAssumption ==
    /\ MaxSessionAttempts \in Nat \ {0}
    /\ Zero \notin Sessions \cup Attempts /\ None \notin Sessions
    /\ Camera \in Trusted
    /\ MaxReads \in Nat /\ MaxSequence \in Nat /\ MaxAhead \in Nat
    /\ Start \in Nat /\ MaxClock \in Nat /\ Second <= Start /\ Start <= MaxClock

VARIABLES
    cpc,            \* where Run and runSession are
    attempt,        \* Run's loop variable
    result,         \* what runSession is about to return
    outcome,        \* what Run returned
    conn,           \* attempt -> "none", "open", "remote" (closed by the relay
                    \* with code 0), "lost", "closed"
    sink,           \* attempt -> ffplay is running
    session,        \* the verified session
    frameKey,       \* and the ephemeral key that came with it
    lastSequence,   \* FrameValidator, 0 while hasLastSequence is false
    window,         \* FramePolicy
    rd, hand, chan, \* attempt -> its reader, what it is sending, the channel
    reads,          \* frames read in this attempt
    clock,
    issued,         \* the responses that may still arrive, each with the
                    \* time the producer's clock showed when it was made
    played,         \* the frames given to ffplay in this attempt
    damaged         \* frames of this attempt found to have a bad signature

run == <<cpc, attempt, result, outcome>>
resources == <<conn, sink>>
checks == <<session, frameKey, lastSequence, window>>
reader == <<rd, hand, chan, reads>>
world == <<clock, issued>>
seen == <<played, damaged>>
vars == <<run, resources, checks, reader, world, seen>>

Frames == [kind : {"frame"}, sid : Sessions, seq : 0..MaxSequence, ok : BOOLEAN]
(* What may arrive: a frame the producer signed, in this session or another,  *)
(* a damaged frame of this one, or a malformed one.                         *)
Carried ==
    {f \in Frames : (f.ok => f.seq # 0) /\ (~f.ok => f.sid = session)}

Failure(kind) == [kind |-> kind, sid |-> None, seq |-> 0, ok |-> FALSE]
Results == Frames \cup {Failure(k) : k \in {"none", "eof", "remote", "lost"}}

TypeOK ==
    /\ cpc \in {"dial", "await", "sink", "accept", "receive", "play", "release",
                "hangup", "ended"}
    /\ attempt \in Attempts
    /\ result \in {"none", "ok", "rehandshake", "error"}
    /\ outcome \in {"none", "ok", "untrusted", "error"}
    /\ conn \in [Attempts -> {"none", "open", "remote", "lost", "closed"}]
    /\ sink \in [Attempts -> BOOLEAN]
    /\ session \in Sessions \cup {None} /\ frameKey \in Sessions \cup {None}
    /\ lastSequence \in 0..MaxSequence
    /\ window \in Windows /\ window.bad <= window.total
    /\ rd \in [Attempts -> {"off", "read", "send", "done"}]
    /\ hand \in [Attempts -> Results] /\ chan \in [Attempts -> Seq(Results)]
    /\ \A a \in Attempts : Len(chan[a]) <= 1
    /\ reads \in 0..MaxReads /\ clock \in Start..MaxClock
    /\ \A i \in issued : i.response.session \in Sessions /\ i.made \in Nat
    /\ played \in Seq(Frames) /\ damaged \in Nat

Init ==
    /\ cpc = "dial" /\ attempt = 1 /\ result = "none" /\ outcome = "none"
    /\ conn = [a \in Attempts |-> "none"] /\ sink = [a \in Attempts |-> FALSE]
    /\ session = None /\ frameKey = None
    /\ lastSequence = 0 /\ window = NoWindow
    /\ rd = [a \in Attempts |-> "off"]
    /\ hand = [a \in Attempts |-> Failure("none")]
    /\ chan = [a \in Attempts |-> <<>>] /\ reads = 0
    /\ clock = Start /\ issued = {}
    /\ played = <<>> /\ damaged = 0
-----------------------------------------------------------------------------
Goto(phase) == cpc' = phase /\ UNCHANGED <<attempt, result, outcome>>

(* runSession is about to return r; its deferred calls come first.          *)
Finish(phase, r) == cpc' = phase /\ result' = r /\ UNCHANGED <<attempt, outcome>>

Dial ==
    /\ cpc = "dial"
    /\ conn' = [conn EXCEPT ![attempt] = "open"]
    /\ Goto("await")
    /\ UNCHANGED <<sink, checks, reader, world, seen>>

DialFails ==
    /\ cpc = "dial"
    /\ Finish("hangup", "error")
    /\ UNCHANGED <<resources, checks, reader, world, seen>>

(* Every attempt has a nonce of its own.                                    *)
Request(a) == NewRequest(a)

AcceptResponse(r) ==
    /\ cpc = "await" /\ conn[attempt] = "open"
    /\ VerifyResponse(r, Request(attempt), clock)
    /\ session' = r.session /\ frameKey' = r.ephemeral
    /\ issued' = IF attempt = MaxSessionAttempts THEN {} ELSE issued
    /\ Goto("sink")
    /\ UNCHANGED <<lastSequence, window, resources, reader, clock, seen>>

(* A response that does not verify, none before HandshakeTimeout, or a       *)
(* connection that breaks.                                                 *)
HandshakeFails ==
    /\ cpc = "await"
    /\ Finish("hangup", "error")
    /\ UNCHANGED <<resources, checks, reader, world, seen>>

NewFFplaySink ==
    /\ cpc = "sink"
    /\ sink' = [sink EXCEPT ![attempt] = TRUE]
    /\ Goto("accept")
    /\ UNCHANGED <<conn, checks, reader, world, seen>>

NewFFplaySinkFails ==
    /\ cpc = "sink"
    /\ Finish("hangup", "error")
    /\ UNCHANGED <<resources, checks, reader, world, seen>>

(* ReceiveAndValidateFrames: a validator and a policy of its own, the media  *)
(* stream, and the reader.                                                 *)
\* The validator of the session before is kept: breaks GuardIsLastPlayed.
KeptGuard(n) == n
NewGuard(n) == 0

AcceptMedia ==
    /\ cpc = "accept" /\ conn[attempt] = "open"
    /\ lastSequence' = NewGuard(lastSequence) /\ window' = NoWindow
    /\ rd' = [rd EXCEPT ![attempt] = "read"]
    /\ reads' = 0
    /\ Goto("receive")
    /\ UNCHANGED <<session, frameKey, hand, chan, resources, world, seen>>

AcceptMediaFails ==
    /\ cpc = "accept" /\ conn[attempt] # "open"
    /\ Finish("release", IF conn[attempt] = "remote" THEN "ok" ELSE "error")
    /\ UNCHANGED <<resources, checks, reader, world, seen>>
-----------------------------------------------------------------------------
(* ValidateFrame: what does not belong to the session, has no proper header  *)
(* or is not newer than the last frame is dropped before its signature is   *)
(* looked at; only a bad signature counts against the path.                 *)
InOrder(f) == f.sid = session /\ f.seq > lastSequence

(* VerifyFrame, with the key of the handshake.                              *)
Genuine(f) == f.ok /\ f.sid = frameKey

\* A replayed or foreign frame blamed on the path: breaks GivenUpForCause.
NotAccepted(f) == ~(InOrder(f) /\ Genuine(f))
SignatureInvalid(f) == InOrder(f) /\ ~Genuine(f)

\* Sequence numbers not compared: breaks PlayedInOrder.
Unordered(f) == f.sid = session /\ Genuine(f)
Valid(f) == InOrder(f) /\ Genuine(f)

\* The guard moved before the signature is verified: breaks GuardIsLastPlayed.
MovedEarly(f) == IF InOrder(f) THEN f.seq ELSE lastSequence
GuardAfter(f) == IF Valid(f) THEN f.seq ELSE lastSequence

(* What the loop does once it is done with a frame.                         *)
AfterFrame(action) == IF action = "rehandshake" THEN "release" ELSE "receive"

(* The loop's body, for a frame: handleReceivedFrame validates it, records   *)
(* it with the policy and, if it is valid, gives it to ffplay; the verdict   *)
(* (result) counts after that.                                             *)
HandleFrame ==
    /\ cpc = "receive" /\ chan[attempt] # <<>>
    /\ LET f == Head(chan[attempt])
           verdict == RecordFrame(window, SignatureInvalid(f), clock)
       IN  /\ f.kind = "frame"
           /\ lastSequence' = GuardAfter(f)
           /\ window' = verdict.window
           /\ damaged' = IF f.ok \/ ~InOrder(f) THEN damaged ELSE damaged + 1
           /\ played' = IF Valid(f) THEN Append(played, f) ELSE played
           /\ Finish(IF Valid(f) THEN "play" ELSE AfterFrame(verdict.action), verdict.action)
    /\ chan' = [chan EXCEPT ![attempt] = <<>>]
    /\ UNCHANGED <<session, frameKey, rd, hand, reads, resources, world>>

(* WritePayload fills the pipe of ffplay, without a deadline and without      *)
(* regard to the connection, until ffplay takes the payload ...             *)
Plays ==
    /\ cpc = "play"
    /\ Goto(AfterFrame(result))
    /\ UNCHANGED <<resources, checks, reader, world, seen>>

(* ... or is gone; the error outranks the verdict.                          *)
PlayFails ==
    /\ cpc = "play"
    /\ Finish("release", "error")
    /\ UNCHANGED <<resources, checks, reader, world, seen>>

(* ReceiveAndValidateFrames has not returned, and not cancelled its reader.  *)
Receiving == cpc \in {"receive", "play"}

(* The reader's last result ends the loop; the channel, closed behind it, is *)
(* never found empty.                                                      *)
\* Only an orderly end is taken for one: breaks LossEnds.
OrderlyEnd(f) == f.kind \in {"eof", "remote"}
Last(f) == f.kind # "frame"

StreamEnds ==
    /\ cpc = "receive" /\ chan[attempt] # <<>>
    /\ LET f == Head(chan[attempt])
       IN  /\ Last(f)
           /\ Finish("release", IF f.kind \in {"eof", "remote"} THEN "ok" ELSE "error")
    /\ chan' = [chan EXCEPT ![attempt] = <<>>]
    /\ UNCHANGED <<checks, rd, hand, reads, resources, world, seen>>

(* The deferred calls of runSession, in their order: sink.Close, then        *)
(* conn.CloseWithError.                                                    *)
\* ffplay left running: breaks NothingLeftBehind.
SinkKept(a) == sink
SinkClosed(a) == [sink EXCEPT ![a] = FALSE]

CloseSink ==
    /\ cpc = "release"
    /\ sink' = SinkClosed(attempt)
    /\ Goto("hangup")
    /\ UNCHANGED <<conn, checks, reader, world, seen>>

(* Nothing of the session, what waits in its channel included, is reachable  *)
(* once runSession has returned.                                           *)
HangUp ==
    /\ conn' = [conn EXCEPT ![attempt] = IF @ = "none" THEN @ ELSE "closed"]
    /\ chan' = [chan EXCEPT ![attempt] = IF @ = <<>> THEN @ ELSE <<Failure("none")>>]
    /\ session' = None /\ frameKey' = None /\ window' = NoWindow
    /\ played' = <<>> /\ damaged' = 0
    /\ UNCHANGED <<lastSequence, sink, rd, hand, reads, world>>

(* Run: another attempt after ErrRehandshakeRequired as long as there is     *)
(* one left, ErrUntrustedConnection after the last; anything else ends it.  *)
\* The limit compared with <= : breaks TypeOK.
OneTooMany == attempt <= MaxSessionAttempts
AnotherAttempt == attempt < MaxSessionAttempts

Retry ==
    /\ cpc = "hangup" /\ result = "rehandshake" /\ AnotherAttempt
    /\ HangUp
    /\ cpc' = "dial" /\ attempt' = attempt + 1 /\ result' = "none"
    /\ UNCHANGED outcome

GiveUp ==
    /\ cpc = "hangup" /\ result = "rehandshake" /\ ~AnotherAttempt
    /\ HangUp
    /\ cpc' = "ended" /\ outcome' = "untrusted"
    /\ UNCHANGED <<attempt, result>>

Return ==
    /\ cpc = "hangup" /\ result \in {"ok", "error"}
    /\ HangUp
    /\ cpc' = "ended" /\ outcome' = result
    /\ UNCHANGED <<attempt, result>>
-----------------------------------------------------------------------------
(* The reader of attempt a: ReadFrame does not watch the context while it    *)
(* waits for the stream, sendFrameReadResult does.  After a read that fails *)
(* it ends.                                                                *)
SessionOver(a) == attempt # a \/ ~Receiving

Reads(a, r) ==
    /\ hand' = [hand EXCEPT ![a] = r]
    /\ rd' = [rd EXCEPT ![a] = "send"]
    /\ UNCHANGED <<run, resources, checks, chan, world, seen>>

ReadFrame(a) ==
    /\ rd[a] = "read" /\ conn[a] = "open" /\ reads < MaxReads
    /\ reads' = reads + 1
    /\ \E f \in Carried : Reads(a, f)

ReadFrameFails(a) ==
    /\ rd[a] = "read"
    /\ reads' = reads
    /\ IF conn[a] = "open" THEN Reads(a, Failure("eof"))
       ELSE IF SessionOver(a) THEN Reads(a, Failure("lost"))
       ELSE Reads(a, Failure(conn[a]))

SendResult(a) ==
    /\ rd[a] = "send" /\ chan[a] = <<>>
    /\ chan' = [chan EXCEPT ![a] = <<hand[a]>>]
    /\ hand' = [hand EXCEPT ![a] = Failure("none")]
    /\ rd' = [rd EXCEPT ![a] = IF Last(hand[a]) THEN "done" ELSE "read"]
    /\ UNCHANGED <<run, resources, checks, reads, world, seen>>

\* The reader waits for the channel alone: breaks ReadersExit.
NeverReleased(a) == FALSE
Released(a) == SessionOver(a)

SendAbandoned(a) ==
    /\ rd[a] = "send" /\ Released(a)
    /\ rd' = [rd EXCEPT ![a] = "done"]
    /\ hand' = [hand EXCEPT ![a] = Failure("none")]
    /\ UNCHANGED <<run, resources, checks, chan, reads, world, seen>>

Reader(a) == ReadFrame(a) \/ ReadFrameFails(a) \/ SendResult(a) \/ SendAbandoned(a)
-----------------------------------------------------------------------------
(* The producer answers an attempt's request, with the session it has, and   *)
(* its clock may be ahead.  Time passes; connections break.                 *)
Respond ==
    /\ cpc = "await" /\ \A i \in issued : i.response.nonce # attempt
    /\ \E s \in Sessions, ahead \in 0..MaxAhead :
          issued' = issued \cup
            {[response |-> BuildResponse(Camera, s, s, Request(attempt), clock + ahead),
              made |-> clock + ahead]}
    /\ UNCHANGED <<run, resources, checks, reader, clock, seen>>

Tick ==
    /\ cpc # "ended" /\ clock < MaxClock /\ clock' = clock + 1
    /\ UNCHANGED <<run, resources, checks, reader, issued, seen>>

PathBreaks(how) ==
    /\ conn[attempt] = "open"
    /\ conn' = [conn EXCEPT ![attempt] = how]
    /\ UNCHANGED <<run, sink, checks, reader, world, seen>>

(* What the path may deliver: a response as it was made, or with a field of   *)
(* it altered.                                                              *)
Altered(r) ==
    {[r EXCEPT !.session = s] : s \in Sessions}
      \cup {[r EXCEPT !.ephemeral = s] : s \in Sessions}
      \cup {[r EXCEPT !.nonce = a] : a \in Attempts}
      \cup {[r EXCEPT !.at = @ + 1]}
      \cup {[r EXCEPT !.certificate = c] : c \in Trusted}

Delivered == UNION {{i.response} \cup Altered(i.response) : i \in issued}

Consumer ==
    \/ Dial \/ DialFails \/ (\E r \in Delivered : AcceptResponse(r)) \/ HandshakeFails
    \/ NewFFplaySink \/ NewFFplaySinkFails \/ AcceptMedia \/ AcceptMediaFails
    \/ HandleFrame \/ StreamEnds
    \/ CloseSink \/ Retry \/ GiveUp \/ Return

(* What Run waits for ffplay to let it do.                                   *)
Player == Plays \/ PlayFails

Next ==
    \/ Consumer \/ Player
    \/ \E a \in Attempts : Reader(a)
    \/ Respond \/ Tick \/ (\E how \in {"remote", "lost"} : PathBreaks(how))

(* A goroutine that can go on does; a read ends at the latest when the       *)
(* connection has been idle for IdleTimeout.                               *)
Fairness == WF_vars(Consumer) /\ \A a \in Attempts : WF_vars(Reader(a))

SafetySpec == Init /\ [][Next]_vars
Spec == SafetySpec /\ Fairness

(* ffplay is not this code: that it takes its input or ends is an assumption, *)
(* and nothing in the consumer makes up for it if it hangs.                 *)
PlayerRuns == WF_vars(Player)

PlayingSpec == Spec /\ PlayerRuns
-----------------------------------------------------------------------------
(* Whatever responses the path delivers, however late, and whatever it has   *)
(* altered: a session and the key of its frames are those a producer        *)
(* answered to the request of this very attempt, and the producer's clock    *)
(* was less than a second ahead and not more than MaxHandshakeAge behind.    *)
SessionAnswered ==
    [][cpc = "await" /\ cpc' = "sink" =>
        \E i \in issued :
            /\ i.response.nonce = attempt
            /\ session' = i.response.session /\ frameKey' = i.response.ephemeral
            /\ clock - MaxHandshakeAge <= i.made /\ i.made < clock + Second]_vars

(* An answer that is delivered unaltered and in time, from a producer whose  *)
(* clock agrees, is accepted: rounding its time down to the second takes     *)
(* less than a second off MaxHandshakeAge, and never puts it in the future.  *)
PromptAccepted ==
    \A i \in issued :
        /\ cpc = "await" /\ i.response.nonce = attempt
        /\ i.made <= clock /\ clock <= i.made + MaxHandshakeAge - (Second - 1)
        => VerifyResponse(i.response, Request(attempt), clock)

(* Whatever the path does to the frames, those played in a session are the   *)
(* producer's, and in the order it made them.                               *)
PlayedInOrder ==
    \A i \in 1..Len(played) :
        /\ played[i].ok /\ played[i].seq > 0
        /\ Receiving => played[i].sid = session
        /\ i > 1 => played[i - 1].seq < played[i].seq

(* A damaged frame cannot shut out the genuine ones behind it: the replay    *)
(* guard is the number of the last frame played (frame_validator.go:66-71). *)
GuardIsLastPlayed ==
    Receiving =>
        lastSequence = IF played = <<>> THEN 0 ELSE played[Len(played)].seq

(* Run abandons a session, for another attempt or for ErrUntrustedConnection, *)
(* only over enough damaged frames of that very session: late, repeated or   *)
(* foreign frames do not count, an ordinary error is not retried, and the     *)
(* error comes after the last attempt only (app.go:80-94, receiver.go:125).   *)
GivenUpForCause ==
    [][/\ attempt' # attempt \/ (outcome' = "untrusted" /\ outcome # "untrusted") =>
            damaged * BadDen > BadNum * (MinFrames + 1)
       /\ attempt' # attempt => attempt' = attempt + 1
       /\ outcome' = "untrusted" => attempt' = MaxSessionAttempts]_vars

(* When a session is over, and before the next one begins, the player and    *)
(* the connection of every earlier one are closed.                          *)
NothingLeftBehind ==
    /\ \A a \in Attempts : sink[a] \/ conn[a] = "open" => a = attempt
    /\ cpc \in {"dial", "ended"} => \A a \in Attempts : ~sink[a] /\ conn[a] # "open"

(* A reader does not outlive its session for long, even with a frame in      *)
(* hand and the channel full.                                              *)
ReadersExit == \A a \in Attempts : (rd[a] # "off" /\ SessionOver(a)) ~> rd[a] = "done"

(* Once the connection to the relay is gone the session ends: the reader's    *)
(* failed read gets through the channel to the loop - as long as ffplay takes *)
(* its input or ends (PlayerRuns), for a loop that is held up in WritePayload *)
(* finds nothing out.                                                       *)
LossEnds == (Receiving /\ conn[attempt] # "open") ~> ~Receiving
=============================================================================
