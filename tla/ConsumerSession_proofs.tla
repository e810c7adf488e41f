----------------------- MODULE ConsumerSession_proofs -----------------------
(***************************************************************************)
(* Proofs about ConsumerSession, for any number of attempts, sessions and   *)
(* frames, any clocks and any policy.                                      *)
(*                                                                         *)
(* The properties are not inductive.  That an accepted response answers     *)
(* this attempt needs that every response on its way is one the producer    *)
(* built (Issued); that frames are played in order needs that the guard is   *)
(* the number of the last one; that no session is given up without cause     *)
(* needs that the window counts no more bad frames than were damaged         *)
(* (BadCounted), which holds as the key belongs to the session; and that     *)
(* nothing is left behind needs which phase holds what (Connected).          *)
(***************************************************************************)
EXTENDS ConsumerSession, FramePolicy_lemmas

-----------------------------------------------------------------------------
(* The handshake: what a consumer may conclude from a response it accepts,  *)
(* and which responses it cannot refuse, for every clock, MaxHandshakeAge    *)
(* and resolution of the time that is signed.                               *)

(* Rounding a time down to the second loses less than a second.             *)
LEMMA UnixRoundsDown ==
    ASSUME NEW now \in Nat
    PROVE  /\ Unix(now) \in Nat
           /\ Unix(now) * Second <= now /\ now < Unix(now) * Second + Second
           /\ Unix(now) * Second \in Nat
BY HandshakeAssumption DEF Unix

(* A clock past the first second of 1970 gives a positive timestamp.        *)
LEMMA UnixPositive ==
    ASSUME NEW now \in Nat, Second <= now
    PROVE  Unix(now) > 0
<1>1. Unix(now) # 0
  BY UnixRoundsDown, HandshakeAssumption
<1> QED
  BY <1>1, UnixRoundsDown

(* A response that carries the signature of another one verifies only if it  *)
(* is that one: verifyHandshake computes the digest from the fields of the   *)
(* response it was given (session.go:141).                                 *)
LEMMA SignatureBinds ==
    ASSUME NEW r, NEW camera, NEW sid, NEW ephemeral, NEW q, NEW made,
           SignatureVerifies(r),
           r.signature = BuildResponse(camera, sid, ephemeral, q, made).signature
    PROVE  /\ r.certificate = camera /\ r.session = sid
           /\ r.nonce = q.nonce /\ r.at = Unix(made) /\ r.ephemeral = ephemeral
<1> DEFINE theirs == SignPSS(camera, <<sid, q.nonce, Unix(made), ephemeral>>)
           mine == SignPSS(r.certificate, <<r.session, r.nonce, r.at, r.ephemeral>>)
<1>1. r.signature = theirs
  BY DEF BuildResponse, SignHandshake, BuildHandshakeMessage
<1>2. r.signature = mine
  BY DEF SignatureVerifies, BuildHandshakeMessage
<1>3. mine.signer = theirs.signer /\ mine.message = theirs.message
  BY <1>1, <1>2
<1>4. r.certificate = camera
  BY <1>3 DEF SignPSS
<1>5. <<r.session, r.nonce, r.at, r.ephemeral>> = <<sid, q.nonce, Unix(made), ephemeral>>
  BY <1>3 DEF SignPSS
<1> QED
  BY <1>4, <1>5

(* Whoever signed what is accepted answered this request, with this session  *)
(* and this key, and did so by a clock less than a second ahead of the       *)
(* consumer's and at most MaxHandshakeAge behind it (session.go:120-134).   *)
THEOREM AcceptedIsAnswer ==
    ASSUME NEW r, NEW q, NEW now \in Nat, VerifyResponse(r, q, now),
           NEW camera, NEW sid, NEW ephemeral, NEW asked, NEW made \in Nat,
           r.signature = BuildResponse(camera, sid, ephemeral, asked, made).signature
    PROVE  /\ asked.nonce = q.nonce /\ camera \in Trusted
           /\ r.session = sid /\ r.ephemeral = ephemeral
           /\ now - MaxHandshakeAge <= made /\ made < now + Second
<1>1. SignatureVerifies(r) /\ r.certificate \in Trusted /\ r.nonce = q.nonce
  BY DEF VerifyResponse, VerifyHandshake
<1>2. FreshEnough(r, now)
  BY DEF VerifyResponse, VerifyHandshake
<1>3. /\ r.certificate = camera /\ r.session = sid
      /\ r.nonce = asked.nonce /\ r.at = Unix(made) /\ r.ephemeral = ephemeral
  BY <1>1, SignatureBinds
<1>4. /\ 0 <= now - Unix(made) * Second
      /\ now - Unix(made) * Second <= MaxHandshakeAge
  BY <1>2, <1>3 DEF FreshEnough, AgeOf
<1>5. /\ Unix(made) * Second \in Nat
      /\ Unix(made) * Second <= made /\ made < Unix(made) * Second + Second
  BY UnixRoundsDown
<1>6. now - MaxHandshakeAge <= made /\ made < now + Second
  BY <1>4, <1>5, HandshakeAssumption
<1> QED
  BY <1>1, <1>3, <1>6

(* A response that arrives as it was made, from a camera of the trust store  *)
(* whose clock agrees, cannot be refused while it is younger than           *)
(* MaxHandshakeAge by the part of a second the timestamp may have lost.     *)
THEOREM PromptIsAccepted ==
    ASSUME NEW camera \in Trusted, NEW sid, NEW ephemeral, NEW nonce,
           sid # Zero, nonce # Zero,
           NEW made \in Nat, Second <= made,
           NEW now \in Nat, made <= now,
           now <= made + MaxHandshakeAge - (Second - 1)
    PROVE  VerifyResponse(
               BuildResponse(camera, sid, ephemeral, NewRequest(nonce), made),
               NewRequest(nonce), now)
<1> DEFINE q == NewRequest(nonce)
           r == BuildResponse(camera, sid, ephemeral, q, made)
<1>1. q.version = ProtocolVersion /\ q.nonce = nonce
  BY DEF NewRequest
<1>2. /\ r.certificate = camera /\ r.ephemeral = ephemeral /\ r.session = sid
      /\ r.nonce = nonce /\ r.at = Unix(made)
      /\ r.signature =
           SignPSS(camera, BuildHandshakeMessage(sid, nonce, Unix(made), ephemeral))
  BY <1>1 DEF BuildResponse, SignHandshake
<1>3. ValidRequest(q) /\ ValidResponse(r)
  BY <1>1, <1>2, UnixPositive DEF ValidRequest, ValidResponse
<1>4. /\ Unix(made) * Second \in Nat
      /\ Unix(made) * Second <= made /\ made < Unix(made) * Second + Second
  BY UnixRoundsDown
<1>5. FreshEnough(r, now)
  BY <1>2, <1>4, HandshakeAssumption DEF FreshEnough, AgeOf
<1>6. SignatureVerifies(r)
  BY <1>2 DEF SignatureVerifies
<1> QED
  BY <1>1, <1>2, <1>3, <1>5, <1>6 DEF VerifyResponse, VerifyHandshake

-----------------------------------------------------------------------------
(* The consumer's invariant.                                               *)

(* A response on its way was built for some attempt's request, with a        *)
(* session and the key made for it.                                        *)
Issued ==
    \A i \in issued : \E s \in Sessions, a \in Attempts, made \in Nat :
        /\ i = [response |-> BuildResponse(Camera, s, s, Request(a), made),
                made |-> made]
        /\ Second <= made

KeyOfSession == frameKey = session

NothingYet ==
    cpc \notin {"receive", "play", "release", "hangup"} => played = <<>> /\ damaged = 0

BadCounted == Receiving => window.bad <= damaged

(* Which phase holds the player and the connection.                         *)
Connected ==
    /\ \A a \in Attempts : sink[a] \/ conn[a] = "open" => a = attempt
    /\ cpc \in {"dial", "await", "sink", "hangup", "ended"} => ~sink[attempt]
    /\ cpc \in {"dial", "ended"} => conn[attempt] # "open"
    /\ cpc \in {"await", "sink", "accept", "receive", "play", "release"} =>
          conn[attempt] \in {"open", "remote", "lost"}

(* A verdict for which the session will be abandoned has its cause.          *)
NoFalseAlarm ==
    cpc \in {"play", "release", "hangup"} /\ result = "rehandshake" =>
        damaged * BadDen > BadNum * (MinFrames + 1)

Support == Issued /\ KeyOfSession /\ NothingYet /\ BadCounted /\ Connected
Safe == PlayedInOrder /\ GuardIsLastPlayed /\ NoFalseAlarm
Rest == Support /\ Safe
Inv == TypeOK /\ Rest
-----------------------------------------------------------------------------
(* What the reader may hand over, and what the channel holds.               *)
LEMMA ResultFacts ==
    /\ \A k \in {"none", "eof", "remote", "lost"} :
          Failure(k) \in Results /\ Failure(k).kind = k
    /\ \A f \in Frames :
          /\ f \in Results /\ f.kind = "frame"
          /\ f.seq \in 0..MaxSequence /\ f.sid \in Sessions
    /\ \A f \in Results : f.kind = "frame" => f \in Frames
    /\ \A f \in Carried : f \in Frames
    /\ \A f \in Results : <<f>> \in Seq(Results) /\ Len(<<f>>) = 1
    /\ <<>> \in Seq(Results) /\ Len(<<>>) = 0
    /\ \A s \in Seq(Results) : s # <<>> => Head(s) \in Results
BY DEF Failure, Results, Frames, Carried

LEMMA WindowFacts ==
    NoWindow \in Windows /\ NoWindow.bad = 0 /\ NoWindow.total = 0
BY DEF NoWindow, NewWindow, Windows

(* An answer the consumer accepts, altered or not, is one the producer gave  *)
(* to this attempt, and by a clock that agrees.                             *)
LEMMA AcceptedAnswer ==
    ASSUME Inv, NEW r \in Delivered, VerifyResponse(r, Request(attempt), clock)
    PROVE  /\ r.session \in Sessions /\ r.ephemeral = r.session
           /\ \E i \in issued :
                 /\ i.response.nonce = attempt
                 /\ r.session = i.response.session
                 /\ r.ephemeral = i.response.ephemeral
                 /\ clock - MaxHandshakeAge <= i.made /\ i.made < clock + Second
<1>1. PICK i \in issued : r \in {i.response} \cup Altered(i.response)
  BY DEF Delivered
<1>2. PICK s \in Sessions, a \in Attempts, made \in Nat :
        i = [response |-> BuildResponse(Camera, s, s, Request(a), made), made |-> made]
  BY DEF Inv, Rest, Support, Issued
<1> DEFINE b == BuildResponse(Camera, s, s, Request(a), made)
<1>3. i.response = b /\ i.made = made
  BY <1>2
<1>4. /\ b.nonce = a /\ b.session = s /\ b.ephemeral = s
      /\ DOMAIN b = {"certificate", "ephemeral", "session", "nonce", "at", "signature"}
  BY DEF BuildResponse, SignHandshake, Request, NewRequest
<1>5. r.signature = b.signature
  BY <1>1, <1>3, <1>4 DEF Altered, BuildResponse, SignHandshake
<1>6. clock \in Nat
  BY ConsumerAssumption DEF Inv, TypeOK
<1>7. /\ Request(a).nonce = Request(attempt).nonce
      /\ r.session = s /\ r.ephemeral = s
      /\ clock - MaxHandshakeAge <= made /\ made < clock + Second
  BY <1>5, <1>6, AcceptedIsAnswer
<1>8. a = attempt
  BY <1>7 DEF Request, NewRequest
<1> QED
  BY <1>3, <1>4, <1>7, <1>8

(* The handshake: a session, with its key, is only taken from an answer.     *)
LEMMA AcceptResponseKeeps ==
    ASSUME Inv, NEW r \in Delivered, AcceptResponse(r)
    PROVE  Inv'
<1> USE DEF Inv, AcceptResponse
<1>1. /\ VerifyResponse(r, Request(attempt), clock)
      /\ session' = r.session /\ frameKey' = r.ephemeral
      /\ issued' \subseteq issued
  OBVIOUS
<1>2. r.session \in Sessions /\ r.ephemeral = r.session
  BY <1>1, AcceptedAnswer
<1>3. TypeOK'
  BY <1>1, <1>2, ConsumerAssumption
     DEF TypeOK, Goto, resources, reader, seen, Attempts
<1>4. Issued'
  BY <1>1 DEF Rest, Support, Issued
<1>5. (KeyOfSession /\ NothingYet /\ BadCounted /\ Connected)'
  BY <1>1, <1>2 DEF Rest, Support, KeyOfSession, NothingYet, BadCounted,
     Connected, Receiving, Goto, resources, seen
<1>6. Safe'
  BY DEF Rest, Safe, PlayedInOrder, GuardIsLastPlayed, NoFalseAlarm, Support,
     NothingYet, Receiving, Goto, seen, TypeOK
<1> QED
  BY <1>3, <1>4, <1>5, <1>6 DEF Rest, Support

(* The loop's body.  The key belongs to the session, so the frames that       *)
(* count as bad are exactly those found damaged.                            *)
LEMMA HandleFrameKeeps ==
    ASSUME Inv, HandleFrame
    PROVE  Inv'
<1> DEFINE f == Head(chan[attempt])
           invalid == SignatureInvalid(f)
           one == IF invalid THEN 1 ELSE 0
           verdict == RecordFrame(window, invalid, clock)
<1> USE DEF Inv
<1>1. /\ cpc = "receive" /\ f \in Frames /\ attempt \in Attempts
      /\ lastSequence' = GuardAfter(f) /\ window' = verdict.window
      /\ played' = IF Valid(f) THEN Append(played, f) ELSE played
  BY ResultFacts DEF HandleFrame, TypeOK
<1>2. /\ f.seq \in 0..MaxSequence /\ f.sid \in Sessions /\ f.ok \in BOOLEAN
      /\ invalid \in BOOLEAN
  BY <1>1, ResultFacts DEF Frames, SignatureInvalid, InOrder, Genuine
<1>3. frameKey = session
  BY DEF Rest, Support, KeyOfSession
<1>4. damaged' = damaged + one /\ damaged' \in Nat
  <2>1. invalid <=> InOrder(f) /\ ~f.ok
    BY <1>2, <1>3 DEF SignatureInvalid, InOrder, Genuine
  <2>2. damaged' = IF f.ok \/ ~InOrder(f) THEN damaged ELSE damaged + 1
    BY DEF HandleFrame
  <2>3. damaged' = damaged + one
    BY <2>1, <2>2 DEF TypeOK
  <2> QED
    BY <2>3 DEF TypeOK
<1>5. /\ window \in Windows /\ window.bad <= window.total /\ clock \in Int
      /\ window.bad + one <= damaged'
  <2>1. window \in Windows /\ window.bad <= window.total /\ clock \in Int
    BY ConsumerAssumption DEF TypeOK
  <2>2. window.bad <= damaged /\ window.bad \in Nat /\ damaged \in Nat /\ one \in {0, 1}
    BY <1>1, <2>1 DEF Rest, Support, BadCounted, Receiving, Windows, TypeOK
  <2> QED
    BY <1>4, <2>1, <2>2
<1>6. /\ window' \in Windows /\ window'.bad <= window'.total
      /\ verdict.action \in {"none", "rehandshake"}
      /\ window'.bad <= damaged'
      /\ verdict.action = "rehandshake" => damaged' * BadDen > BadNum * (MinFrames + 1)
  <2>1. /\ verdict.window \in Windows /\ verdict.window.bad <= verdict.window.total
        /\ verdict.action \in {"none", "rehandshake"}
        /\ verdict.window.bad <= damaged'
        /\ verdict.action = "rehandshake" => damaged' * BadDen > BadNum * (MinFrames + 1)
    BY <1>2, <1>4, <1>5, RecordFrameCounts
  <2> QED
    BY <1>1, <2>1
<1>7. /\ attempt' = attempt /\ outcome' = outcome /\ result' = verdict.action
      /\ cpc' \in {"receive", "play", "release"}
  BY DEF HandleFrame, AfterFrame, Finish
<1>8. UNCHANGED <<session, frameKey, rd, hand, reads, resources, world>>
  BY DEF HandleFrame
<1>9. chan' = [chan EXCEPT ![attempt] = <<>>]
  BY DEF HandleFrame
<1>10. lastSequence \in 0..MaxSequence /\ played \in Seq(Frames)
  BY DEF TypeOK
<1>11. TypeOK'
  <2>1. lastSequence' \in 0..MaxSequence
    BY <1>1, <1>2, <1>10 DEF GuardAfter
  <2>2. played' \in Seq(Frames)
    BY <1>1, <1>10
  <2>3. (/\ chan \in [Attempts -> Seq(Results)]
         /\ \A a \in Attempts : Len(chan[a]) <= 1)'
    BY <1>1, <1>9, ResultFacts DEF TypeOK
  <2> QED
    BY <1>4, <1>6, <1>7, <1>8, <2>1, <2>2, <2>3 DEF TypeOK, resources, world
<1>12. Support'
  <2>1. (Issued /\ KeyOfSession)'
    BY <1>8 DEF Rest, Support, Issued, KeyOfSession, world
  <2>2. (NothingYet /\ BadCounted)'
    BY <1>6, <1>7 DEF NothingYet, BadCounted, Receiving
  <2>3. Connected'
    BY <1>1, <1>7, <1>8 DEF Rest, Support, Connected, resources
  <2> QED
    BY <2>1, <2>2, <2>3 DEF Support
<1>13. PlayedInOrder /\ lastSequence = IF played = <<>> THEN 0 ELSE played[Len(played)].seq
  BY <1>1 DEF Rest, Safe, GuardIsLastPlayed, Receiving
<1>14. Safe'
  <2>1. CASE Valid(f)
    <3>1. /\ f.sid = session /\ f.ok /\ f.seq > lastSequence
          /\ played' = Append(played, f) /\ lastSequence' = f.seq
      BY <1>1, <2>1 DEF Valid, InOrder, Genuine, GuardAfter
    <3>2. /\ Len(played') = Len(played) + 1 /\ played'[Len(played) + 1] = f
          /\ \A i \in 1..Len(played) : played'[i] = played[i]
          /\ Len(played) \in Nat /\ played' # <<>>
      BY <1>10, <1>1, <3>1
    <3>3. Len(played) >= 1 => played[Len(played)].seq = lastSequence
      BY <1>13, <3>2
    <3>4. GuardIsLastPlayed'
      BY <3>1, <3>2 DEF GuardIsLastPlayed
    <3>5. PlayedInOrder'
      <4> SUFFICES ASSUME NEW i \in 1..Len(played')
                   PROVE  /\ played'[i].ok /\ played'[i].seq > 0
                          /\ Receiving' => played'[i].sid = session'
                          /\ i > 1 => played'[i - 1].seq < played'[i].seq
        BY DEF PlayedInOrder
      <4>1. CASE i = Len(played) + 1
        BY <4>1, <1>2, <1>8, <1>10, <3>1, <3>2, <3>3
      <4>2. CASE i # Len(played) + 1
        <5>1. i \in 1..Len(played) /\ (i > 1 => i - 1 \in 1..Len(played))
          BY <4>2, <3>2
        <5> QED
          BY <5>1, <1>1, <1>8, <1>13, <3>2 DEF PlayedInOrder, Receiving
      <4> QED
        BY <4>1, <4>2
    <3> QED
      BY <3>4, <3>5, <1>6, <1>7 DEF Safe, NoFalseAlarm
  <2>2. CASE ~Valid(f)
    <3>1. played' = played /\ lastSequence' = lastSequence
      BY <1>1, <2>2 DEF GuardAfter
    <3> QED
      BY <3>1, <1>1, <1>6, <1>7, <1>8, <1>13
         DEF Safe, PlayedInOrder, GuardIsLastPlayed, NoFalseAlarm, Receiving
  <2> QED
    BY <2>1, <2>2
<1> QED
  BY <1>11, <1>12, <1>14 DEF Rest

(* ffplay takes the frame, or is gone.                                       *)
LEMMA PlayerKeeps ==
    ASSUME Inv, Player
    PROVE  Inv'
BY DEF Player, Plays, PlayFails, AfterFrame, Goto, Finish, Inv, TypeOK, Rest, Support,
       Safe, Issued, KeyOfSession, NothingYet, BadCounted, Connected, PlayedInOrder,
       GuardIsLastPlayed, NoFalseAlarm, Receiving, resources, checks, reader, world, seen

(* Run: the connection is closed and nothing of the session remains.         *)
LEMMA HangUpKeeps ==
    ASSUME Inv, cpc = "hangup", HangUp,
           \/ /\ cpc' = "dial" /\ attempt' = attempt + 1 /\ AnotherAttempt
              /\ result' = "none" /\ outcome' = outcome
           \/ /\ cpc' = "ended" /\ attempt' = attempt /\ result' = result
              /\ outcome' \in {"ok", "untrusted", "error"}
    PROVE  Inv'
<1> USE ConsumerAssumption DEF Inv, Attempts
<1>1. attempt \in Attempts /\ attempt' \in Attempts
  BY DEF TypeOK, AnotherAttempt
<1>2. /\ conn' = [conn EXCEPT ![attempt] = IF @ = "none" THEN @ ELSE "closed"]
      /\ conn' \in [Attempts -> {"none", "open", "remote", "lost", "closed"}]
      /\ conn'[attempt] # "open"
      /\ \A a \in Attempts : a # attempt => conn'[a] = conn[a]
  BY <1>1 DEF HangUp, TypeOK
<1>3. (/\ chan \in [Attempts -> Seq(Results)]
       /\ \A a \in Attempts : Len(chan[a]) <= 1)'
  <2> DEFINE c == IF chan[attempt] = <<>> THEN chan[attempt] ELSE <<Failure("none")>>
  <2>1. chan[attempt] \in Seq(Results) /\ Len(chan[attempt]) <= 1
    BY <1>1 DEF TypeOK
  <2>2. Failure("none") \in Results
    BY ResultFacts
  <2>3. <<Failure("none")>> \in Seq(Results) /\ Len(<<Failure("none")>>) <= 1
    BY <2>2
  <2>4. c \in Seq(Results) /\ Len(c) <= 1
    BY <2>1, <2>3
  <2>5. chan' = [chan EXCEPT ![attempt] = c]
    BY DEF HangUp
  <2> QED
    BY <2>4, <2>5, <1>1 DEF TypeOK
<1>4. /\ session' = None /\ frameKey' = None /\ window' = NoWindow
      /\ played' = <<>> /\ damaged' = 0
      /\ UNCHANGED <<lastSequence, sink, rd, hand, reads, world>>
  BY DEF HangUp
<1>5. TypeOK'
  BY <1>1, <1>2, <1>3, <1>4, WindowFacts DEF TypeOK, world
<1>6. \A a \in Attempts : sink'[a] = sink[a] /\ ~sink[a]
  BY <1>1, <1>4 DEF Rest, Support, Connected
<1>7. \A a \in Attempts : conn'[a] # "open"
  BY <1>1, <1>2 DEF Rest, Support, Connected
<1>8. Support'
  BY <1>1, <1>4, <1>6, <1>7
     DEF Rest, Support, Issued, KeyOfSession, NothingYet, BadCounted, Connected,
         Receiving, world
<1>9. Safe'
  BY <1>4 DEF Safe, PlayedInOrder, GuardIsLastPlayed, NoFalseAlarm, Receiving
<1> QED
  BY <1>5, <1>8, <1>9 DEF Rest

(* The reader touches its own variables only, and hands over results.        *)
LEMMA ReaderKeeps ==
    ASSUME Inv,
           UNCHANGED <<run, resources, checks, world, seen>>,
           rd' \in [Attempts -> {"off", "read", "send", "done"}],
           hand' \in [Attempts -> Results], reads' \in 0..MaxReads,
           chan' \in [Attempts -> Seq(Results)],
           \A a \in Attempts : Len(chan'[a]) <= 1
    PROVE  Inv'
<1> USE DEF Inv, run, resources, checks, world, seen, Receiving
<1>1. TypeOK'
  BY DEF TypeOK
<1>2. Support'
  BY DEF Rest, Support, Issued, KeyOfSession, NothingYet, BadCounted, Connected
<1>3. Safe'
  BY DEF Rest, Safe, PlayedInOrder, GuardIsLastPlayed, NoFalseAlarm
<1> QED
  BY <1>1, <1>2, <1>3 DEF Rest

LEMMA ReadsKeeps ==
    ASSUME Inv, NEW a \in Attempts, NEW r \in Results, Reads(a, r),
           reads' \in 0..MaxReads
    PROVE  Inv'
<1>1. /\ hand' \in [Attempts -> Results] /\ chan' = chan
      /\ rd' \in [Attempts -> {"off", "read", "send", "done"}]
  BY DEF Reads, Inv, TypeOK
<1>2. /\ chan' \in [Attempts -> Seq(Results)]
      /\ \A b \in Attempts : Len(chan'[b]) <= 1
  BY <1>1 DEF Inv, TypeOK
<1>3. UNCHANGED <<run, resources, checks, world, seen>>
  BY DEF Reads
<1> QED
  BY <1>1, <1>2, <1>3, ReaderKeeps

LEMMA ReaderStepKeeps ==
    ASSUME Inv, NEW a \in Attempts, Reader(a)
    PROVE  Inv'
<1>1. CASE ReadFrame(a)
  <2>1. PICK f \in Carried : Reads(a, f)
    BY <1>1 DEF ReadFrame
  <2>2. reads' \in 0..MaxReads
    BY <1>1, ConsumerAssumption DEF ReadFrame, Inv, TypeOK
  <2> QED
    BY <2>1, <2>2, ReadsKeeps, ResultFacts
<1>2. CASE ReadFrameFails(a)
  <2>1. reads' \in 0..MaxReads
    BY <1>2 DEF ReadFrameFails, Inv, TypeOK
  <2>2. ~SessionOver(a) => conn[a] \in {"open", "remote", "lost"}
    BY DEF SessionOver, Receiving, Inv, Rest, Support, Connected
  <2>3. PICK k \in {"eof", "remote", "lost"} : Reads(a, Failure(k))
    BY <1>2, <2>2 DEF ReadFrameFails
  <2> QED
    BY <2>1, <2>3, ReadsKeeps, ResultFacts
<1>3. CASE SendResult(a)
  <2>1. chan' = [chan EXCEPT ![a] = <<hand[a]>>] /\ hand[a] \in Results
    BY <1>3 DEF SendResult, Inv, TypeOK
  <2>2. /\ chan' \in [Attempts -> Seq(Results)]
        /\ \A b \in Attempts : Len(chan'[b]) <= 1
    BY <2>1, ResultFacts DEF Inv, TypeOK
  <2>3. /\ hand' \in [Attempts -> Results] /\ reads' \in 0..MaxReads
        /\ rd' \in [Attempts -> {"off", "read", "send", "done"}]
    BY <1>3, ResultFacts DEF SendResult, Inv, TypeOK
  <2>4. UNCHANGED <<run, resources, checks, world, seen>>
    BY <1>3 DEF SendResult
  <2> QED
    BY <2>2, <2>3, <2>4, ReaderKeeps
<1>4. CASE SendAbandoned(a)
  <2>1. /\ hand' \in [Attempts -> Results] /\ reads' \in 0..MaxReads
        /\ rd' \in [Attempts -> {"off", "read", "send", "done"}]
        /\ chan' \in [Attempts -> Seq(Results)]
        /\ \A b \in Attempts : Len(chan'[b]) <= 1
    BY <1>4, ResultFacts DEF SendAbandoned, Inv, TypeOK
  <2>2. UNCHANGED <<run, resources, checks, world, seen>>
    BY <1>4 DEF SendAbandoned
  <2> QED
    BY <2>1, <2>2, ReaderKeeps
<1> QED
  BY <1>1, <1>2, <1>3, <1>4 DEF Reader

(* The channel the loop has taken the last result from is an empty one.      *)
LEMMA LastTaken ==
    ASSUME Inv, StreamEnds
    PROVE  (/\ chan \in [Attempts -> Seq(Results)]
            /\ \A a \in Attempts : Len(chan[a]) <= 1)'
BY ResultFacts DEF StreamEnds, Inv, TypeOK

(* The other steps of runSession: each moves on, and touches what its phase  *)
(* owns.                                                                   *)
LEMMA ConsumerStepKeeps ==
    ASSUME Inv, Consumer
    PROVE  Inv'
<1> USE ConsumerAssumption
    DEF Inv, Rest, Support, Safe, TypeOK, Issued, KeyOfSession, NothingYet,
        BadCounted, Connected, PlayedInOrder, GuardIsLastPlayed, NoFalseAlarm,
        Receiving, Goto, Finish, run, resources, checks, reader, world, seen, Attempts
<1>1. CASE Dial
  BY <1>1 DEF Dial
<1>2. CASE DialFails
  BY <1>2 DEF DialFails
<1>3. CASE HandshakeFails
  BY <1>3 DEF HandshakeFails
<1>4. CASE NewFFplaySink
  BY <1>4 DEF NewFFplaySink
<1>5. CASE NewFFplaySinkFails
  BY <1>5 DEF NewFFplaySinkFails
<1>6. CASE AcceptMedia
  BY <1>6, WindowFacts DEF AcceptMedia, NewGuard
<1>7. CASE AcceptMediaFails
  BY <1>7 DEF AcceptMediaFails
<1>8. CASE StreamEnds
  BY <1>8, LastTaken DEF StreamEnds
<1>9. CASE CloseSink
  BY <1>9 DEF CloseSink, SinkClosed
<1>10. CASE \E r \in Delivered : AcceptResponse(r)
  BY <1>10, AcceptResponseKeeps
<1>11. CASE HandleFrame
  BY <1>11, HandleFrameKeeps
<1>13. CASE Retry
  BY <1>13, HangUpKeeps DEF Retry
<1>14. CASE GiveUp
  BY <1>14, HangUpKeeps DEF GiveUp
<1>15. CASE Return
  BY <1>15, HangUpKeeps DEF Return
<1> QED
  BY <1>1, <1>2, <1>3, <1>4, <1>5, <1>6, <1>7, <1>8, <1>9, <1>10, <1>11, <1>13,
     <1>14, <1>15 DEF Consumer

(* The producer, the clock and the network.                                 *)
LEMMA RespondKeeps ==
    ASSUME Inv, Respond
    PROVE  Inv'
<1>1. PICK s \in Sessions, ahead \in 0..MaxAhead :
        issued' = issued \cup
            {[response |-> BuildResponse(Camera, s, s, Request(attempt), clock + ahead),
              made |-> clock + ahead]}
  BY DEF Respond
<1> DEFINE made == clock + ahead
           b == BuildResponse(Camera, s, s, Request(attempt), made)
           i == [response |-> b, made |-> made]
<1>2. made \in Nat /\ Second <= made /\ attempt \in Attempts
  BY ConsumerAssumption, HandshakeAssumption DEF Inv, TypeOK
<1>3. i.response = b /\ i.made = made /\ b.session = s
  BY DEF BuildResponse, SignHandshake
<1>4. UNCHANGED <<run, resources, checks, reader, clock, seen>>
  BY DEF Respond
<1>5. Issued'
  <2>1. i = [response |-> b, made |-> made] /\ Second <= made
    BY <1>2
  <2> QED
    BY <1>1, <1>2, <2>1 DEF Inv, Rest, Support, Issued
<1>6. (\A j \in issued : j.response.session \in Sessions /\ j.made \in Nat)'
  BY <1>1, <1>2, <1>3 DEF Inv, TypeOK
<1>7. TypeOK'
  BY <1>4, <1>6 DEF Inv, TypeOK, run, resources, checks, reader, seen
<1>8. (KeyOfSession /\ NothingYet /\ BadCounted /\ Connected /\ Safe)'
  BY <1>4 DEF Inv, Rest, Support, KeyOfSession, NothingYet, BadCounted, Connected,
     Safe, PlayedInOrder, GuardIsLastPlayed, NoFalseAlarm, Receiving, run, resources,
     checks, seen
<1> QED
  BY <1>5, <1>7, <1>8 DEF Inv, Rest, Support

LEMMA WorldKeeps ==
    ASSUME Inv, Tick \/ \E how \in {"remote", "lost"} : PathBreaks(how)
    PROVE  Inv'
<1> USE DEF Inv, Rest, Support, Safe, Issued, KeyOfSession, NothingYet,
        BadCounted, Connected, PlayedInOrder, GuardIsLastPlayed, NoFalseAlarm,
        Receiving, run, resources, checks, reader, world, seen
<1>1. CASE Tick
  <2>1. clock' \in Start..MaxClock
    BY <1>1, ConsumerAssumption DEF Tick, TypeOK
  <2>2. UNCHANGED <<run, resources, checks, reader, issued, seen>>
    BY <1>1 DEF Tick
  <2>3. TypeOK'
    BY <2>1, <2>2 DEF TypeOK
  <2> QED
    BY <2>2, <2>3
<1>2. ASSUME NEW how \in {"remote", "lost"}, PathBreaks(how) PROVE Inv'
  BY <1>2 DEF PathBreaks, TypeOK
<1> QED
  BY <1>1, <1>2

-----------------------------------------------------------------------------
LEMMA InitInv == Init => Inv
BY ConsumerAssumption, HandshakeAssumption, ResultFacts, WindowFacts
   DEF Init, Inv, Rest, Support, Safe, TypeOK, Issued, KeyOfSession, NothingYet,
       BadCounted, Connected, PlayedInOrder, GuardIsLastPlayed, NoFalseAlarm, Receiving,
       Attempts

LEMMA NextInv == Inv /\ [Next]_vars => Inv'
<1> SUFFICES ASSUME Inv, [Next]_vars PROVE Inv'
  OBVIOUS
<1>1. CASE UNCHANGED vars
  BY <1>1 DEF vars, run, resources, checks, reader, world, seen, Inv, Rest,
     Support, Safe, TypeOK, Issued, KeyOfSession, NothingYet, BadCounted,
     Connected, PlayedInOrder, GuardIsLastPlayed, NoFalseAlarm, Receiving
<1> QED
  BY <1>1, ConsumerStepKeeps, PlayerKeeps, ReaderStepKeeps, RespondKeeps, WorldKeeps DEF Next

LEMMA Invariance == Spec => []Inv
BY InitInv, NextInv, PTL DEF Spec, SafetySpec

(* The consumer's state is well typed: Run never makes more than            *)
(* MaxSessionAttempts sessions, a reader's channel never holds more than one *)
(* result, and a window never counts more bad frames than frames.           *)
THEOREM WellTyped == Spec => []TypeOK
BY Invariance, PTL DEF Inv

(* Whatever the path delivers, however late and however altered, a session   *)
(* and its key come from an answer to this attempt's request, by a clock     *)
(* that agrees within a second and MaxHandshakeAge.                         *)
THEOREM SessionsAreAnswered == Spec => SessionAnswered
<1> DEFINE A == cpc = "await" /\ cpc' = "sink" =>
        \E i \in issued :
            /\ i.response.nonce = attempt
            /\ session' = i.response.session /\ frameKey' = i.response.ephemeral
            /\ clock - MaxHandshakeAge <= i.made /\ i.made < clock + Second
<1>1. ASSUME Inv, [Next]_vars PROVE [A]_vars
  <2> SUFFICES ASSUME Next, cpc = "await", cpc' = "sink" PROVE A
    BY <1>1
  <2>1. PICK r \in Delivered : AcceptResponse(r)
    BY DEF Next, Consumer, Dial, DialFails, HandshakeFails, NewFFplaySink,
       NewFFplaySinkFails, AcceptMedia, AcceptMediaFails, HandleFrame, AfterFrame,
       Player, Plays, PlayFails, StreamEnds, CloseSink, Retry, GiveUp, Return, Reader,
       ReadFrame, ReadFrameFails, SendResult, SendAbandoned, Reads, Respond, Tick,
       PathBreaks, Goto, Finish, run
  <2>2. /\ VerifyResponse(r, Request(attempt), clock)
        /\ session' = r.session /\ frameKey' = r.ephemeral
    BY <2>1 DEF AcceptResponse
  <2> QED
    BY <1>1, <2>2, AcceptedAnswer
<1> QED
  BY <1>1, Invariance, PTL DEF Spec, SafetySpec, SessionAnswered

(* A prompt and unaltered answer is never refused, for every clock at which  *)
(* it was made.                                                            *)
THEOREM PromptAnswersAccepted == Spec => []PromptAccepted
<1>1. Inv => PromptAccepted
  <2> SUFFICES ASSUME Inv, NEW i \in issued,
                      cpc = "await", i.response.nonce = attempt,
                      i.made <= clock,
                      clock <= i.made + MaxHandshakeAge - (Second - 1)
               PROVE  VerifyResponse(i.response, Request(attempt), clock)
    BY DEF PromptAccepted
  <2>1. PICK s \in Sessions, a \in Attempts, made \in Nat :
          /\ i = [response |-> BuildResponse(Camera, s, s, Request(a), made), made |-> made]
          /\ Second <= made
    BY DEF Inv, Rest, Support, Issued
  <2>2. i.response = BuildResponse(Camera, s, s, NewRequest(a), made) /\ i.made = made
    BY <2>1 DEF Request
  <2>3. a = attempt
    BY <2>2 DEF BuildResponse, SignHandshake, NewRequest
  <2>4. clock \in Nat /\ Camera \in Trusted /\ s # Zero /\ a # Zero
    BY ConsumerAssumption DEF Inv, TypeOK
  <2>5. VerifyResponse(i.response, NewRequest(a), clock)
    BY <2>1, <2>2, <2>4, PromptIsAccepted
  <2> QED
    BY <2>3, <2>5 DEF Request
<1> QED
  BY <1>1, Invariance, PTL

(* What is played are the producer's frames of the session, in order.        *)
THEOREM PlaysInOrder == Spec => []PlayedInOrder
BY Invariance, PTL DEF Inv, Rest, Safe

(* The replay guard is the number of the last frame played.                 *)
THEOREM GuardFollowsPlay == Spec => []GuardIsLastPlayed
BY Invariance, PTL DEF Inv, Rest, Safe

(* No player and no connection outlives its session.                        *)
THEOREM NothingStaysBehind == Spec => []NothingLeftBehind
<1>1. Inv => NothingLeftBehind
  BY DEF Inv, Rest, Support, Connected, NothingLeftBehind
<1> QED
  BY <1>1, Invariance, PTL
-----------------------------------------------------------------------------
(* How the loop and its reader meet over the channel of one place.  The      *)
(* reader of an attempt is started with its loop; it is done exactly when    *)
(* its last result is in the channel, which ends the loop.                  *)
Begins(a) == a = attempt /\ cpc \in {"dial", "await", "sink", "accept"}

NotStarted ==
    \A a \in Attempts : a > attempt \/ Begins(a) => rd[a] = "off" /\ chan[a] = <<>>

LastIsLast ==
    Receiving =>
        /\ rd[attempt] # "off"
        /\ rd[attempt] = "done" <=> chan[attempt] # <<>> /\ Last(Head(chan[attempt]))

NamesItsEnd ==
    Receiving =>
        /\ rd[attempt] = "send" => hand[attempt].kind # "none"
        /\ chan[attempt] # <<>> => Head(chan[attempt]).kind # "none"

Handover == NotStarted /\ LastIsLast /\ NamesItsEnd

LEMMA HandoverStep == Inv /\ Handover /\ [Next]_vars => Handover'
<1> SUFFICES ASSUME Inv, Handover, [Next]_vars PROVE Handover'
  OBVIOUS
<1> USE DEF Handover, NotStarted, Begins, LastIsLast, NamesItsEnd, Receiving
<1>1. /\ attempt \in Attempts /\ Attempts \subseteq Nat /\ attempt \in Nat
      /\ rd \in [Attempts -> {"off", "read", "send", "done"}]
      /\ hand \in [Attempts -> Results] /\ chan \in [Attempts -> Seq(Results)]
  BY ConsumerAssumption DEF Inv, TypeOK, Attempts
<1>2. CASE UNCHANGED <<run, reader>>
  BY <1>1, <1>2 DEF run, reader
<1>3. CASE Dial \/ DialFails \/ HandshakeFails \/ NewFFplaySink \/ NewFFplaySinkFails
             \/ AcceptMediaFails \/ CloseSink
  BY <1>1, <1>3 DEF Dial, DialFails, HandshakeFails, NewFFplaySink, NewFFplaySinkFails,
     AcceptMediaFails, CloseSink, Goto, Finish, reader
<1>4. CASE \E r \in Delivered : AcceptResponse(r)
  BY <1>1, <1>4 DEF AcceptResponse, Goto, reader
<1>5. CASE AcceptMedia
  BY <1>1, <1>5 DEF AcceptMedia, Goto
<1>6. CASE HandleFrame
  BY <1>1, <1>6 DEF HandleFrame, AfterFrame, Finish, Last
<1>7. CASE Player \/ StreamEnds
  BY <1>1, <1>7 DEF Player, Plays, PlayFails, AfterFrame, Goto, StreamEnds, Finish, reader
<1>8. CASE Retry \/ GiveUp \/ Return
  BY <1>1, <1>8 DEF Retry, GiveUp, Return, HangUp
<1>9. ASSUME NEW a \in Attempts, Reader(a) PROVE Handover'
  <2>1. CASE ReadFrame(a)
    <3>1. PICK f \in Carried : Reads(a, f)
      BY <2>1 DEF ReadFrame
    <3>2. f.kind = "frame" /\ rd[a] = "read"
      BY <2>1, ResultFacts DEF ReadFrame
    <3> QED
      BY <1>1, <3>1, <3>2 DEF Reads, run
  <2>2. CASE ReadFrameFails(a)
    <3>1. ~SessionOver(a) => conn[a] \in {"open", "remote", "lost"}
      BY DEF SessionOver, Receiving, Inv, Rest, Support, Connected
    <3>2. PICK k \in {"eof", "remote", "lost"} : Reads(a, Failure(k))
      BY <2>2, <3>1 DEF ReadFrameFails
    <3>3. Failure(k).kind # "none" /\ rd[a] = "read"
      BY <2>2, ResultFacts DEF ReadFrameFails
    <3> QED
      BY <1>1, <3>2, <3>3 DEF Reads, run
  <2>3. CASE SendResult(a)
    <3>1. /\ rd[a] = "send" /\ chan[a] = <<>> /\ hand[a] \in Results
          /\ chan' = [chan EXCEPT ![a] = <<hand[a]>>]
          /\ hand' = [hand EXCEPT ![a] = Failure("none")]
          /\ rd' = [rd EXCEPT ![a] = IF Last(hand[a]) THEN "done" ELSE "read"]
          /\ UNCHANGED run
      BY <1>1, <2>3 DEF SendResult
    <3>2. <<hand[a]>> # <<>> /\ Head(<<hand[a]>>) = hand[a]
      BY <3>1
    <3> QED
      BY <1>1, <3>1, <3>2 DEF run, Last
  <2>4. CASE SendAbandoned(a)
    BY <1>1, <2>4 DEF SendAbandoned, Released, SessionOver, run
  <2> QED
    BY <1>9, <2>1, <2>2, <2>3, <2>4 DEF Reader
<1>10. CASE Respond \/ Tick \/ \E how \in {"remote", "lost"} : PathBreaks(how)
  <2>1. UNCHANGED <<run, reader>>
    BY <1>10 DEF Respond, Tick, PathBreaks
  <2> QED
    BY <2>1, <1>2
<1>11. CASE UNCHANGED vars
  BY <1>2, <1>11 DEF vars
<1> QED
  BY <1>3, <1>4, <1>5, <1>6, <1>7, <1>8, <1>9, <1>10, <1>11 DEF Next, Consumer

LEMMA AlwaysHandsOver == Spec => []Handover
<1>1. Init => Handover
  BY DEF Init, Handover, NotStarted, Begins, LastIsLast, NamesItsEnd, Receiving
<1> QED
  BY <1>1, HandoverStep, Invariance, PTL DEF Spec, SafetySpec

(* The loop of ReceiveAndValidateFrames never waits at a channel nobody will *)
(* fill: while it finds the channel empty, its reader is reading or has a     *)
(* result in hand, so it never meets the channel closed either              *)
(* (receiver.go:65-100, transport/frame.go:95-130).                          *)
THEOREM LoopIsFed ==
    Spec => [](cpc = "receive" /\ chan[attempt] = <<>> => rd[attempt] \in {"read", "send"})
<1>1. Inv /\ Handover =>
        (cpc = "receive" /\ chan[attempt] = <<>> => rd[attempt] \in {"read", "send"})
  BY DEF Inv, TypeOK, Handover, LastIsLast, Receiving
<1> QED
  BY <1>1, AlwaysHandsOver, Invariance, PTL
-----------------------------------------------------------------------------
(* How Run ends.  Every session that is over has a result to return, so that *)
(* one of Retry, GiveUp and Return is there for it, and Run returns           *)
(* ErrUntrustedConnection only when no attempt is left (app.go:75-95).       *)
Concluded ==
    /\ cpc \in {"release", "hangup"} => result \in {"ok", "error", "rehandshake"}
    /\ cpc = "ended" <=> outcome # "none"
    /\ outcome = "untrusted" => attempt = MaxSessionAttempts

LEMMA ConcludedStep == Inv /\ Concluded /\ [Next]_vars => Concluded'
<1> SUFFICES ASSUME Inv, Concluded, [Next]_vars PROVE Concluded'
  OBVIOUS
<1> USE DEF Concluded
<1>1. CASE UNCHANGED run
  BY <1>1 DEF run
<1>2. CASE Dial \/ DialFails \/ HandshakeFails \/ NewFFplaySink \/ NewFFplaySinkFails
             \/ AcceptMedia \/ AcceptMediaFails \/ CloseSink
  BY <1>2 DEF Dial, DialFails, HandshakeFails, NewFFplaySink, NewFFplaySinkFails,
     AcceptMedia, AcceptMediaFails, CloseSink, Goto, Finish
<1>3. CASE \E r \in Delivered : AcceptResponse(r)
  BY <1>3 DEF AcceptResponse, Goto
<1>4. CASE HandleFrame \/ Player \/ StreamEnds
  BY <1>4 DEF HandleFrame, AfterFrame, Player, Plays, PlayFails, StreamEnds, Goto, Finish
<1>5. CASE Retry \/ GiveUp \/ Return
  <2>1. attempt \in 1..MaxSessionAttempts /\ MaxSessionAttempts \in Nat
    BY ConsumerAssumption DEF Inv, TypeOK, Attempts
  <2> QED
    BY <1>5, <2>1 DEF Retry, GiveUp, Return, AnotherAttempt
<1>6. ASSUME NEW a \in Attempts, Reader(a) PROVE UNCHANGED run
  BY <1>6 DEF Reader, ReadFrame, ReadFrameFails, SendResult, SendAbandoned, Reads
<1>7. Respond \/ Tick \/ (\E how \in {"remote", "lost"} : PathBreaks(how))
        \/ UNCHANGED vars => UNCHANGED run
  BY DEF Respond, Tick, PathBreaks, vars
<1> QED
  BY <1>1, <1>2, <1>3, <1>4, <1>5, <1>6, <1>7 DEF Next, Consumer

LEMMA AlwaysConcluded == Spec => []Concluded
<1>1. Init => Concluded
  BY DEF Init, Concluded
<1> QED
  BY <1>1, ConcludedStep, Invariance, PTL DEF Spec, SafetySpec

(* Whatever the path sends, sessions are abandoned for cause only, and for    *)
(* good only after the last attempt (app.go:80-94).                          *)
THEOREM UntrustedForCause == Spec => GivenUpForCause
<1> DEFINE Leaves == attempt' # attempt \/ (outcome' = "untrusted" /\ outcome # "untrusted")
           A == /\ Leaves => damaged * BadDen > BadNum * (MinFrames + 1)
                /\ attempt' # attempt => attempt' = attempt + 1
                /\ outcome' = "untrusted" => attempt' = MaxSessionAttempts
<1>1. Inv /\ Concluded' /\ [Next]_vars => [A]_vars
  <2> SUFFICES ASSUME Inv, Concluded', Next PROVE A
    OBVIOUS
  <2>1. Leaves => Retry \/ GiveUp \/ Return
    BY DEF Next, Consumer, Dial, DialFails, AcceptResponse, HandshakeFails,
       NewFFplaySink, NewFFplaySinkFails, AcceptMedia, AcceptMediaFails, HandleFrame,
       AfterFrame, Player, Plays, PlayFails, StreamEnds, CloseSink, Reader, ReadFrame,
       ReadFrameFails, SendResult, SendAbandoned, Reads, Respond, Tick,
       PathBreaks, Goto, Finish, run
  <2>2. Leaves => cpc = "hangup" /\ result = "rehandshake"
    BY <2>1 DEF Retry, GiveUp, Return
  <2>3. Leaves => damaged * BadDen > BadNum * (MinFrames + 1)
    BY <2>2 DEF Inv, Rest, Safe, NoFalseAlarm
  <2>4. attempt' # attempt => attempt' = attempt + 1
    BY <2>1 DEF Retry, GiveUp, Return
  <2>5. outcome' = "untrusted" => attempt' = MaxSessionAttempts
    BY DEF Concluded
  <2> QED
    BY <2>3, <2>4, <2>5
<1> QED
  BY <1>1, AlwaysConcluded, Invariance, PTL DEF Spec, SafetySpec, GivenUpForCause
-----------------------------------------------------------------------------
(* The steps Run has left at most, from the place it has reached: seven in a *)
(* session, and one more session for each attempt that is left.             *)
PhasesLeft ==
    CASE cpc = "dial" -> 7 [] cpc = "await" -> 6 [] cpc = "sink" -> 5
      [] cpc = "accept" -> 4 [] Receiving -> 3 [] cpc = "release" -> 2
      [] cpc = "hangup" -> 1 [] cpc = "ended" -> 0

StepsLeft == 7 * (MaxSessionAttempts - attempt) + PhasesLeft

(* Nothing that happens to the consumer gives Run work it has done before,    *)
(* and every step of its own but the handling of one more frame uses up one   *)
(* of those left: within 7 * MaxSessionAttempts of them Run has returned, or  *)
(* it is playing.  What it waits for meanwhile ends by itself (Concluded,    *)
(* LoopIsFed).                                                              *)
StepsRunOut ==
    [][/\ StepsLeft' <= StepsLeft
       /\ Consumer /\ ~(HandleFrame /\ Receiving') => StepsLeft' < StepsLeft]_vars

CountsDown ==
    /\ StepsLeft \in Nat /\ PhasesLeft \in 0..7
    /\ attempt \in Nat /\ MaxSessionAttempts - attempt \in Nat

LEMMA StepsAreCounted == Inv => CountsDown
<1> SUFFICES ASSUME Inv PROVE CountsDown
  OBVIOUS
<1>1. PhasesLeft \in 0..7
  BY DEF Inv, TypeOK, PhasesLeft, Receiving
<1>2. attempt \in 1..MaxSessionAttempts /\ MaxSessionAttempts \in Nat
  BY ConsumerAssumption DEF Inv, TypeOK, Attempts
<1> QED
  BY <1>1, <1>2 DEF CountsDown, StepsLeft

LEMMA FewerPhases ==
    ASSUME NEW left \in Nat, NEW p \in 0..7, NEW q \in 0..7, q < p
    PROVE  7 * left + q < 7 * left + p
OBVIOUS

(* Run makes at most MaxSessionAttempts sessions, and none of them goes back  *)
(* to an earlier phase (app.go:75-95).                                       *)
THEOREM RunComesToAnEnd == Spec => StepsRunOut
<1> DEFINE A == /\ StepsLeft' <= StepsLeft
                /\ Consumer /\ ~(HandleFrame /\ Receiving') => StepsLeft' < StepsLeft
<1>1. Inv /\ CountsDown /\ CountsDown' /\ [Next]_vars => [A]_vars
  <2> SUFFICES ASSUME Inv, CountsDown, CountsDown', Next PROVE A
    BY DEF vars, run, resources, checks, reader, world, seen, StepsLeft, PhasesLeft,
           Receiving
  <2>0. /\ StepsLeft \in Nat /\ StepsLeft' \in Nat
        /\ PhasesLeft \in 0..7 /\ PhasesLeft' \in 0..7
        /\ attempt \in Nat /\ attempt' \in Nat /\ MaxSessionAttempts \in Nat
        /\ MaxSessionAttempts - attempt \in Nat
    BY ConsumerAssumption DEF CountsDown
  <2>1. ASSUME attempt' = attempt, PhasesLeft' < PhasesLeft PROVE StepsLeft' < StepsLeft
    <3>1. 7 * (MaxSessionAttempts - attempt) + PhasesLeft'
            < 7 * (MaxSessionAttempts - attempt) + PhasesLeft
      BY <2>0, <2>1, FewerPhases
    <3> QED
      BY <2>1, <3>1 DEF StepsLeft
  <2>2. ASSUME UNCHANGED <<attempt, cpc>> PROVE StepsLeft' = StepsLeft
    BY <2>2 DEF StepsLeft, PhasesLeft, Receiving
  <2>3. CASE Dial \/ DialFails \/ HandshakeFails \/ NewFFplaySink \/ NewFFplaySinkFails
             \/ AcceptMedia \/ AcceptMediaFails \/ StreamEnds \/ CloseSink
             \/ \E r \in Delivered : AcceptResponse(r)
    <3> USE DEF PhasesLeft, Receiving, Goto, Finish
    <3>1. CASE Dial \/ DialFails
      BY <3>1, <2>0, <2>1 DEF Dial, DialFails
    <3>2. CASE HandshakeFails \/ \E r \in Delivered : AcceptResponse(r)
      BY <3>2, <2>0, <2>1 DEF HandshakeFails, AcceptResponse
    <3>3. CASE NewFFplaySink \/ NewFFplaySinkFails
      BY <3>3, <2>0, <2>1 DEF NewFFplaySink, NewFFplaySinkFails
    <3>4. CASE AcceptMedia \/ AcceptMediaFails
      BY <3>4, <2>0, <2>1 DEF AcceptMedia, AcceptMediaFails
    <3>5. CASE StreamEnds
      <4>1. cpc = "receive" /\ cpc' = "release" /\ attempt' = attempt
        BY <3>5 DEF StreamEnds
      <4> QED
        BY <4>1, <2>0, <2>1
    <3>6. CASE CloseSink
      BY <3>6, <2>0, <2>1 DEF CloseSink
    <3> QED
      BY <2>3, <3>1, <3>2, <3>3, <3>4, <3>5, <3>6
  <2>4. CASE HandleFrame \/ Player
    <3>1. /\ Receiving /\ cpc' \in {"receive", "play", "release"} /\ attempt' = attempt
      BY <2>4 DEF HandleFrame, Player, Plays, PlayFails, AfterFrame, Goto, Finish, Receiving
    <3>2. CASE Receiving'
      <4>1. PhasesLeft' = PhasesLeft
        BY <3>1, <3>2 DEF PhasesLeft, Receiving
      <4>2. ~Consumer \/ HandleFrame
        <5>1. CASE Player
          BY <5>1 DEF Player, Plays, PlayFails, Consumer, Dial, DialFails, HandshakeFails,
             NewFFplaySink, NewFFplaySinkFails, AcceptMedia, AcceptMediaFails, HandleFrame,
             StreamEnds, CloseSink, AcceptResponse, Retry, GiveUp, Return
        <5> QED
          BY <2>4, <5>1
      <4> QED
        BY <2>0, <3>1, <3>2, <4>1, <4>2 DEF StepsLeft
    <3>3. CASE ~Receiving'
      <4>1. PhasesLeft' < PhasesLeft
        BY <3>1, <3>3 DEF PhasesLeft, Receiving
      <4> QED
        BY <3>1, <4>1, <2>0, <2>1
    <3> QED
      BY <3>2, <3>3
  <2>5. CASE Retry
    <3>1. attempt' = attempt + 1 /\ cpc = "hangup" /\ cpc' = "dial"
      BY <2>5 DEF Retry
    <3>2. PhasesLeft = 1 /\ PhasesLeft' = 7
      BY <3>1 DEF PhasesLeft, Receiving
    <3> QED
      BY <3>1, <3>2, <2>0 DEF StepsLeft
  <2>6. CASE GiveUp \/ Return
    <3>1. attempt' = attempt /\ PhasesLeft' < PhasesLeft
      BY <2>6 DEF GiveUp, Return, PhasesLeft, Receiving
    <3> QED
      BY <3>1, <2>0, <2>1
  <2>7. ASSUME NEW a \in Attempts, Reader(a) PROVE UNCHANGED <<attempt, cpc, conn, sink, session>>
    BY <2>7 DEF Reader, ReadFrame, ReadFrameFails, SendResult, SendAbandoned, Reads,
       run, resources, checks
  <2>8. ASSUME Respond \/ Tick \/ \E how \in {"remote", "lost"} : PathBreaks(how)
        PROVE  UNCHANGED <<attempt, cpc>>
    BY <2>8 DEF Respond, Tick, PathBreaks, run
  <2>9. ASSUME Consumer, UNCHANGED <<attempt, cpc>> PROVE HandleFrame /\ Receiving'
    BY <2>9 DEF Consumer, Dial, DialFails, HandshakeFails, NewFFplaySink, NewFFplaySinkFails,
         AcceptMedia, AcceptMediaFails, HandleFrame, StreamEnds, CloseSink, Receiving,
         AcceptResponse, Retry, GiveUp, Return, Goto, Finish
  <2>10. CASE Consumer
    BY <2>3, <2>4, <2>5, <2>6, <2>10 DEF Consumer
  <2>11. CASE UNCHANGED <<attempt, cpc>>
    BY <2>0, <2>2, <2>9, <2>11
  <2> QED
    BY <2>4, <2>7, <2>8, <2>10, <2>11 DEF Next
<1> QED
  BY <1>1, StepsAreCounted, Invariance, PTL DEF Spec, SafetySpec, StepsRunOut
=============================================================================
