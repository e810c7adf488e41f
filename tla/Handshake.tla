------------------------------ MODULE Handshake ------------------------------
(***************************************************************************)
(* The handshake (internal/handshake): what a producer signs and what makes *)
(* a consumer accept it.  A signature is the pair of the key that made it   *)
(* and what it was made over, as no one but the holder of the key can make  *)
(* one; a camera's certificate is named by the camera key it certifies.     *)
(* Clocks count ticks, Second of them in a second: the producer signs its   *)
(* time in seconds (time.Unix), the consumer measures the age in ticks      *)
(* (time.Since).                                                           *)
(***************************************************************************)
EXTENDS Integers

CONSTANTS Zero,             \* an identifier of zero bytes only
          Second,           \* ticks in a second
          MaxHandshakeAge,  \* in ticks
          Trusted           \* the certificates the trust store accepts

ASSUME HandshakeAssumption == Second \in Nat \ {0} /\ MaxHandshakeAge \in Nat \ {0}

ProtocolVersion == 1

(* validateRequest: also what EncodeRequest and DecodeRequest refuse.        *)
ValidRequest(q) == q.version = ProtocolVersion /\ q.nonce # Zero

NewRequest(nonce) == [version |-> ProtocolVersion, nonce |-> nonce]

(* time.Now().Unix() at a clock.                                            *)
\* Rounded up: breaks PromptAccepted.
RoundedUp(now) == (now + Second - 1) \div Second
Unix(now) == now \div Second

BuildHandshakeMessage(session, nonce, at, ephemeral) ==
    <<session, nonce, at, ephemeral>>

SignPSS(signer, message) == [signer |-> signer, message |-> message]

SignHandshake(camera, session, nonce, at, ephemeral) ==
    [certificate |-> camera, ephemeral |-> ephemeral, session |-> session,
     nonce |-> nonce, at |-> at,
     signature |-> SignPSS(camera, BuildHandshakeMessage(session, nonce, at, ephemeral))]

(* BuildResponse and BuildResponseForSession, for the new or the active     *)
(* session: the session identifier and the ephemeral key stay, nonce and    *)
(* time are those of the request.                                          *)
BuildResponse(camera, session, ephemeral, q, now) ==
    SignHandshake(camera, session, q.nonce, Unix(now), ephemeral)

(* validateResponse, as far as it is not about sizes.                       *)
ValidResponse(r) == r.session # Zero /\ r.nonce # Zero /\ r.at > 0

AgeOf(r, now) == now - r.at * Second
FreshEnough(r, now) == 0 <= AgeOf(r, now) /\ AgeOf(r, now) <= MaxHandshakeAge

SignatureVerifies(r) ==
    r.signature =
      SignPSS(r.certificate, BuildHandshakeMessage(r.session, r.nonce, r.at, r.ephemeral))

\* The nonce of the response not compared: breaks SessionAnswered.
AnyNonce(r, nonce, now) ==
    FreshEnough(r, now) /\ r.certificate \in Trusted /\ SignatureVerifies(r)
VerifyHandshake(r, nonce, now) ==
    /\ r.nonce = nonce
    /\ FreshEnough(r, now)
    /\ r.certificate \in Trusted
    /\ SignatureVerifies(r)

VerifyResponse(r, q, now) ==
    ValidRequest(q) /\ ValidResponse(r) /\ VerifyHandshake(r, q.nonce, now)
=============================================================================
