# Verification of crypto-stream-auth

`crypto-stream-auth` carries camera video from a **producer** through an
untrusted **server** (relay) to several **consumers**. A consumer checks, with a
handshake signed by the camera's TPM key and an Ed25519 signature on every frame,
that what it plays comes from the camera. This directory holds TLA+ models of the
program's concurrent core, of its handshake and of the tools that prepare a
deployment, TLC configurations that check them on small instances,
and TLAPS proofs for every value of the constants. Line numbers refer to `src/`.

    tlc -workers 2 -config ProducerSession.cfg ProducerSession
    tlapm ProducerSession_proofs.tla

`PROJECT.json` lists the runs, the theorems, the source lines behind every
definition (`map`), the hazards, the findings, and for every property a plausible
bug of the code (`mutants`) that breaks it.

## 1. Inventory

| part | state | operations | hard behaviours |
|---|---|---|---|
| producer application, `internal/app/producer/app.go` | `activeSession` under `sessionMu`; per connection a handler goroutine; one ffmpeg | `Run`, `handleConnection`, `buildHandshakeResponse`, `clearActiveSession`, `Close` | handlers interleave around one session and one camera; a failure between setting the session and deferring its cleanup; restart |
| server application, `internal/app/server/app.go` | `hub` under `hubMu`; per consumer a handler goroutine | `handleConsumerConnection`, `prepareMediaHub`, `dialProducerHandshake`, `clearMediaHub` | `hubMu` is held over the network; the hub a handler got may be stopped when it uses it |
| media hub, `internal/app/server/media_hub.go` | `subscribers` under `mu`, context, `startOnce`/`stopOnce`; per consumer a channel of four frames, `done`, a writer goroutine | `Start`, `Stop`, `run`, `broadcast`, `AddConsumer`, `RemoveConsumer`, `Enqueue`, `writeConsumerFrames` | `Stop` is called by runner, handlers and writers at once; a departed consumer is only noticed by a failing write; a slow consumer |
| consumer application, `internal/app/consumer/app.go` | attempt number; per session a connection, ffplay | `Run`, `runSession` with its deferred calls | retries after `ErrRehandshakeRequired`; cleanup of every session on every path |
| frame receiver, `internal/stream/receiver.go`, `frame_validator.go`, `internal/transport/frame.go` | replay guard (`lastSequence`), a reader goroutine and a channel of one place | `ReceiveAndValidateFrames`, `handleReceivedFrame`, `ValidateFrame`, `ReadFramesFromStreams` | lost, repeated, reordered, damaged, foreign frames; a reader blocked on a channel nobody reads |
| frame policy, `internal/stream/frame_policy.go` | one window: start, total, bad | `RecordFrame` | boundaries of window and ratio; verdicts at the end of a window |
| frame sender, `internal/stream/sender.go` | sequence number | `SendSignedFrames` | ends by the source or by the connection |
| transport, `internal/transport` | QUIC connections and streams (external), message layout | dial, accept, read and write messages and frames, `CloseSession` | time limits; a write only fails some time after the peer has gone |
| handshake, `internal/handshake` | none; nonce per request | `NewRequest`, `BuildResponse`, `BuildResponseForSession`, `VerifyResponseWithTrustStore` | delayed, repeated and altered responses; two clocks, one of them cut to seconds |
| trust store, `internal/crypto/trust_store.go` | certificate files, a manifest | `SaveCameraCertificateBundle`, `LoadTrustStore`, `VerifyCameraCertificate` | a kill between two files; two tools at once; a rename that fails |
| certificates and keys, `internal/crypto/pki.go` | the CA's two files, public key files | `GenerateRootCA`, `SaveRootCA`, `LoadFactoryRootCA`, `SaveRSAPublicKey`, `IssueCameraCertificate` | create-if-absent of two files, rollback by path |
| TPM, `internal/tpm` | a key at a persistent handle | `ProvisionSigner`, `OpenSigner`, `EvictSigner`, `SignPSS` | a key made persistent by a call that then fails |
| media processes, `internal/media` | child process and its pipes | start, read or write, close | a process that ends by itself, or stalls: its pipe is read and written without a deadline |
| frame signatures, `internal/crypto/frame_signature.go` | none | sign, verify | bytes covered |
| commands, `cmd` | none; `rootgen`, `certgen`, `provision`, `evict` are short-lived processes on shared files | `main` | two at once, killed, repeated after a failure |

**How they interact.** A consumer connects to the server and sends a handshake
request. The server's handler takes `hubMu`, dials the producer, forwards the
request and reads the response, all before it gives the lock back. If there is no
hub, the connection it dialled becomes the upstream of a new hub; if there is one,
that connection is closed and the consumer joins the hub, provided the response
names the hub's session. The producer decides on its side: with no active session
the handler makes one and streams on this connection, otherwise it answers with the
active session and closes. The two programs therefore keep two copies of one fact,
"which session is live and on which connection", with no message in common but the
response and the end of a connection. The consumer finally trusts none of this: it
checks nonce, age and signatures, and gives up the path if too many frames fail.

**What makes each part correct.** Producer: a session in use is neither replaced
nor cleared by someone else; one ffmpeg; a lost connection frees the session
once ffmpeg lets the handler see it.
Server: hubs succeed each other in order; no upstream connection, subscription or
lock survives its owner; a consumer is served or told. Hub: the newest frames in
order, with bounded lag, never blocking the runner. Both together: a consumer only
gets frames of the session it was told, and at rest the camera runs for the hub and
only for it. Handshake: what is accepted answers this request; what answers it in
time is accepted. Tools: files that belong together match, nothing complete is
overwritten, success means done, failure means nothing half done, and a camera once
accepted stays so. Consumer: only verified frames of the session answered in this
attempt, in order; no false alarm; nothing left behind. Policy: a rehandshake only
with cause, and never too late.

## 2. Modules

| module | models | role |
|---|---|---|
| `MediaLease` | what the producer promises about its session | abstract specification |
| `ProducerSession` | `producer/app.go` | handlers, `activeSession`, ffmpeg, restart |
| `ServerSession` | `server/app.go`, `server/media_hub.go` | handlers, `hubMu`, hubs, subscriptions, writers |
| `RelaySystem` | both | composition over shared connections |
| `LatestFrames` | what a subscription promises | abstract specification |
| `SubscriberQueue` | `Enqueue`, `writeConsumerFrames` | one subscriber's channel, select by select |
| `FramePolicy`, `FramePolicyRun` | `frame_policy.go` | the policy as operators; a stream of frames through it |
| `Handshake` | `handshake/exchange.go`, `session.go`, `message.go` | requests, responses, signatures and their verification as operators |
| `ConsumerSession` | `consumer/app.go`, `receiver.go`, `frame_validator.go`, `transport/frame.go` | attempts, validation, reader goroutine, untrusted path; uses `Handshake` and `FramePolicy` |
| `Provisioning` | `cmd/factory`, `cmd/producer/provision`, `evict`, `crypto/pki.go`, `trust_store.go`, `tpm` | the tools as processes on shared files and TPMs |
| `ProducerSession_proofs`, `ServerSession_proofs`, `SubscriberQueue_proofs`, `RelaySystem_proofs`, `FramePolicy_proofs`, `ConsumerSession_proofs`, `Provisioning_proofs` | | theorems |
| `FramePolicy_lemmas` | | facts about `RecordFrame`, used by two of them |
| `MCServerSession`, `MCRelaySystem`, `MCProvisioning` | | symmetry, initial states for TLC |

**Conventions.** A goroutine has a program counter per instance (`ppc`, `spc`,
`rpc`, `wpc`, `cpc`, `rd`); each operation of the code that another goroutine can
observe, or that can fail by itself, is one action, and each way it can fail is
another one that takes the code's early return. A critical section is one action,
except `prepareMediaHub`, which holds `hubMu` over a whole conversation: there the
lock is a variable. Deferred calls run in Go's order as phases.

**Names.** Handling consumer `c` dials the producer at most once, so one name
serves for the consumer's connection, the upstream connection dialled for it, the
producer's handler at its other end, the session that handler would create, and the
hub built on that connection. `resp[c]` is the session in the response on
connection `c`; `joined[c]` the hub `c` was given.

**Shared state.** `link`, `resp`, `media` are an upstream connection as both ends
see it. `ProducerSession` and `ServerSession` each read and write them, with an
environment for the opposite end; `RelaySystem` instantiates both, drops the two
environments, and adds only the network's `LoseUpstream`. Each environment is wide
enough for the real program: the server's producer may answer or end a stream on a
connection that is already gone, and may close several at once, as a restart does.
That this is so is proved (`ProducerInSystem`, `ServerInSystem`), so what holds of one
program alone holds of it in the system. An upstream connection is
one variable, so both ends see it end in the same step; what each end does about it
comes later, and in any order. A handler of the producer reads its request, and the
runner of a hub accepts its media stream, only while the connection is open; a
response that was written, and frames that were sent, may still be read after it.

**Losses.** A consumer that is gone (`client = "gone"`) or an upstream that is
closed makes the operations on it fail *at some later point*, not at once: actions
such as `WriteResponse` stay enabled and `WriteResponseFails` becomes enabled too.
That is how QUIC behaves, and it is where two of the findings come from.

**ffmpeg and ffplay** are processes this code does not control. A handler that
streams is in phase `send` while it reads the pipe of ffmpeg, without a deadline and
without regard to its connection (`NextPayload`, `PayloadEnds`), and in phase `frame`
while it has a payload to sign and write (`SendFrame`, `SendFrameFails`): a lost
connection is met in `frame` only. A consumer's loop is in phase `play` while it fills
the pipe of ffplay (`Plays`, `PlayFails`), and then sees neither the end of the
connection nor a verdict. The verdict on a frame is kept in `result` until then, as in
the code. `Restart` supposes that the ffmpeg of a killed producer is gone before the
next handler starts one: its pipe is broken, but nothing in the code waits for it.

**In `ConsumerSession`** the peer is the whole path to the producer. It may damage
anything, deliver a response late, to the next attempt or with a field altered, mix
frames of two sessions and repeat or skip numbers; it cannot make a valid signature.
A frame is genuine if it is undamaged and belongs to the session whose ephemeral key
the consumer holds (`frameKey`), which is a different question from the session
identifier it carries. Sequence number 0 stands for all headers that `ValidateFrame`
drops before it looks at the signature. `cmd/consumer` passes
`context.Background()`, so cancellation comes only from the end of a session.

**In `Handshake`** a signature is the pair of its key and its message. A clock counts
ticks, `Second` of them in a second; `time.Unix` and `time.Since` are what they do
with ticks: the one drops the part of a second, the other does not. A response
carries what the code's has; a camera's certificate is named by the camera's key.

**In `Provisioning`** a run of a tool is a process whose steps are its system and TPM
calls. Runs are numbered, and the number also names what the run makes (its CA, its
certificate), so the same number in two files means that they belong together. A
file has the run that created it and what it holds; content 0 is a file that exists
and is not complete. Each call may fail (`CallFails`, which takes the error path with
its rollback) and a tool may be killed between any two (`Killed`, which does not).
Where the failing call is the `Close` after a successful write of a CA file
(`CloseFails`), the file is complete until the rollback reaches it, and a certgen
beside it may load it.
The operator deletes files or clears a TPM only while no tool runs. Assumed or left
out: the removals of a rollback succeed; `CreatePrimary` gives the same key for the
same owner seed (the TPM's definition of a primary key); transient TPM objects,
which do not survive the tool; more than one file in the directory of roots. Server,
consumer and producer only read these files when they start, so loading is a
predicate on the state (`TrustStoreLoads`, `Accepted`).

## 3. Runs

| run | bounds | shows |
|---|---|---|
| `producer_session` | 3 connections, restarts | `SessionKept`, `ExclusiveCamera`, refinement `LeaseSpec`, liveness `StreamReleased`, if ffmpeg gives or ends |
| `server_steady` | 2 consumers, steady producer | liveness: `StartedHubCleared`, `LockGranted`, `ServedOrClosed`, `DepartureNoticed` |
| `relay_settle` | 2 consumers, restarts, losses, an ffmpeg that may stall | `OneLiveHub`, `UpstreamAccounted`, `NoGhostSubscriber`, `FramesMatchSession`, `WaitsAreKnown`; at rest `CameraServesHub`, `NobodyStuck` |
| `subscriber_queue` | capacity 4, 11 frames | `HoldsLatest`, `LastFrameWritten`, refinement `LatestSpec` |
| `frame_policy` | 7 frames, times 0..5, window 2, minimum 1, ratio 2/3 | `RehandshakeJustified`, `NoVerdictPending`, `SustainedAttackCaught` |
| `consumer_session` | 2 attempts, 2 sessions, 2 certificates, 2 reads per attempt, numbers 0..2, clock 3..4 with 2 ticks to the second, maximum age 1 tick, producer up to 1 tick ahead | `SessionAnswered`, `PromptAccepted`, `PlayedInOrder`, `GuardIsLastPlayed`, `GivenUpForCause`, `NothingLeftBehind`; liveness `ReadersExit`, and, if ffplay takes its input or ends, `LossEnds` |
| `provisioning` | 2 cameras; 2 runs of any tools, in a new factory, in one with keys but no CA, and in one in service; 2 faults, 2 deletions, 2 owner seeds | `RootFilesMatch`, `RegisteredCertificateSaved`, `NothingOverwritten`, `OutcomeTrue`, `RegisteredStayAccepted` |
| `producer_leak`, `server_wedged`, `server_stranded`, `relay_stale` | 2 connections | findings of section 6 |
| `provisioning_evict` | as `provisioning` | a finding of section 6 |

**Why the bounds are enough.** *Connections*: two are a first consumer and one that
joins or creates the next hub, the only roles the code tells apart; three at the
producer add a session that begins while one ends and another is refused. A
connection is used once, so the number also bounds reconnects. *Queue*: the code's
capacity is four; eleven frames fill the channel, turn it over entirely and leave
the writer with a backlog. *Policy*: with these parameters an attack that must be
caught takes four bad frames over three time units; seven frames and five units
leave room for the good frames of the window it begins in. *Consumer*: two reads
with `WindowDuration = MinFrames = 1` and ratio 1/3 are the fewest frames that
condemn a session, so both attempts can end in a verdict; two sequence numbers give
order, repetition and gaps. The clock runs from 3 to 4 with two ticks to the second:
an answer made at 3 is dated 2, is one tick old when it is made, just young enough,
and too old at 4; one made at 4 is dated 4, and is ahead of a consumer at 3 or exact.
*Provisioning*: two tools side by side are what a race takes, as every decision of
the code is between one run and one file; what came before them is in the three initial
states of `MCProvisioning`, each of which `Provisioning` reaches in four runs. Two
faults are a failure and a kill, or a rename and its repetition. One exception of
`RegisteredStayAccepted` takes three runs beside and after each other (`Orphaned`); the
proof covers it, the run does not. *Any producer*: `ServerSession` is checked with a
producer that keeps its session while its connection lasts (`server_steady`, for
liveness) and with the real one (`relay_settle`); that its invariants hold with a
producer that answers anything is proved (`ServerSession_proofs`). The proofs have none
of these bounds.
The named bounds are `MaxFrames`, `MaxTime`, `MaxReads`, `MaxSequence`, `Start` and
`MaxClock`, `MaxAhead`, `MaxRuns`, `MaxFaults`, `MaxRemovals`, `MaxSeeds`.

**Deadlock** checking is off in the runs, because every system here comes to an
end: connections are used up, streams are finite. That nothing stops *too early* is
stated instead by `NobodyStuck`, by the liveness properties and by the quiescence
properties of `RelaySystem`.

**Symmetry** is used only in runs without liveness properties.

**Rest instead of liveness in `RelaySystem`.** The composition has half a million
states; leads-to properties over it are out of reach within minutes. `Progress` is
any step a goroutine of either program can take by itself. `Settled` lists where each
goroutine may wait for the outside world; `WaitsAreKnown` checks that it is exactly
`~ENABLED Progress`: a goroutine held up anywhere else, as with its release forgotten,
would be an unsettled state without progress, and what is said of rest would miss it. The system does settle between two events of the outside world:
`WorkComesToAnEnd` proves that each connection has at most 30 steps of `Progress` in
it and that nothing ever adds to them (the copying of frames is not among them). What
holds whenever it has settled is what a leads-to would give. Rest supposes nothing of
ffmpeg: what a handler does next once it waits for ffmpeg is not part of `Progress`, so
the system may rest with a handler that ffmpeg keeps from noticing that its connection
is gone. `Stalled` names such a handler, `CameraServesHub` says that it is the only one
with a camera the hub has no use for, and `StallServesNobody` what it costs.

### Fairness

* `ProducerSession`: weak fairness of each `Handler(c)`: a goroutine that can run
  is scheduled. Restarts and the environment are not fair. `CameraRuns`, weak fairness of
  each `Camera(c)`, says that ffmpeg gives another payload or ends. The code does not
  see to that; it is assumed by `StreamReleased` alone, which is false without it, as
  `NextPayload` has no deadline and the loss of a connection is met at the next write.
* `ServerSession!SteadySpec`: `WF(Progress)`, one condition for all goroutines:
  each takes boundedly many of these steps, so none can starve the others. A read
  or dial that is stuck ends by `HandshakeTimeout`, so the failing variants belong
  to it. `WF(FramesArrive)`: the camera of a hub whose stream and link are open
  keeps giving frames, a property of the camera and not of this code, and assumed in
  this module by `ServedOrClosed` and `DepartureNoticed` alone. `SF(LossNoticed)`: a writer that
  keeps writing to a consumer that is gone sees a write fail, at the latest at the
  idle timeout of QUIC; weak fairness would not do, because successful writes
  into buffers come in between.
* `SubscriberQueue`: weak fairness of the runner inside `Enqueue`, and of the
  writer. The arrival of frames is not fair.
* `ConsumerSession`: weak fairness of the main goroutine and of each reader. A
  read ends at the latest with the connection's idle timeout, which is why
  `ReadFrameFails` may be part of it. `PlayerRuns`, weak fairness of `Player`, says that
  ffplay takes its input or is gone. The code does not see to that; it is assumed by
  `LossEnds` alone, as a loop in `WritePayload` finds nothing out. `ReadersExit` holds
  without it: a reader waits for the channel or the end of the session, and is not held
  up by a loop that is not over.

## 4. Abstract specifications

`MediaLease` has a holder and grants, and no connections: a caller that asks is told
in one step whose session it joins, and a session never passes from one caller to
another without a moment in which nobody holds it. `ProducerSession` implements it
with `activeSession` as the holder. TLC checks this for three connections, TLAPS
proves it for any number (`ImplementsLease`).

`LatestFrames` is a lossy queue: a new frame is always taken, if need be at the
price of the oldest. The code does this with three non-blocking selects, between any
two of which the writer may run, and the third of which may give up. The refinement
mapping puts the linearisation point at the second select: a frame being retried
counts as queued, one that still waits to evict does not. `LatestSpec` shows that the
third select never does give up with a single broadcaster. TLC checks it for the
code's capacity, TLAPS for any (`ImplementsLatestFrames`).

## 5. Proofs

`ProducerSession_proofs` (assumption: `None` is not a connection). `SessionKept` and
`ExclusiveCamera` are not inductive: that clearing another handler's session is
harmless rests on where that handler is and whose session it was given. `IInv` adds
that a handler that uses its own session is the one `activeSession` names, and
that only such a handler, between `NewFFmpegSource` and `CloseSource`, has an
ffmpeg; and that a handler that is done has hung up. From `Inductive` follow
`TypeCorrect`, `SessionIsKept` and `CameraIsExclusive`. `ImplementsLease` shows that `BuildResponse` is `Ask`,
`ClearActiveSession` and `Restart` are `Retire` or a stutter, and all else stutters;
it needs `IInv` because a handler asks only once. `OnlyUnansweredLeak` and `LeakLasts`
say how far the finding `producer_leak` goes. They rest on `LInv`: a handler that is on
its way out with its session still active has answered nobody on a connection that is
lost (`Unanswered`), which needs that a handler answers once and streams after that
(`NothingSentYet`); and a session that is active, or was named to anybody, was made by
the handler whose name it has (`MadeByItsHandler`, `NamedWasMade`).

`FramePolicy_proofs` (assumption: what `NewFramePolicy` demands of its parameters).
`Quiet` says the window is well formed and not condemned. It is inductive because a
frame that condemns the window is answered at once and the window replaced, and a
fresh window holds one frame at most, while more than `MinFrames >= 1` are needed.
`VerdictsAreImmediate` follows: the evaluation of an expired window
(`frame_policy.go:57-67`) always answers `none`. `PolicyTypeCorrect` is the type
invariant. `RehandshakeHasCause` proves `RehandshakeJustified` from `InStep`: the window
stands for the last `total` frames that arrived, counts exactly the bad ones among
them, and started no later than the oldest of them. Each frame extends the sets on
both sides by one, so a window that condemns is itself the evidence the property asks
for. `AttackIsCaught` proves `SustainedAttackCaught`, which is about the other
direction. Since the bad frames have come for longer than a window when frame `j`
arrives, the window `j` is counted in holds bad frames only (`AllBad`); the frames
from `j` on come within one duration, so they lie in that window or the one after it;
and a window of bad frames alone that gave no verdict holds at most `MinFrames` of
them (`AllBadIsFew`, which uses that the ratio is below one). `AttackCounted` keeps
count of this frame by frame; `2 * MinFrames + 1` frames do not fit. What the two proofs that use the policy need of `RecordFrame` is in
`FramePolicy_lemmas`.

`ServerSession_proofs` (assumption: `None` is not a connection), for any number of
consumers and a producer that answers anything. `OneLiveHub`, `UpstreamAccounted` and
`NoGhostSubscriber` are proved together, with what they rest on: the lock is held by
the handler that talks to the producer and by nobody else (`LockHolder`); a handler
past `prepareMediaHub` has joined a hub (`JoinedHub`); a hub nobody has made yet has
no runner and no members (`Unborn`); and a runner that is about to clear
`Server.hub` has come back from `Stop` (`StoppedBeforeCleared`), which is why no
second hub can be made while the first is live. What the proofs about the system
need besides: whoever has a runner, a writer or members has been made, and a runner
that is done has left `Server.hub` (`Born`); a connection is dialled before its hub is
made (`Dialled`).

A second invariant, `Waiters`, is about the consumers that wait: one that was answered
is subscribed or was closed (`Accounted`), its hub's runner was started (`Started`), its
writer has only left because of a close or the end of the hub (`WriterLeftForCause`),
and whoever made a hub joined it (`Founded`). `OnlyAddingIsLate` and `StrandedForEver`
say how far the finding `server_stranded` goes: a subscription is left over by an
`AddConsumer` after the end of `Stop` and by no other order of steps, and then for good.

`SubscriberQueue_proofs` (assumption: a capacity of at least one). `HoldsLatest` needs
`RoomMade`: once the second select has run, the third finds room, because only the
writer can change the channel in between and it only takes. The refinement follows
from the same invariant. `TakesInOrder` is what the consumer sees of it: frames in
order, none twice, and none more than the capacity behind the newest. It needs
`Behind`, that the writer's last frame and everything in the channel fit below the
frame put in last.

`RelaySystem_proofs` (assumption: `None` is not a connection), for any number of
consumers, with restarts and losses. `FramesAlwaysMatch` is the end-to-end property of
the two programs: `FramesMatchSession` speaks of frames at the end of the path, and
holds because of what both ends did when the connection was new. A connection
is streamed on only after its own session was named on it (`Streams`); an answer is
written once per connection (`AnswersOnce`), a restart included, since it ends every
handler of a dialled connection (`Undialled`); a consumer joins one hub at most
(`JoinsOnce`), and only one named the same session (`Told`, which is the comparison
in `prepareMediaHub`); and a hub queues what came on its own connection (`Relayed`).

Then the two programs are put together with what was proved of each alone. Every step
of the server is one the producer's environment may take (`ServerIsClient`), given
`Dialled`; every step of the producer is one the server's environment may take
(`ProducerIsProducer`), given that it answers once and streams after it has answered.
The two need each other's invariant, so `CInv` is the conjunction of all three, kept
step by step (`Composed`). From it come the refinements `ProducerInSystem` and
`ServerInSystem`, and `PromisesKept`: the invariants of the two programs hold in
the system; `LeaseInSystem` carries the abstract lease over as well.

`NobodyIsStuck` and `CameraIsServed` prove what the runs check at rest. Nobody waits
for `hubMu`, because its holder is a handler in `reply`, which never waits; nobody
waits for `stopOnce`, because whoever waits may himself be the one to run `Stop`
(`StopAnswers`), and a cancelled hub is being drained; no runner waits for a stream
that will not come, because its connection is open, and a producer's handler on an
open connection is at work or streaming (`HungUp`). So a started hub is fed; and,
unless ffmpeg stalls, a camera runs only on an open connection, which `UpstreamAccounted` gives to the hub, as
no handshake is under way. `WaitersAtRest` adds who is served: by `Waiters`, a consumer
that waits at rest is subscribed to a started hub, which is either live, and then is
`Server.hub` and fed, or drained, and then the consumer is stranded. `WorkComesToAnEnd` counts the steps the goroutines have
left: each place in the code has fewer than the one before it, a restart included, and
the one step that stays in its place opens a stream for the first time.
`StallServesNobody` is the price of a stalled ffmpeg at rest: the handler it holds up keeps
its session active, and whoever waits is stranded.

Three more theorems measure the findings in the system. `UnstartedAtRest`: a hub nobody
has started has no consumers left at rest, and either the next consumer is told its
session and starts it, or it is `Wedged`. `WedgedForEver`: a wedged server stays so,
restarts of the producer included, and lets no consumer in (no response still to come
can name the hub's session, since its maker is done; this is where `LInv` is used).
`LeakServesNobody`: while a session is left behind, at rest the camera is off and nobody
is served, until the producer is restarted.

`ConsumerSession_proofs` first proves what a handshake response means (assumptions: a
second and the maximum age are at least a tick).
`SignatureBinds`: what verifies and was signed by a camera for some request has the
session, key, nonce and time that were signed, since the signed message contains them
all. `AcceptedIsAnswer` adds the checks of nonce and age; `PromptIsAccepted` is the
converse, from `now - Second < Second * (now \div Second) <= now`.

For the consumer itself (assumptions: also the policy's, and that nonces and
session identifiers are not zero, which `fillRandomNonZero` sees to) the invariant
adds that every response under way was made by `BuildResponse` for an attempt
(`Issued`), that the ephemeral key is the session's (`KeyOfSession`), that a new
attempt starts with nothing played (`NothingYet`), that the window's bad frames are
among those found damaged (`BadCounted`), and which connections and players may be
open in which phase (`Connected`). `SessionsAreAnswered` uses `Issued` and
`AcceptedIsAnswer`. `LoopIsFed` is about the channel
between reader and loop: a reader is started with its loop (`NotStarted`), and is done
exactly when its last result is in the channel, which ends the loop (`LastIsLast`).
So the loop never waits for a reader that is gone, the fact `LossEnds` rests on.
`UntrustedForCause` puts the attempts together: whenever Run abandons a session, for
another attempt or for `ErrUntrustedConnection`, that session's frames were damaged
enough, and the error comes after the last attempt only. It needs `KeyOfSession`, as with
a key that is not the session's undamaged frames would count as bad; that a verdict
waits in `result` while ffplay takes the frame; and `Concluded`, which says that a
session that is over has a result Run knows what to do with.
`RunComesToAnEnd` counts the steps of Run as `WorkComesToAnEnd` does for the relay:
seven in an attempt, and none of them is ever added again; only the handling of one
more frame, and ffplay, are not counted. So what `LossEnds` leaves to fairness is that
goroutines and ffplay run.

`Provisioning_proofs` (assumptions: the bounds are natural numbers), for any number
of cameras and runs. The invariant says who owns what. `RootFilesOwned`: a CA file
holds what the run that created it made; if the certificate is complete, the key is
the same run's or not there; and a complete key means that its run has ended well or is
rolling back after a `Close` that failed, so a rollback only meets its own run's files. `CameraFilesOwned`: likewise for the file
being written. `ManifestEntries`: what an entry or a merged manifest names
was saved by its own run, which has ended well. `LoadedCA`: the run that made the CA
of a certgen past its loading, or of a registered certificate, has ended well, and then
no rollback takes it away, or its last `Close` failed and sent it into its rollback; the second case is what
the exceptions `TakenBack` and `Orphaned` are about. `KeysOfSeed`: the key in a TPM, and
one a provision has in hand, come from the TPM's owner seed, so that the key exported is
the persistent one. Each theorem is then one case per tool.

Only model-checked: liveness under fairness, and the half of `WaitsAreKnown` that says
an unsettled system can go on; both are stated with `ENABLED`, out of the prover's
reach. Every other invariant and action property of the passing runs is proved.

## 6. Findings

* `producer_leak` — a handshake response that cannot be written leaves
  `activeSession` set for ever (`producer/app.go:174`; the cleanup is deferred at 182).
  This is the only way a session is left behind (`OnlyUnansweredLeak`), only a restart of
  the producer ends it (`LeakLasts`), and until then, at rest, no consumer gets frames
  (`LeakServesNobody`).
* `server_wedged` — a hub whose first consumer leaves before `Start` is never
  cleared (`server/app.go:134`); consumers after it get a dead hub or an error. As long
  as the producer keeps the hub's session the next consumer mends it
  (`UnstartedAtRest`); once it has dropped it, nothing does (`WedgedForEver`).
* `server_stranded` — a consumer added to a hub after its `Stop` drained the
  subscribers is neither served nor closed (`media_hub.go:147`). No other order of steps
  strands a consumer (`OnlyAddingIsLate`), and it is for good (`StrandedForEver`).
* `relay_stale` — a hub built on the answer for a session the producer is about to
  drop carries nothing (`server/app.go:174`). This one passes: at rest every consumer
  that waits is served or stranded (`CameraIsServed`).
* `provisioning_evict` — the old certificate of a camera does not end with its key
  (`tpm/provision.go:44`, against `README.md:216` and the log of
  `cmd/producer/evict/main.go:23`). Evict leaves certificate and manifest entry, so the
  trust store accepts the certificate as before; and the next provision derives the same
  key from the same owner seed, so the certificate fits it. Only a cleared TPM makes
  another key, and only the operator takes the certificate out of the store.

Each is a `violation` run: TLC finds a behaviour of the code in which a statement of
the documentation fails. `StartedHubCleared`, `ServedOrClosed` and the theorems named
above state what does hold in the same places.

## 7. Not modelled

* **Cryptography, X.509 contents, TLS, TPM sessions and transient objects**: stateless
  or hardware; a signature verifies if its key made it over this message. Which bytes
  a frame's signature covers is not examined.
* **The start of a producer** with its certificate and TPM key: the code does not
  compare them (`producer/app.go:49-57`). `RegisteredStayAccepted` is about the trust
  store only; `OldCertificateEnds` (section 6) is about certificate and key.
* **Modelled, and named as the exceptions of `RegisteredStayAccepted`**: two certgen runs
  at once (`Raced`), the rename fallback (`Fallback`), a rootgen whose `Close` fails
  (`TakenBack`), and a certgen that had loaded its CA (`Orphaned`). In each a registered
  camera can be lost.
* **The ffmpeg of a killed producer** that outlives it for a while (see `Restart`).
* **Message and frame layout**: planned. The models say when an operation may fail.
* **float64**: the policy's quotient is compared exactly, as a ratio of integers.
* **Statistics, logging, command-line constants, ffmpeg and ffplay arguments**: no
  effect on control.
* **`Producer.Close`, `Server.Close`**: they release the listener and the signer when
  `Run` returns, which `cmd` follows with the end of the process.

## 8. Plan

Done, in this order, the most important behaviour first: producer, server, their
composition, queue, policy, consumer, provisioning, handshake; the proofs of all of
these.

1. *Model further.* A codec module for the frame and message layout with its limits,
   as pure operators against a reference definition (`transport/frame.go`,
   `transport/quic.go`, `handshake/message.go`).
2. *Compose.* Hub and queue: `ServerSession`'s `queued` refined by one
   `SubscriberQueue` for each subscription.
3. *Prove.* All invariants and action properties of the runs but `WaitsAreKnown` are
   proved; a codec module and the composition of hub and queue would bring theorems of their own.
