--------------------------- MODULE FramePolicyRun ---------------------------
(***************************************************************************)
(* The frame policy over a whole stream: frames arrive one after the other, *)
(* each good or bad, at any pace.  MaxFrames and MaxTime bound the stream.  *)
(***************************************************************************)
EXTENDS FramePolicy, Sequences, FiniteSets

CONSTANTS MaxFrames, MaxTime

VARIABLES
    window,     \* the policy's current window
    now,        \* the time of the last frame
    action,     \* what RecordFrame answered for the last frame
    arrived     \* every frame so far: its time, whether it was bad, the answer

vars == <<window, now, action, arrived>>

TypeOK ==
    /\ window \in Windows
    /\ now \in Nat
    /\ action \in {"none", "rehandshake"}
    /\ arrived \in Seq([at : Nat, bad : BOOLEAN, act : {"none", "rehandshake"}])
    /\ window.bad <= window.total

Init ==
    /\ window = NoWindow /\ now = 0 /\ action = "none" /\ arrived = <<>>

Frame(bad, time) ==
    LET result == RecordFrame(window, bad, time)
    IN  /\ window' = result.window
        /\ action' = result.action
        /\ now' = time
        /\ arrived' = Append(arrived, [at |-> time, bad |-> bad, act |-> action'])

Next ==
    /\ Len(arrived) < MaxFrames
    /\ \E bad \in BOOLEAN, time \in now..MaxTime : Frame(bad, time)

Spec == Init /\ [][Next]_vars
-----------------------------------------------------------------------------
BadAmong(S) == {i \in S : arrived[i].bad}

(* README.md:101: a rehandshake is asked for only if, within a window of    *)
(* WindowDuration, more than MinFrames frames came and more than the given  *)
(* part of them was bad.                                                   *)
RehandshakeJustified ==
    action = "rehandshake" =>
        \E i \in 1..Len(arrived) :
            LET recent == i..Len(arrived)
            IN  /\ now - arrived[i].at <= WindowDuration
                /\ Cardinality(recent) > MinFrames
                /\ Cardinality(BadAmong(recent)) * BadDen > BadNum * Cardinality(recent)

(* The policy answers at the frame that makes the window bad: it never lets *)
(* a condemned window lie, to answer - or to forget - when it expires       *)
(* (RecordFrame evaluates an expired window as well, frame_policy.go:58).   *)
NoVerdictPending == EvaluateWindow(window) = "none"

(* Windows are tumbling, so good frames from before an attack may hide it   *)
(* in the current window - but not beyond it: once bad frames alone have    *)
(* come for longer than a window, 2 * MinFrames + 1 more of them within one *)
(* window never pass without a rehandshake.                                *)
OnlyBad(i, k) ==
    \A n \in i..k : arrived[n].bad /\ arrived[n].act = "none"

SustainedAttackCaught ==
    \A i, j \in 1..Len(arrived) :
        LET k == j + 2 * MinFrames
        IN  ~ /\ i < j /\ k <= Len(arrived)
              /\ arrived[j].at - arrived[i].at > WindowDuration
              /\ arrived[k].at - arrived[j].at <= WindowDuration
              /\ OnlyBad(i, k)
=============================================================================
