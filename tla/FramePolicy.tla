----------------------------- MODULE FramePolicy -----------------------------
(***************************************************************************)
(* FramePolicy (internal/stream/frame_policy.go): when has a consumer seen  *)
(* too many frames with a bad signature?  A window is a record of its       *)
(* start (None before the first frame), the frames recorded in it and how   *)
(* many of them were bad.  The float64 quotient bad/total is compared with  *)
(* maxBadRatio; here the ratio is BadNum/BadDen and the comparison exact.   *)
(***************************************************************************)
EXTENDS Integers

CONSTANTS
    WindowDuration, MinFrames,
    BadNum, BadDen,     \* maxBadRatio = BadNum / BadDen
    None

(* What NewFramePolicy demands of its parameters.                           *)
ASSUME PolicyAssumption ==
    /\ WindowDuration \in Nat \ {0} /\ MinFrames \in Nat \ {0}
    /\ BadNum \in Nat \ {0} /\ BadDen \in Nat /\ BadNum < BadDen
    /\ None \notin Int

NewWindow(start) == [start |-> start, total |-> 0, bad |-> 0]

NoWindow == NewWindow(None)

Windows == [start : Int \cup {None}, total : Nat, bad : Nat]

\* Only good frames count towards the total: breaks TypeOK.
GoodOnly(w, invalid) ==
    IF invalid THEN [w EXCEPT !.bad = @ + 1] ELSE [w EXCEPT !.total = @ + 1]
RecordCurrentFrame(w, invalid) ==
    [w EXCEPT !.total = @ + 1, !.bad = IF invalid THEN @ + 1 ELSE @]

\* The frame count checked with < : breaks RehandshakeJustified.
AtLeastMinFrames(w) == w.total >= MinFrames
EnoughFrames(w) == w.total > MinFrames

TooManyBad(w) == w.bad * BadDen > BadNum * w.total

EvaluateWindow(w) ==
    IF EnoughFrames(w) /\ TooManyBad(w) THEN "rehandshake" ELSE "none"

Started(w, now) == IF w.start = None THEN NewWindow(now) ELSE w

\* A window that never expires: breaks SustainedAttackCaught.
NeverExpired(w, now) == FALSE
Expired(w, now) == now - w.start > WindowDuration

\* The window lives on after its verdict: breaks NoVerdictPending.
WindowKept(w, now) == w
AfterVerdict(w, now) ==
    IF EvaluateWindow(w) = "none" THEN w ELSE NewWindow(now)

(* RecordFrame: a frame that arrives after the window is over only opens    *)
(* the next one, and the answer is the verdict on the old one; otherwise    *)
(* the frame counts, and a window that condemns the session starts anew.    *)
RecordFrame(w0, invalid, now) ==
    LET w == Started(w0, now)
        counted == RecordCurrentFrame(w, invalid)
    IN  IF Expired(w, now)
        THEN [window |-> RecordCurrentFrame(NewWindow(now), invalid),
              action |-> EvaluateWindow(w)]
        ELSE [window |-> AfterVerdict(counted, now),
              action |-> EvaluateWindow(counted)]
=============================================================================
