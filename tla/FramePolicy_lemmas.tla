------------------------- MODULE FramePolicy_lemmas -------------------------
(***************************************************************************)
(* What the operators of FramePolicy return and preserve, for every window, *)
(* minimum, ratio and time.                                                *)
(***************************************************************************)
EXTENDS FramePolicy, TLAPS

(* A fresh window that holds one frame at most condemns nothing: the code   *)
(* demands more than MinFrames >= 1 frames.                                *)
LEMMA FewFrames ==
    ASSUME NEW w, w.total \in Nat, w.total <= 1
    PROVE  EvaluateWindow(w) = "none"
BY PolicyAssumption DEF EvaluateWindow, EnoughFrames

(* What counting a frame does to the fields of a window.                    *)
LEMMA Counted ==
    ASSUME NEW w \in Windows, NEW invalid \in BOOLEAN, w.bad <= w.total
    PROVE  /\ RecordCurrentFrame(w, invalid) \in Windows
           /\ RecordCurrentFrame(w, invalid).total = w.total + 1
           /\ RecordCurrentFrame(w, invalid).start = w.start
           /\ RecordCurrentFrame(w, invalid).bad
                <= RecordCurrentFrame(w, invalid).total
<1>1. w.total \in Nat /\ w.bad \in Nat
  BY DEF Windows
<1>2. PICK b \in Nat : b <= w.total + 1 /\ b = IF invalid THEN w.bad + 1 ELSE w.bad
  BY <1>1
<1>3. RecordCurrentFrame(w, invalid) = [w EXCEPT !.total = w.total + 1, !.bad = b]
  BY <1>2, Zenon DEF RecordCurrentFrame
<1>4. w.total + 1 \in Nat
  BY <1>1
<1>5. LET c == [w EXCEPT !.total = w.total + 1, !.bad = b]
      IN  c \in Windows /\ c.total = w.total + 1 /\ c.bad = b /\ c.start = w.start
  BY <1>1, <1>4 DEF Windows
<1> QED
  BY <1>2, <1>3, <1>5

(* A new window is empty.                                                   *)
LEMMA Fresh ==
    ASSUME NEW t \in Int \cup {None}
    PROVE  /\ NewWindow(t) \in Windows
           /\ NewWindow(t).total = 0 /\ NewWindow(t).bad = 0
BY DEF Windows, NewWindow

(* RecordFrame keeps a window well-formed and never leaves a verdict in it;  *)
(* when the window had expired, its answer is "none".                       *)
LEMMA RecordFrameQuiet ==
    ASSUME NEW w0 \in Windows, NEW invalid \in BOOLEAN, NEW t \in Nat,
           w0.bad <= w0.total, EvaluateWindow(w0) = "none"
    PROVE  LET r == RecordFrame(w0, invalid, t)
           IN  /\ r.window \in Windows /\ r.window.bad <= r.window.total
               /\ r.action \in {"none", "rehandshake"}
               /\ EvaluateWindow(r.window) = "none"
               /\ Expired(Started(w0, t), t) => r.action = "none"
<1> DEFINE w == Started(w0, t)
           counted == RecordCurrentFrame(w, invalid)
           reopened == RecordCurrentFrame(NewWindow(t), invalid)
           r == RecordFrame(w0, invalid, t)
<1>1. w \in Windows /\ w.bad <= w.total /\ EvaluateWindow(w) = "none"
  <2>1. CASE w0.start = None
    BY <2>1, Fresh, FewFrames DEF Started
  <2>2. CASE w0.start # None
    BY <2>2 DEF Started
  <2> QED
    BY <2>1, <2>2
<1>2. counted \in Windows /\ counted.bad <= counted.total
  BY <1>1, Counted
<1>3. /\ reopened \in Windows /\ reopened.bad <= reopened.total
      /\ reopened.total = 1
  BY Fresh, Counted
<1>4. EvaluateWindow(reopened) = "none"
  BY <1>3, FewFrames
<1>5. NewWindow(t) \in Windows /\ NewWindow(t).bad <= NewWindow(t).total
      /\ EvaluateWindow(NewWindow(t)) = "none"
  BY Fresh, FewFrames
<1>6. \A x : EvaluateWindow(x) \in {"none", "rehandshake"}
  BY DEF EvaluateWindow
<1>7. CASE Expired(w, t)
  <2>1. r = [window |-> reopened, action |-> EvaluateWindow(w)]
    BY <1>7 DEF RecordFrame
  <2> QED
    BY <2>1, <1>1, <1>3, <1>4
<1>8. CASE ~ Expired(w, t)
  <2>1. r = [window |-> AfterVerdict(counted, t), action |-> EvaluateWindow(counted)]
    BY <1>8 DEF RecordFrame
  <2> QED
    BY <2>1, <1>2, <1>5, <1>6, <1>8 DEF AfterVerdict
<1> QED
  BY <1>7, <1>8

(* Multiplication by a natural number is monotonic.                         *)
LEMMA Monotonic ==
    ASSUME NEW a \in Nat, NEW b \in Nat, NEW c \in Nat, a <= b
    PROVE  a * c <= b * c /\ c * a <= c * b
<1>1. PICK d \in Nat : b = a + d
  BY b - a \in Nat
<1>2. b * c = a * c + d * c /\ c * b = c * a + c * d
  BY <1>1
<1>3. a * c \in Nat /\ d * c \in Nat /\ c * a \in Nat /\ c * d \in Nat
  OBVIOUS
<1> QED
  BY <1>2, <1>3

(* A condemned window has more than MinFrames frames, and so at least the    *)
(* bad frames a window of MinFrames + 1 would need.                         *)
LEMMA CondemnedHasBad ==
    ASSUME NEW w \in Windows, NEW bad \in Nat, w.bad <= bad,
           EvaluateWindow(w) = "rehandshake"
    PROVE  bad * BadDen > BadNum * (MinFrames + 1)
<1>1. w.total \in Nat /\ w.bad \in Nat
  BY DEF Windows
<1>2. w.total > MinFrames /\ w.bad * BadDen > BadNum * w.total
  BY DEF EvaluateWindow, EnoughFrames, TooManyBad
<1>3. MinFrames + 1 \in Nat /\ MinFrames + 1 <= w.total
  BY <1>1, <1>2, PolicyAssumption
<1>4. BadNum * (MinFrames + 1) <= BadNum * w.total
  BY <1>1, <1>3, Monotonic, PolicyAssumption
<1>5. w.bad * BadDen <= bad * BadDen
  BY <1>1, Monotonic, PolicyAssumption
<1>6. /\ BadNum * (MinFrames + 1) \in Int /\ BadNum * w.total \in Int
      /\ w.bad * BadDen \in Int /\ bad * BadDen \in Int
  BY <1>1, <1>3, PolicyAssumption
<1> QED
  BY <1>2, <1>4, <1>5, <1>6

(* A frame recorded in a well-formed window: what the window and the answer  *)
(* are, given a bound on the bad frames there were, this one included.       *)
LEMMA RecordFrameCounts ==
    ASSUME NEW w0 \in Windows, NEW invalid \in BOOLEAN, NEW t \in Int,
           w0.bad <= w0.total,
           NEW bad \in Nat, w0.bad + (IF invalid THEN 1 ELSE 0) <= bad
    PROVE  LET r == RecordFrame(w0, invalid, t)
           IN  /\ r.window \in Windows /\ r.window.bad <= r.window.total
               /\ r.action \in {"none", "rehandshake"}
               /\ r.window.bad <= bad
               /\ r.action = "rehandshake" => bad * BadDen > BadNum * (MinFrames + 1)
<1> DEFINE one == IF invalid THEN 1 ELSE 0
           w == Started(w0, t)
           counted == RecordCurrentFrame(w, invalid)
           reopened == RecordCurrentFrame(NewWindow(t), invalid)
           r == RecordFrame(w0, invalid, t)
<1>1. w \in Windows /\ w.bad <= w.total /\ w.bad <= w0.bad
  BY Fresh DEF Started, Windows
<1>2. \A v \in Windows : RecordCurrentFrame(v, invalid).bad = v.bad + one
  BY DEF RecordCurrentFrame, Windows
<1>3. one \in {0, 1} /\ w0.bad \in Nat /\ w.bad \in Nat
  BY <1>1 DEF Windows
<1>4. /\ counted \in Windows /\ counted.bad <= counted.total
      /\ counted.bad <= bad
  BY <1>1, <1>2, <1>3, Counted
<1>5. /\ reopened \in Windows /\ reopened.bad <= reopened.total
      /\ reopened.bad <= bad
  BY <1>2, <1>3, Fresh, Counted
<1>6. /\ NewWindow(t) \in Windows /\ NewWindow(t).bad <= NewWindow(t).total
      /\ NewWindow(t).bad <= bad
  BY Fresh
<1>7. \A x : EvaluateWindow(x) \in {"none", "rehandshake"}
  BY DEF EvaluateWindow
<1>8. CASE Expired(w, t)
  <2>1. r = [window |-> reopened, action |-> EvaluateWindow(w)]
    BY <1>8 DEF RecordFrame
  <2>2. w.bad <= bad
    BY <1>1, <1>3
  <2> QED
    BY <2>1, <2>2, <1>1, <1>5, <1>7, CondemnedHasBad
<1>9. CASE ~ Expired(w, t)
  <2>1. r = [window |-> AfterVerdict(counted, t), action |-> EvaluateWindow(counted)]
    BY <1>9 DEF RecordFrame
  <2> QED
    BY <2>1, <1>4, <1>6, <1>7, CondemnedHasBad DEF AfterVerdict
<1> QED
  BY <1>8, <1>9
=============================================================================
