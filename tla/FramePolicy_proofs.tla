------------------------- MODULE FramePolicy_proofs -------------------------
(***************************************************************************)
(* Proofs about the frame policy, for every window length, frame minimum,   *)
(* ratio and stream of frames.                                              *)
(***************************************************************************)
EXTENDS FramePolicyRun, FramePolicy_lemmas, FiniteSetTheorems

(* The window half of the type invariant is inductive with NoVerdictPending. *)
Quiet ==
    /\ window \in Windows /\ window.bad <= window.total
    /\ now \in Nat
    /\ NoVerdictPending

LEMMA QuietStep ==
    ASSUME Quiet, NEW bad \in BOOLEAN, NEW time \in now..MaxTime,
           Frame(bad, time)
    PROVE  Quiet' /\ action' \in {"none", "rehandshake"} /\ time \in Nat
<1>1. time \in Nat
  BY DEF Quiet
<1> QED
  BY <1>1, RecordFrameQuiet DEF Quiet, Frame, NoVerdictPending

(* The frame history is well typed and never shrinks.                       *)
ArrivedOK == arrived \in Seq([at : Nat, bad : BOOLEAN, act : {"none", "rehandshake"}])

IInv == Quiet /\ ArrivedOK /\ action \in {"none", "rehandshake"}

LEMMA InitIInv == Init => IInv
<1> SUFFICES ASSUME Init PROVE IInv
  OBVIOUS
<1>1. NoWindow \in Windows /\ NoWindow.total = 0 /\ NoWindow.bad = 0
  BY Fresh DEF NoWindow
<1>2. EvaluateWindow(NoWindow) = "none"
  BY <1>1, FewFrames
<1>3. arrived \in Seq([at : Nat, bad : BOOLEAN, act : {"none", "rehandshake"}])
  BY DEF Init
<1> QED
  BY <1>1, <1>2, <1>3 DEF Init, IInv, Quiet, ArrivedOK, NoVerdictPending

LEMMA NextIInv == IInv /\ [Next]_vars => IInv'
<1> SUFFICES ASSUME IInv, [Next]_vars PROVE IInv'
  OBVIOUS
<1>1. CASE Next
  <2>1. PICK bad \in BOOLEAN, time \in now..MaxTime : Frame(bad, time)
    BY <1>1 DEF Next
  <2>2. Quiet' /\ action' \in {"none", "rehandshake"} /\ time \in Nat
    BY <2>1, QuietStep DEF IInv
  <2>3. [at |-> time, bad |-> bad, act |-> action']
          \in [at : Nat, bad : BOOLEAN, act : {"none", "rehandshake"}]
    BY <2>2
  <2>4. ArrivedOK'
    BY <2>1, <2>3 DEF IInv, ArrivedOK, Frame
  <2> QED
    BY <2>2, <2>4 DEF IInv
<1>2. CASE UNCHANGED vars
  BY <1>2 DEF vars, IInv, Quiet, ArrivedOK, NoVerdictPending
<1> QED
  BY <1>1, <1>2

(* Between two frames no window is condemned, whatever came in: the verdict *)
(* on an expired window (frame_policy.go:57-67) is always "none".           *)
THEOREM VerdictsAreImmediate == Spec => []NoVerdictPending
<1>1. IInv => NoVerdictPending
  BY DEF IInv, Quiet
<1> QED
  BY <1>1, InitIInv, NextIInv, PTL DEF Spec

(* The window always counts at most as many bad frames as frames.           *)
THEOREM PolicyTypeCorrect == Spec => []TypeOK
<1>1. IInv => TypeOK
  BY DEF IInv, Quiet, ArrivedOK, TypeOK
<1> QED
  BY <1>1, InitIInv, NextIInv, PTL DEF Spec
-----------------------------------------------------------------------------
(* A window stands for the frames that arrived last, as many as it has       *)
(* counted: a frame never leaves a window but with all the others.          *)
Arrival == [at : Nat, bad : BOOLEAN, act : {"none", "rehandshake"}]

LastOf(a, n) == (Len(a) - n + 1)..Len(a)
BadIn(a, S) == {i \in S : a[i].bad}

CountsIn(a, w) ==
    /\ w.start \in Nat /\ w.total <= Len(a)
    /\ IsFiniteSet(BadIn(a, LastOf(a, w.total)))
    /\ Cardinality(BadIn(a, LastOf(a, w.total))) = w.bad
    /\ \A i \in LastOf(a, w.total) : w.start <= a[i].at

LEMMA CountsNone ==
    ASSUME NEW a \in Seq(Arrival), NEW w, w.total = 0, w.bad = 0, w.start \in Nat
    PROVE  CountsIn(a, w)
<1>1. Len(a) \in Nat
  OBVIOUS
<1>2. LastOf(a, w.total) = {}
  BY <1>1 DEF LastOf
<1>3. BadIn(a, LastOf(a, w.total)) = {}
  BY <1>2 DEF BadIn
<1>4. w.total <= Len(a)
  BY <1>1
<1>5. /\ IsFiniteSet(BadIn(a, LastOf(a, w.total)))
      /\ Cardinality(BadIn(a, LastOf(a, w.total))) = w.bad
  BY <1>3, FS_EmptySet
<1>6. \A i \in LastOf(a, w.total) : w.start <= a[i].at
  BY <1>2
<1> QED
  BY <1>4, <1>5, <1>6 DEF CountsIn

(* A frame counted in its window keeps the two in step.                      *)
LEMMA CountsOneMore ==
    ASSUME NEW a \in Seq(Arrival), NEW x \in Arrival, NEW w \in Windows,
           CountsIn(a, w), w.start <= x.at,
           NEW invalid \in BOOLEAN, x.bad = invalid
    PROVE  CountsIn(Append(a, x), RecordCurrentFrame(w, invalid))
<1> DEFINE b == Append(a, x)
           c == RecordCurrentFrame(w, invalid)
           old == LastOf(a, w.total)
           new == LastOf(b, c.total)
<1>1. /\ Len(a) \in Nat /\ Len(b) = Len(a) + 1 /\ b[Len(a) + 1] = x
      /\ \A i \in 1..Len(a) : b[i] = a[i]
  OBVIOUS
<1>2. w.total \in Nat /\ w.bad \in Nat /\ w.total <= Len(a) /\ w.start \in Nat
  BY DEF Windows, CountsIn
<1>3. /\ c.total = w.total + 1 /\ c.start = w.start
      /\ c.bad = IF invalid THEN w.bad + 1 ELSE w.bad
  BY <1>2 DEF RecordCurrentFrame, Windows
<1>4. new = old \cup {Len(a) + 1} /\ old \subseteq 1..Len(a)
  BY <1>1, <1>2, <1>3 DEF LastOf
<1>5. Len(a) + 1 \notin old /\ \A i \in old : b[i] = a[i]
  BY <1>1, <1>4
<1>6. BadIn(b, new) = IF invalid THEN BadIn(a, old) \cup {Len(a) + 1} ELSE BadIn(a, old)
  BY <1>1, <1>4, <1>5 DEF BadIn
<1>7. Len(a) + 1 \notin BadIn(a, old)
  BY <1>5 DEF BadIn
<1>8. IsFiniteSet(BadIn(b, new)) /\ Cardinality(BadIn(b, new)) = c.bad
  BY <1>2, <1>3, <1>6, <1>7, FS_AddElement DEF CountsIn
<1>9. \A i \in new : c.start <= b[i].at
  <2>1. \A i \in old : w.start <= a[i].at
    BY DEF CountsIn
  <2>2. w.start <= b[Len(a) + 1].at
    BY <1>1
  <2> QED
    BY <1>3, <1>4, <1>5, <2>1, <2>2
<1>10. c.start \in Nat /\ c.total <= Len(b)
  BY <1>1, <1>2, <1>3
<1> HIDE DEF b, c
<1>11. CountsIn(b, c)
  BY <1>8, <1>9, <1>10 DEF CountsIn
<1> QED
  BY <1>11 DEF b, c

(* A window that condemns the session is the evidence RehandshakeJustified   *)
(* asks for.                                                               *)
LEMMA CondemnedIsJustified ==
    ASSUME NEW a \in Seq(Arrival), NEW c \in Windows, CountsIn(a, c), c.total > 0,
           NEW t \in Nat, t - c.start <= WindowDuration,
           EvaluateWindow(c) = "rehandshake"
    PROVE  \E i \in 1..Len(a) :
              /\ t - a[i].at <= WindowDuration
              /\ Cardinality(i..Len(a)) > MinFrames
              /\ Cardinality(BadIn(a, i..Len(a))) * BadDen
                   > BadNum * Cardinality(i..Len(a))
<1> DEFINE i == Len(a) - c.total + 1
<1>1. /\ Len(a) \in Nat /\ c.total \in Nat /\ c.total <= Len(a) /\ c.start \in Nat
  BY DEF Windows, CountsIn
<1>2. i \in 1..Len(a) /\ i \in LastOf(a, c.total) /\ LastOf(a, c.total) = i..Len(a)
  BY <1>1 DEF LastOf
<1>3. Cardinality(i..Len(a)) = c.total
  <2>1. i \in Int /\ Len(a) \in Int /\ ~ i > Len(a) /\ Len(a) - i + 1 = c.total
    BY <1>1
  <2>2. Cardinality(i..Len(a)) = IF i > Len(a) THEN 0 ELSE Len(a) - i + 1
    BY <2>1, FS_Interval
  <2> QED
    BY <2>1, <2>2
<1>4. Cardinality(BadIn(a, i..Len(a))) = c.bad
  BY <1>2 DEF CountsIn
<1>5. c.total > MinFrames /\ c.bad * BadDen > BadNum * c.total
  BY DEF EvaluateWindow, EnoughFrames, TooManyBad
<1>6. c.start <= a[i].at /\ a[i].at \in Nat
  <2>1. c.start <= a[i].at
    BY <1>2 DEF CountsIn
  <2>2. a[i] \in Arrival
    BY <1>2
  <2> QED
    BY <2>1, <2>2 DEF Arrival
<1>7. t - a[i].at <= WindowDuration
  BY <1>1, <1>6, PolicyAssumption
<1> QED
  BY <1>2, <1>3, <1>4, <1>5, <1>7

InStep ==
    /\ window.start = None => window.total = 0
    /\ window.start # None => CountsIn(arrived, window) /\ window.start <= now

JInv == IInv /\ InStep /\ RehandshakeJustified

LEMMA FrameInStep ==
    ASSUME IInv, InStep, NEW bad \in BOOLEAN, NEW time \in now..MaxTime,
           Frame(bad, time)
    PROVE  InStep' /\ RehandshakeJustified'
<1> DEFINE w == Started(window, time)
           x == [at |-> time, bad |-> bad, act |-> action']
           c == RecordCurrentFrame(w, bad)
           reopened == RecordCurrentFrame(NewWindow(time), bad)
<1>1. /\ time \in Nat /\ now \in Nat /\ now <= time
      /\ window \in Windows /\ window.bad <= window.total
      /\ action' \in {"none", "rehandshake"}
  BY QuietStep DEF IInv, Quiet
<1>2. /\ arrived \in Seq(Arrival) /\ x \in Arrival /\ x.at = time /\ x.bad = bad
      /\ arrived' = Append(arrived, x) /\ arrived' \in Seq(Arrival) /\ now' = time
  BY <1>1 DEF IInv, ArrivedOK, Arrival, Frame
<1>3. /\ NewWindow(time) \in Windows /\ NewWindow(time).start = time
      /\ NewWindow(time).total = 0 /\ NewWindow(time).bad = 0
  BY <1>1 DEF NewWindow, Windows
<1>4. w \in Windows /\ w.bad <= w.total /\ CountsIn(arrived, w) /\ w.start <= time
  <2>1. CASE window.start = None
    <3>1. w = NewWindow(time)
      BY <2>1 DEF Started
    <3> QED
      BY <3>1, <1>1, <1>2, <1>3, CountsNone
  <2>2. CASE window.start # None
    <3>1. w = window /\ CountsIn(arrived, w) /\ w.start \in Nat /\ w.start <= now
      BY <2>2 DEF Started, InStep, CountsIn
    <3> QED
      BY <3>1, <1>1
  <2> QED
    BY <2>1, <2>2
<1>5. /\ c \in Windows /\ c.total = w.total + 1 /\ c.start = w.start
      /\ CountsIn(arrived', c)
  BY <1>2, <1>4, Counted, CountsOneMore
<1>6. w.total \in Nat /\ w.start \in Nat
  BY <1>4 DEF Windows, CountsIn
<1>7. time # None /\ w.start # None
  BY <1>1, <1>6, PolicyAssumption
<1>8. CASE Expired(w, time)
  <2>1. window' = reopened /\ action' = "none"
    BY <1>1, <1>8, RecordFrameQuiet DEF Frame, RecordFrame, IInv, Quiet, NoVerdictPending
  <2>2. CountsIn(arrived, NewWindow(time))
    BY <1>1, <1>2, <1>3, CountsNone
  <2>3. CountsIn(arrived', reopened) /\ reopened.start = time
    BY <2>2, <1>1, <1>2, <1>3, CountsOneMore, Counted
  <2> QED
    BY <2>1, <2>3, <1>1, <1>2, <1>7 DEF InStep, RehandshakeJustified
<1>9. CASE ~ Expired(w, time)
  <2>1. window' = AfterVerdict(c, time) /\ action' = EvaluateWindow(c)
    BY <1>9 DEF Frame, RecordFrame
  <2>2. time - c.start <= WindowDuration
    BY <1>1, <1>5, <1>6, <1>9, PolicyAssumption DEF Expired
  <2>3. CountsIn(arrived', NewWindow(time))
    BY <1>1, <1>2, <1>3, CountsNone
  <2>4. InStep'
    <3>1. CASE window' = c
      BY <3>1, <1>1, <1>2, <1>4, <1>5, <1>7 DEF InStep
    <3>2. CASE window' = NewWindow(time)
      BY <3>2, <2>3, <1>1, <1>2, <1>3, <1>7 DEF InStep
    <3> QED
      BY <2>1, <3>1, <3>2 DEF AfterVerdict
  <2>5. RehandshakeJustified'
    <3> SUFFICES ASSUME action' = "rehandshake" PROVE RehandshakeJustified'
      BY DEF RehandshakeJustified
    <3>1. EvaluateWindow(c) = "rehandshake"
      BY <2>1
    <3>2. c.total > 0
      BY <1>5, <1>6
    <3>3. \E i \in 1..Len(arrived') :
             /\ time - arrived'[i].at <= WindowDuration
             /\ Cardinality(i..Len(arrived')) > MinFrames
             /\ Cardinality(BadIn(arrived', i..Len(arrived'))) * BadDen
                  > BadNum * Cardinality(i..Len(arrived'))
      BY <3>1, <3>2, <2>2, <1>1, <1>2, <1>5, CondemnedIsJustified
    <3>4. \A S : BadAmong(S)' = BadIn(arrived', S)
      BY DEF BadAmong, BadIn
    <3> QED
      BY <3>3, <1>2 DEF RehandshakeJustified, BadAmong, BadIn
  <2> QED
    BY <2>4, <2>5
<1> QED
  BY <1>8, <1>9

(* The answer of RecordFrame is never a false alarm: "rehandshake" only if   *)
(* too many of the frames that came within one window, and more than the    *)
(* minimum came, were bad (frame_policy.go:49-79).                          *)
THEOREM RehandshakeHasCause == Spec => []RehandshakeJustified
<1>1. Init => JInv
  <2> SUFFICES ASSUME Init PROVE JInv
    OBVIOUS
  <2>1. window.start = None /\ window.total = 0
    BY DEF Init, NoWindow, NewWindow
  <2> QED
    BY <2>1, InitIInv DEF JInv, InStep, RehandshakeJustified, Init
<1>2. JInv /\ [Next]_vars => JInv'
  <2> SUFFICES ASSUME JInv, [Next]_vars PROVE JInv'
    OBVIOUS
  <2>1. IInv'
    BY NextIInv DEF JInv
  <2>2. CASE Next
    <3>1. PICK bad \in BOOLEAN, time \in now..MaxTime : Frame(bad, time)
      BY <2>2 DEF Next
    <3> QED
      BY <2>1, <3>1, FrameInStep DEF JInv
  <2>3. CASE UNCHANGED vars
    BY <2>1, <2>3 DEF JInv, InStep, RehandshakeJustified, BadAmong, vars
  <2> QED
    BY <2>2, <2>3
<1>3. JInv => RehandshakeJustified
  BY DEF JInv
<1> QED
  BY <1>1, <1>2, <1>3, PTL DEF Spec
-----------------------------------------------------------------------------
(* Only bad frames, none of them answered, since frame i, and at frame j for *)
(* longer than a window: from j on, frames are either in the window of j,    *)
(* which j cannot share with i, or in the one after it, and neither window   *)
(* can hold more than MinFrames of them unanswered.                        *)
Attack(i, j) ==
    /\ i < j
    /\ arrived[j].at - arrived[i].at > WindowDuration
    /\ now - arrived[j].at <= WindowDuration
    /\ OnlyBad(i, Len(arrived))

AttackCounted ==
    \A i, j \in 1..Len(arrived) : Attack(i, j) =>
        /\ window.total \in 1..MinFrames
        /\ i + window.total <= Len(arrived)
        /\ \/ Len(arrived) - j + 1 <= window.total
           \/ /\ Len(arrived) - j + 1 <= MinFrames + window.total
              /\ window.start >= arrived[j].at

Ordered ==
    \A m, n \in 1..Len(arrived) :
        arrived[n].at <= now /\ (m <= n => arrived[m].at <= arrived[n].at)

LEMMA AllBad ==
    ASSUME NEW a \in Seq(Arrival), NEW w \in Windows, CountsIn(a, w),
           \A n \in LastOf(a, w.total) : a[n].bad
    PROVE  w.bad = w.total
<1>1. Len(a) \in Nat /\ w.total \in Nat /\ w.total <= Len(a)
  BY DEF Windows, CountsIn
<1>2. BadIn(a, LastOf(a, w.total)) = LastOf(a, w.total)
  BY DEF BadIn
<1>3. Cardinality(LastOf(a, w.total)) = w.total
  <2> DEFINE f == Len(a) - w.total + 1
  <2>1. f \in Int /\ Len(a) \in Int /\ (f > Len(a) <=> w.total = 0)
        /\ Len(a) - f + 1 = w.total
    BY <1>1
  <2>2. Cardinality(f..Len(a)) = IF f > Len(a) THEN 0 ELSE Len(a) - f + 1
    BY <2>1, FS_Interval
  <2> QED
    BY <2>1, <2>2 DEF LastOf
<1> QED
  BY <1>2, <1>3 DEF CountsIn

(* More than MinFrames frames, all of them bad, are never let pass.          *)
LEMMA AllBadIsFew ==
    ASSUME NEW w \in Windows, w.bad = w.total, w.total > 0,
           EvaluateWindow(w) = "none"
    PROVE  w.total \in 1..MinFrames
<1>1. w.total \in Nat
  BY DEF Windows
<1>2. PICK d \in Nat : BadDen = BadNum + d /\ d > 0
  <2>1. BadDen - BadNum \in Nat /\ BadDen - BadNum > 0
        /\ BadDen = BadNum + (BadDen - BadNum)
    BY PolicyAssumption
  <2> QED
    BY <2>1
<1>3. w.total * BadDen = BadNum * w.total + w.total * d
  BY <1>1, <1>2, PolicyAssumption
<1>4. w.total * d > 0 /\ w.total * d \in Nat /\ BadNum * w.total \in Nat
  BY <1>1, <1>2, PolicyAssumption
<1>5. TooManyBad(w)
  BY <1>3, <1>4 DEF TooManyBad
<1> QED
  BY <1>1, <1>5, PolicyAssumption DEF EvaluateWindow, EnoughFrames

(* A frame that is let pass either opens a window, the old one being over,   *)
(* or is one more in the window there was.                                 *)
LEMMA LetPass ==
    ASSUME IInv, InStep, NEW bad \in BOOLEAN, NEW time \in now..MaxTime,
           Frame(bad, time), action' = "none"
    PROVE  /\ window' \in Windows /\ EvaluateWindow(window') = "none"
           /\ CountsIn(arrived', window')
           /\ \/ /\ window'.total = 1 /\ window'.start = time
                 /\ window.start # None => time - window.start > WindowDuration
              \/ /\ window'.total = window.total + 1
                 /\ time - window'.start <= WindowDuration
                 /\ window.start # None => window'.start = window.start
<1> DEFINE w == Started(window, time)
           c == RecordCurrentFrame(w, bad)
           reopened == RecordCurrentFrame(NewWindow(time), bad)
<1>1. time \in Nat /\ window \in Windows /\ window.bad <= window.total
  BY QuietStep DEF IInv, Quiet
<1>2. window' \in Windows /\ EvaluateWindow(window') = "none"
  BY QuietStep DEF IInv, Quiet, NoVerdictPending
<1>3. /\ NewWindow(time) \in Windows /\ NewWindow(time).start = time
      /\ NewWindow(time).total = 0 /\ NewWindow(time).bad = 0
  BY <1>1 DEF NewWindow, Windows
<1>4. /\ w \in Windows /\ w.bad <= w.total /\ w.total = window.total
      /\ w.start \in Nat
      /\ window.start = None => w.start = time
      /\ window.start # None => w.start = window.start
  BY <1>1, <1>3 DEF Started, InStep, CountsIn
<1>5. CASE Expired(w, time)
  <2>1. window' = reopened
    BY <1>5 DEF Frame, RecordFrame
  <2>2. window'.total = 1 /\ window'.start = time
    BY <2>1, <1>3, Counted
  <2>3. window.start # None => time - window.start > WindowDuration
    BY <1>4, <1>5 DEF Expired
  <2>4. window'.start # None
    BY <2>2, <1>1, PolicyAssumption
  <2> QED
    BY <1>2, <2>2, <2>3, <2>4, FrameInStep DEF InStep
<1>6. CASE ~ Expired(w, time)
  <2>1. window' = c
    BY <1>6 DEF Frame, RecordFrame, AfterVerdict
  <2>2. window'.total = window.total + 1 /\ window'.start = w.start
    BY <2>1, <1>4, Counted
  <2>3. time - window'.start <= WindowDuration
    BY <2>2, <1>1, <1>4, <1>6, PolicyAssumption DEF Expired
  <2>4. window'.start # None
    BY <2>2, <1>4, PolicyAssumption
  <2> QED
    BY <1>2, <1>4, <2>2, <2>3, <2>4, FrameInStep DEF InStep
<1> QED
  BY <1>5, <1>6

LEMMA FrameOrdered ==
    ASSUME IInv, Ordered, NEW bad \in BOOLEAN, NEW time \in now..MaxTime,
           Frame(bad, time)
    PROVE  /\ Ordered' /\ time \in Nat /\ now \in Nat /\ now <= time /\ now' = time
           /\ arrived \in Seq(Arrival) /\ arrived' \in Seq(Arrival)
           /\ Len(arrived) \in Nat /\ Len(arrived') = Len(arrived) + 1
           /\ \A n \in 1..Len(arrived) :
                 arrived'[n] = arrived[n] /\ arrived[n].at \in Nat
           /\ arrived'[Len(arrived) + 1] = [at |-> time, bad |-> bad, act |-> action']
<1> DEFINE x == [at |-> time, bad |-> bad, act |-> action']
<1>1. time \in Nat /\ now \in Nat /\ now <= time /\ action' \in {"none", "rehandshake"}
  BY QuietStep DEF IInv, Quiet
<1>2. /\ arrived \in Seq(Arrival) /\ x \in Arrival
      /\ arrived' = Append(arrived, x) /\ now' = time
  BY <1>1 DEF IInv, ArrivedOK, Arrival, Frame
<1>3. /\ arrived' \in Seq(Arrival) /\ Len(arrived) \in Nat
      /\ Len(arrived') = Len(arrived) + 1 /\ arrived'[Len(arrived) + 1] = x
      /\ \A n \in 1..Len(arrived) : arrived'[n] = arrived[n] /\ arrived[n] \in Arrival
  BY <1>2
<1>4. \A n \in 1..Len(arrived) : arrived[n].at \in Nat
  BY <1>3 DEF Arrival
<1>5. x.at = time
  OBVIOUS
<1>6. Ordered'
  <2>1. SUFFICES ASSUME NEW m \in 1..Len(arrived) + 1, NEW n \in 1..Len(arrived) + 1
                 PROVE  /\ arrived'[n].at <= time
                        /\ m <= n => arrived'[m].at <= arrived'[n].at
    BY <1>2, <1>3 DEF Ordered
  <2>2. \A k \in 1..Len(arrived) : arrived'[k].at <= time /\ arrived'[k].at = arrived[k].at
    BY <1>1, <1>3, <1>4 DEF Ordered
  <2>3. arrived'[Len(arrived) + 1].at = time
    BY <1>3, <1>5
  <2>4. CASE n = Len(arrived) + 1
    BY <2>2, <2>3, <2>4, <1>1, <1>3
  <2>5. CASE n \in 1..Len(arrived)
    BY <2>2, <2>5, <1>3 DEF Ordered
  <2> QED
    BY <2>4, <2>5, <1>3
<1> QED
  BY <1>1, <1>2, <1>3, <1>4, <1>6

LEMMA FrameCounted ==
    ASSUME IInv, InStep, Ordered, AttackCounted,
           NEW bad \in BOOLEAN, NEW time \in now..MaxTime, Frame(bad, time)
    PROVE  AttackCounted'
<1> DEFINE L == Len(arrived)
           b == arrived'
           t == window'.total
<1>1. /\ time \in Nat /\ now \in Nat /\ now <= time /\ now' = time
      /\ b \in Seq(Arrival) /\ L \in Nat /\ Len(b) = L + 1
      /\ \A n \in 1..L : b[n] = arrived[n] /\ arrived[n].at \in Nat
      /\ b[L + 1] = [at |-> time, bad |-> bad, act |-> action']
  BY FrameOrdered
<1>2. Ordered'
  BY FrameOrdered
<1> SUFFICES ASSUME NEW i \in 1..L + 1, NEW j \in 1..L + 1, Attack(i, j)'
             PROVE  /\ t \in 1..MinFrames
                    /\ i + t <= L + 1
                    /\ \/ L + 1 - j + 1 <= t
                       \/ /\ L + 1 - j + 1 <= MinFrames + t
                          /\ window'.start >= b[j].at
  BY <1>1 DEF AttackCounted
<1>3. /\ i < j /\ b[j].at - b[i].at > WindowDuration
      /\ time - b[j].at <= WindowDuration
      /\ \A n \in i..L + 1 : b[n].bad /\ b[n].act = "none"
  BY <1>1 DEF Attack, OnlyBad
<1>4. i \in 1..L /\ action' = "none"
  BY <1>1, <1>3
<1>5. /\ window' \in Windows /\ EvaluateWindow(window') = "none" /\ CountsIn(b, window')
      /\ \/ /\ t = 1 /\ window'.start = time
            /\ window.start # None => time - window.start > WindowDuration
         \/ /\ t = window.total + 1
            /\ time - window'.start <= WindowDuration
            /\ window.start # None => window'.start = window.start
  BY <1>4, LetPass
<1>6. /\ t \in Nat /\ t > 0 /\ t <= L + 1 /\ window'.start \in Nat
      /\ window.total \in Nat
  BY <1>1, <1>5 DEF Windows, CountsIn, IInv, Quiet
<1>7. b[i].at \in Nat /\ b[j].at \in Nat /\ b[j].at <= time
  <2>1. b[i] \in Arrival /\ b[j] \in Arrival
    BY <1>1
  <2> QED
    BY <2>1, <1>1, <1>2 DEF Ordered, Arrival
<1>8. i + t <= L + 1
  <2>1. CASE t = 1
    BY <2>1, <1>1, <1>4
  <2>2. CASE time - window'.start <= WindowDuration
    <3> SUFFICES ASSUME i + t > L + 1 PROVE FALSE
      BY <1>1, <1>6
    <3>1. i \in LastOf(b, t)
      BY <1>1, <1>4, <1>6 DEF LastOf
    <3>2. window'.start <= b[i].at
      BY <1>5, <3>1 DEF CountsIn
    <3> QED
      BY <2>2, <3>2, <1>1, <1>3, <1>6, <1>7, PolicyAssumption
  <2> QED
    BY <1>5, <2>1, <2>2
<1>9. t \in 1..MinFrames
  <2>1. \A n \in LastOf(b, t) : b[n].bad
    BY <1>1, <1>3, <1>4, <1>6, <1>8 DEF LastOf
  <2>2. window'.bad = t
    BY <2>1, <1>1, <1>5, AllBad
  <2> QED
    BY <2>2, <1>5, <1>6, AllBadIsFew
<1>10. CASE j = L + 1
  BY <1>1, <1>6, <1>8, <1>9, <1>10
<1>11. CASE j \in 1..L
  <2>1. Attack(i, j)
    BY <1>1, <1>3, <1>4, <1>11, PolicyAssumption DEF Attack, OnlyBad
  <2>2. /\ window.total \in 1..MinFrames
        /\ \/ L - j + 1 <= window.total
           \/ /\ L - j + 1 <= MinFrames + window.total
              /\ window.start >= arrived[j].at
    BY <2>1, <1>4, <1>11 DEF AttackCounted
  <2>3. window.start # None /\ window.start \in Nat
    BY <2>2, <1>6 DEF InStep, CountsIn
  <2>4. CASE t = 1 /\ window'.start = time /\ time - window.start > WindowDuration
    <3>1. L - j + 1 <= window.total
      BY <2>2, <2>3, <2>4, <1>1, <1>3, <1>6, <1>7, <1>11, PolicyAssumption
    <3> QED
      BY <3>1, <2>2, <2>4, <1>1, <1>6, <1>7, <1>8, <1>9, <1>11, PolicyAssumption
  <2>5. CASE t = window.total + 1 /\ window'.start = window.start
    <3>1. b[j] = arrived[j]
      BY <1>1, <1>11
    <3>2. CASE L - j + 1 <= window.total
      BY <3>2, <2>5, <1>1, <1>6, <1>8, <1>9, <1>11
    <3>3. CASE L - j + 1 <= MinFrames + window.total /\ window.start >= arrived[j].at
      <4>1. L + 1 - j + 1 <= MinFrames + t
        BY <3>3, <2>5, <1>1, <1>6, <1>11, PolicyAssumption
      <4>2. window'.start >= b[j].at
        BY <3>1, <3>3, <2>5
      <4> QED
        BY <4>1, <4>2, <1>8, <1>9
    <3> QED
      BY <2>2, <3>2, <3>3
  <2> QED
    BY <1>5, <2>3, <2>4, <2>5
<1> QED
  BY <1>1, <1>10, <1>11

LEMMA FrameCaught ==
    ASSUME IInv, Ordered, SustainedAttackCaught, AttackCounted',
           NEW bad \in BOOLEAN, NEW time \in now..MaxTime, Frame(bad, time)
    PROVE  SustainedAttackCaught'
<1> DEFINE L == Len(arrived)
           b == arrived'
<1>1. /\ time \in Nat /\ now' = time /\ L \in Nat /\ Len(b) = L + 1
      /\ \A n \in 1..L : b[n] = arrived[n]
      /\ b[L + 1] = [at |-> time, bad |-> bad, act |-> action']
  BY FrameOrdered
<1> SUFFICES ASSUME NEW i \in 1..L + 1, NEW j \in 1..L + 1,
                    i < j, j + 2 * MinFrames <= L + 1,
                    b[j].at - b[i].at > WindowDuration,
                    b[j + 2 * MinFrames].at - b[j].at <= WindowDuration,
                    \A n \in i..j + 2 * MinFrames : b[n].bad /\ b[n].act = "none"
             PROVE  FALSE
  BY <1>1 DEF SustainedAttackCaught, OnlyBad
<1> DEFINE k == j + 2 * MinFrames
<1>2. MinFrames \in Nat /\ MinFrames > 0 /\ i \in 1..L /\ j \in 1..L /\ k \in Nat
  BY <1>1, PolicyAssumption
<1>3. CASE k <= L
  <2>1. arrived[j].at - arrived[i].at > WindowDuration
        /\ arrived[k].at - arrived[j].at <= WindowDuration
    BY <1>1, <1>2, <1>3
  <2>2. OnlyBad(i, k)
    BY <1>1, <1>2, <1>3 DEF OnlyBad
  <2> QED
    BY <2>1, <2>2, <1>2, <1>3 DEF SustainedAttackCaught
<1>4. CASE k = L + 1
  <2>1. b[k].at = time
    BY <1>1, <1>4
  <2>2. Attack(i, j)'
    BY <2>1, <1>1, <1>4 DEF Attack, OnlyBad
  <2>3. /\ window'.total \in 1..MinFrames
        /\ \/ L + 1 - j + 1 <= window'.total
           \/ L + 1 - j + 1 <= MinFrames + window'.total
    BY <2>2, <1>1 DEF AttackCounted
  <2> QED
    BY <2>3, <1>1, <1>2, <1>4
<1>5. k <= L \/ k = L + 1
  <2>1. L \in Nat /\ k \in Nat /\ k <= L + 1
    BY <1>1, <1>2
  <2> HIDE DEF k, L
  <2> QED
    BY <2>1
<1> QED
  BY <1>3, <1>4, <1>5

(* Windows are tumbling, but an attack that lasts longer than one is caught   *)
(* at the latest by the 2 * MinFrames + 1 st frame thereafter, however the   *)
(* windows happen to fall (frame_policy.go:57-79).                          *)
THEOREM AttackIsCaught == Spec => []SustainedAttackCaught
<1> DEFINE KInv == IInv /\ InStep /\ Ordered /\ AttackCounted /\ SustainedAttackCaught
<1>1. Init => KInv
  <2> SUFFICES ASSUME Init PROVE KInv
    OBVIOUS
  <2>1. window.start = None /\ window.total = 0 /\ Len(arrived) = 0
    BY DEF Init, NoWindow, NewWindow
  <2>2. 1..Len(arrived) = {}
    BY <2>1
  <2> QED
    BY <2>1, <2>2, InitIInv
       DEF InStep, Ordered, AttackCounted, SustainedAttackCaught
<1>2. KInv /\ [Next]_vars => KInv'
  <2> SUFFICES ASSUME KInv, [Next]_vars PROVE KInv'
    OBVIOUS
  <2>1. IInv'
    BY NextIInv
  <2>2. CASE Next
    <3>1. PICK bad \in BOOLEAN, time \in now..MaxTime : Frame(bad, time)
      BY <2>2 DEF Next
    <3>2. InStep' /\ Ordered' /\ AttackCounted'
      BY <3>1, FrameInStep, FrameOrdered, FrameCounted
    <3> QED
      BY <2>1, <3>1, <3>2, FrameCaught
  <2>3. CASE UNCHANGED vars
    <3>1. InStep'
      BY <2>3 DEF InStep, vars
    <3>2. Ordered'
      BY <2>3 DEF Ordered, vars
    <3>3. AttackCounted'
      BY <2>3 DEF AttackCounted, Attack, OnlyBad, vars
    <3>4. SustainedAttackCaught'
      BY <2>3 DEF SustainedAttackCaught, OnlyBad, vars
    <3> QED
      BY <2>1, <3>1, <3>2, <3>3, <3>4
  <2> QED
    BY <2>2, <2>3
<1>3. KInv => SustainedAttackCaught
  OBVIOUS
<1> QED
  BY <1>1, <1>2, <1>3, PTL DEF Spec
=============================================================================
