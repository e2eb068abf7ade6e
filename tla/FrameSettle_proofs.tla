------------------------- MODULE FrameSettle_proofs -------------------------
(***************************************************************************)
(* What a wait for a still window promises, for any frames, any tolerance  *)
(* relation that is reflexive and symmetric, any timeouts and any number   *)
(* of samples.                                                             *)
(*                                                                         *)
(* The tools of FrameTools run the same wait and rely on the same lemmas;  *)
(* until they begin it, it is "ready".                                     *)
(***************************************************************************)
EXTENDS FrameSettle, TLAPS

Types ==
  /\ now \in 0..MaxTime /\ frame \in Frames /\ target \in Target
  /\ cancelled \in BOOLEAN
  /\ pc \in Phase \cup {"ready"}
  /\ deadline \in Nat /\ stableSince \in Nat /\ nextSample \in Nat
  /\ anchor \in Shot /\ sample \in Shot
  /\ status \in Status
  /\ (status = "none") = (pc # "done")
  /\ period \subseteq JudgedShot
  /\ late \in Nat

\* There is an anchor, and samples are compared with it.
Comparing == {"poll", "look", "due", "late", "check", "sample", "sampled", "judge",
              "verdict"}

\* The wait has been successful, but for the last validation.
Successful == pc = "verdict" \/ status = "settled"

\* A window that was replaced stays so, and is found by the validation that follows
\* the capture.
TargetInv ==
  /\ FramesOfTarget
  /\ pc \in {"anchored", "sampled"} =>
       /\ sample.target # "resized"
       /\ sample.target = "replaced" => target = "replaced"
  /\ pc = "judge" => sample.target \notin {"replaced", "resized"}

\* The anchor as it entered the period: judged when the period began.
JudgedAnchor ==
  [frame |-> anchor.frame, target |-> anchor.target, at |-> anchor.at, judged |-> stableSince]

\* The period began with its anchor, and nothing in it is older or differs from it.
AnchorFirst ==
  /\ anchor.at <= sample.at /\ sample.at <= now /\ stableSince <= now
  /\ pc \in Comparing \/ status = "settled" => JudgedAnchor \in period
  /\ \A s \in period :
       /\ anchor.at <= s.at /\ <<anchor.frame, s.frame>> \in Near
       /\ stableSince <= s.judged /\ s.judged <= now

\* Success rests on a sample judged StableMs after the anchor, and on none judged late.
SuccessInv ==
  Successful =>
    /\ \E last \in period :
         /\ stableSince + StableMs <= last.judged
         /\ \A s \in period : s.judged <= last.judged
    /\ \A s \in period : s.judged < deadline

StillInv == AnchorFirst /\ SuccessInv

\* A timeout is found after the deadline.
LateInv == pc = "late" \/ status = "timeout" => now >= deadline

\* The capture made after the cancellation is followed by the check of it.
CancelInv ==
  /\ late <= 1
  /\ ~cancelled => late = 0
  /\ late = 1 => pc \in {"anchored", "sampled", "judge", "poll", "verdict", "done"}

SettleInv == Types /\ TargetInv /\ StillInv /\ LateInv /\ CancelInv

-----------------------------------------------------------------------------
(* Types *)

\* What a capture shows is a shot.
LEMMA ShotTyped == Types => CurrentShot \in Shot
BY DEF Types, CurrentShot, Shot

\* A sample that is judged is a judged shot, of this moment.
LEMMA JudgedTyped ==
  ASSUME Types
  PROVE  /\ JudgedSample \in JudgedShot
         /\ JudgedSample.judged = now /\ JudgedSample.at = sample.at
         /\ JudgedSample.frame = sample.frame /\ JudgedSample.target = sample.target
BY DEF Types, JudgedSample, Shot, JudgedShot

\* The initial states are typed.
LEMMA InitTyped == Init => Types
<1> SUFFICES ASSUME Init PROVE Types
  OBVIOUS
<1>1. /\ now \in 0..MaxTime /\ deadline \in Nat /\ target \in Target /\ frame \in Frames
  BY TimesAssumption DEF Init, EnvInit, Target
<1>2. CurrentShot \in Shot
  BY <1>1 DEF CurrentShot, Shot
<1>3. period \subseteq JudgedShot
  BY DEF Init, WaitInit
<1> QED
  BY <1>1, <1>2, <1>3 DEF Init, EnvInit, WaitInit, Types, Phase, Status

\* Every step keeps the ranges.
LEMMA TypesStep == Types /\ [Next]_settleVars => Types'
<1> SUFFICES ASSUME Types, [Next]_settleVars PROVE Types'
  OBVIOUS
<1> USE TimesAssumption DEF Types, Phase, Status, envVars, waitVars
<1>0. CurrentShot \in Shot /\ sample \in Shot /\ JudgedSample \in JudgedShot
  BY ShotTyped, JudgedTyped
<1>1. CASE Tick
  BY <1>1 DEF Tick
<1>2. CASE FrameChanges
  BY <1>2 DEF FrameChanges
<1>3. CASE TargetChanges
  BY <1>3 DEF TargetChanges, Target
<1>4. CASE Cancel
  BY <1>4 DEF Cancel
<1>5. CASE TargetInvalid
  BY <1>5 DEF TargetInvalid, Finish
<1>6. CASE CaptureFails
  BY <1>6 DEF CaptureFails, Finish
<1>7. CASE BeginExpired
  BY <1>7 DEF BeginExpired, Finish
<1>8. CASE Begin
  BY <1>8 DEF Begin, Goto
<1>9. CASE CaptureAnchor
  BY <1>0, <1>9 DEF CaptureAnchor, TakeShot
<1>10. CASE KeepAnchor
  BY <1>0, <1>10 DEF KeepAnchor, NewPeriod
<1>11. CASE PollCancelled
  BY <1>11 DEF PollCancelled, Finish
<1>12. CASE Poll
  BY <1>12 DEF Poll, Goto
<1>13. CASE Look
  BY <1>13 DEF Look, Goto
<1>14. CASE Due
  BY <1>14 DEF Due, Goto
<1>15. CASE TimesOut
  BY <1>15 DEF TimesOut, Finish
<1>16. CASE CheckTarget
  BY <1>16 DEF CheckTarget, Goto
<1>17. CASE CaptureSample
  BY <1>0, <1>17 DEF CaptureSample, TakeShot
<1>18. CASE SampleValid
  BY <1>18 DEF SampleValid, Goto
<1>19. CASE JudgeLate
  BY <1>19 DEF JudgeLate, Finish
<1>20. CASE JudgeChanged
  BY <1>0, <1>20 DEF JudgeChanged, NewPeriod
<1>21. CASE JudgeStable
  BY <1>0, <1>21 DEF JudgeStable
<1>22. CASE Settle
  BY <1>22 DEF Settle, Finish
<1>23. CASE UNCHANGED settleVars
  BY <1>23 DEF settleVars
<1> QED
  BY <1>1, <1>2, <1>3, <1>4, <1>5, <1>6, <1>7, <1>8, <1>9, <1>10, <1>11, <1>12, <1>13,
     <1>14, <1>15, <1>16, <1>17, <1>18, <1>19, <1>20, <1>21, <1>22, <1>23
  DEF Next, Environment, SettleStep

\* The ranges hold in every reachable state.
THEOREM Typed == Spec => []TypeOK
<1>1. Init => Types /\ pc # "ready"
  BY InitTyped DEF Init
<1>2. (Types /\ pc # "ready") /\ [Next]_settleVars => (Types /\ pc # "ready")'
  <2> SUFFICES ASSUME Types, pc # "ready", [Next]_settleVars PROVE pc' # "ready"
    BY TypesStep
  <2>1. CASE Environment
    BY <2>1 DEF Environment, Tick, FrameChanges, TargetChanges, Cancel
  <2>2. CASE SettleStep
    BY <2>2 DEF SettleStep, TargetInvalid, CaptureFails, BeginExpired, Begin, CaptureAnchor,
       KeepAnchor, PollCancelled, Poll, Look, Due, TimesOut, CheckTarget, CaptureSample,
       SampleValid, JudgeLate, JudgeChanged, JudgeStable, Settle, Finish, Goto, TakeShot,
       NewPeriod
  <2>3. CASE UNCHANGED settleVars
    BY <2>3 DEF settleVars
  <2> QED
    BY <2>1, <2>2, <2>3 DEF Next
<1>3. Types /\ pc # "ready" => TypeOK
  BY DEF Types, TypeOK
<1> QED
  BY <1>1, <1>2, <1>3, PTL DEF Spec

-----------------------------------------------------------------------------
(* The target *)

\* A shot enters the period only after the window was validated behind it.
LEMMA TargetStep == Types /\ TargetInv /\ [Next]_settleVars => TargetInv'
<1> SUFFICES ASSUME Types, TargetInv, [Next]_settleVars PROVE TargetInv'
  OBVIOUS
<1> USE JudgedTyped DEF Types, TargetInv, FramesOfTarget, StillValid, envVars, waitVars
<1>1. CASE Tick
  BY <1>1 DEF Tick
<1>2. CASE FrameChanges
  BY <1>2 DEF FrameChanges
<1>3. CASE TargetChanges
  BY <1>3 DEF TargetChanges
<1>4. CASE Cancel
  BY <1>4 DEF Cancel
<1>5. CASE TargetInvalid
  BY <1>5 DEF TargetInvalid, Finish
<1>6. CASE CaptureFails
  BY <1>6 DEF CaptureFails, Finish
<1>7. CASE BeginExpired
  BY <1>7 DEF BeginExpired, Finish
<1>8. CASE Begin
  BY <1>8 DEF Begin, Goto
<1>9. CASE CaptureAnchor
  BY <1>9 DEF CaptureAnchor, TakeShot, CurrentShot
<1>10. CASE KeepAnchor
  BY <1>10 DEF KeepAnchor, NewPeriod
<1>11. CASE PollCancelled
  BY <1>11 DEF PollCancelled, Finish
<1>12. CASE Poll
  BY <1>12 DEF Poll, Goto
<1>13. CASE Look
  BY <1>13 DEF Look, Goto
<1>14. CASE Due
  BY <1>14 DEF Due, Goto
<1>15. CASE TimesOut
  BY <1>15 DEF TimesOut, Finish
<1>16. CASE CheckTarget
  BY <1>16 DEF CheckTarget, Goto
<1>17. CASE CaptureSample
  BY <1>17 DEF CaptureSample, TakeShot, CurrentShot
<1>18. CASE SampleValid
  BY <1>18 DEF SampleValid, Goto
<1>19. CASE JudgeLate
  BY <1>19 DEF JudgeLate, Finish
<1>20. CASE JudgeChanged
  BY <1>20 DEF JudgeChanged, NewPeriod
<1>21. CASE JudgeStable
  BY <1>21 DEF JudgeStable, StableFor
<1>22. CASE Settle
  BY <1>22 DEF Settle, Finish
<1>23. CASE UNCHANGED settleVars
  BY <1>23 DEF settleVars
<1> QED
  BY <1>1, <1>2, <1>3, <1>4, <1>5, <1>6, <1>7, <1>8, <1>9, <1>10, <1>11, <1>12, <1>13,
     <1>14, <1>15, <1>16, <1>17, <1>18, <1>19, <1>20, <1>21, <1>22, <1>23
  DEF Next, Environment, SettleStep

\* No frame of another window, or of one that took its place while the frame was
\* captured, enters the comparison.
THEOREM OnlyTargetCompared == Spec => []FramesOfTarget
<1>1. Init => Types /\ TargetInv
  BY InitTyped DEF Init, WaitInit, TargetInv, FramesOfTarget
<1>2. (Types /\ TargetInv) /\ [Next]_settleVars => (Types /\ TargetInv)'
  BY TypesStep, TargetStep
<1>3. Types /\ TargetInv => FramesOfTarget
  BY DEF TargetInv
<1> QED
  BY <1>1, <1>2, <1>3, PTL DEF Spec

-----------------------------------------------------------------------------
(* Stillness *)

\* A shot is not from the future.
LEMMA ShotNow == CurrentShot.at = now
BY DEF CurrentShot

\* The clock never goes back, and all times are numbers.
LEMMA ClockAdvances ==
  ASSUME Types, [Next]_settleVars
  PROVE  /\ now \in Nat /\ now' \in Nat /\ now <= now'
         /\ deadline \in Nat /\ stableSince \in Nat /\ nextSample \in Nat
         /\ sample.at \in Nat /\ anchor.at \in Nat /\ sample.frame \in Frames
         /\ \A s \in period : s.at \in Nat /\ s.judged \in Nat
         /\ \A s \in period' : s.at \in Nat /\ s.judged \in Nat
<1>1. now' = now \/ now' = now + 1
  BY DEF Next, Environment, SettleStep, Tick, FrameChanges, TargetChanges, Cancel,
     TargetInvalid, CaptureFails, BeginExpired, Begin, CaptureAnchor, KeepAnchor,
     PollCancelled, Poll, Look, Due, TimesOut, CheckTarget, CaptureSample,
     SampleValid, JudgeLate, JudgeChanged, JudgeStable, Settle, TakeShot,
     envVars, settleVars
<1> QED
  BY <1>1, TypesStep DEF Types, Shot, JudgedShot

\* Only a sample near the anchor joins it; any other one begins a new period.
LEMMA AnchorStep == Types /\ AnchorFirst /\ [Next]_settleVars => AnchorFirst'
<1> SUFFICES ASSUME Types, AnchorFirst, [Next]_settleVars PROVE AnchorFirst'
  OBVIOUS
<1> USE TimesAssumption, NearAssumption DEF AnchorFirst, JudgedAnchor, Comparing, envVars,
     waitVars
<1>0. /\ now \in Nat /\ now' \in Nat /\ now <= now'
      /\ deadline \in Nat /\ stableSince \in Nat /\ nextSample \in Nat
      /\ sample.at \in Nat /\ anchor.at \in Nat /\ sample.frame \in Frames
      /\ \A s \in period : s.at \in Nat /\ s.judged \in Nat
  BY ClockAdvances
<1>1. CASE Tick
  BY <1>1, <1>0 DEF Tick
<1>2. CASE FrameChanges
  BY <1>2, <1>0 DEF FrameChanges
<1>3. CASE TargetChanges
  BY <1>3, <1>0 DEF TargetChanges
<1>4. CASE Cancel
  BY <1>4, <1>0 DEF Cancel
<1>5. CASE TargetInvalid
  BY <1>5, <1>0 DEF TargetInvalid, Finish
<1>6. CASE CaptureFails
  BY <1>6, <1>0 DEF CaptureFails, Finish
<1>7. CASE BeginExpired
  BY <1>7, <1>0 DEF BeginExpired, Finish
<1>8. CASE Begin
  BY <1>8, <1>0 DEF Begin, Goto
<1>9. CASE CaptureAnchor
  BY <1>9, <1>0 DEF CaptureAnchor, TakeShot, CurrentShot, ShotNow
<1>10. CASE KeepAnchor
  BY <1>10, <1>0, JudgedTyped DEF KeepAnchor, NewPeriod, JudgedSample
<1>11. CASE PollCancelled
  BY <1>11, <1>0 DEF PollCancelled, Finish
<1>12. CASE Poll
  BY <1>12, <1>0 DEF Poll, Goto
<1>13. CASE Look
  BY <1>13, <1>0 DEF Look, Goto
<1>14. CASE Due
  BY <1>14, <1>0 DEF Due, Goto
<1>15. CASE TimesOut
  BY <1>15, <1>0 DEF TimesOut, Finish
<1>16. CASE CheckTarget
  BY <1>16, <1>0 DEF CheckTarget, Goto
<1>17. CASE CaptureSample
  BY <1>17, <1>0 DEF CaptureSample, TakeShot, CurrentShot, ShotNow
<1>18. CASE SampleValid
  BY <1>18, <1>0 DEF SampleValid, Goto
<1>19. CASE JudgeLate
  BY <1>19, <1>0 DEF JudgeLate, Finish
<1>20. CASE JudgeChanged
  BY <1>20, <1>0, JudgedTyped DEF JudgeChanged, NewPeriod, JudgedSample
<1>21. CASE JudgeStable
  BY <1>21, <1>0, JudgedTyped DEF JudgeStable
<1>22. CASE Settle
  BY <1>22, <1>0 DEF Settle, Finish
<1>23. CASE UNCHANGED settleVars
  BY <1>23 DEF settleVars
<1> QED
  BY <1>1, <1>2, <1>3, <1>4, <1>5, <1>6, <1>7, <1>8, <1>9, <1>10, <1>11, <1>12, <1>13,
     <1>14, <1>15, <1>16, <1>17, <1>18, <1>19, <1>20, <1>21, <1>22, <1>23
  DEF Next, Environment, SettleStep

\* The sample that completes the period is judged before the deadline.
LEMMA SuccessStep == Types /\ AnchorFirst /\ SuccessInv /\ [Next]_settleVars => SuccessInv'
<1> SUFFICES ASSUME Types, AnchorFirst, SuccessInv, [Next]_settleVars PROVE SuccessInv'
  OBVIOUS
<1> USE TimesAssumption, NearAssumption DEF Types, Status,
     AnchorFirst, SuccessInv, Successful, Comparing, envVars, waitVars
<1>0. /\ now \in Nat /\ now' \in Nat /\ now <= now'
      /\ deadline \in Nat /\ stableSince \in Nat /\ nextSample \in Nat
      /\ sample.at \in Nat /\ anchor.at \in Nat /\ sample.frame \in Frames
      /\ \A s \in period : s.at \in Nat /\ s.judged \in Nat
  BY ClockAdvances
<1>1. CASE Tick
  BY <1>1, <1>0 DEF Tick
<1>2. CASE FrameChanges
  BY <1>2, <1>0 DEF FrameChanges
<1>3. CASE TargetChanges
  BY <1>3, <1>0 DEF TargetChanges
<1>4. CASE Cancel
  BY <1>4, <1>0 DEF Cancel
<1>5. CASE TargetInvalid
  BY <1>5, <1>0 DEF TargetInvalid, Finish
<1>6. CASE CaptureFails
  BY <1>6, <1>0 DEF CaptureFails, Finish
<1>7. CASE BeginExpired
  BY <1>7, <1>0 DEF BeginExpired, Finish
<1>8. CASE Begin
  BY <1>8, <1>0 DEF Begin, Goto
<1>9. CASE CaptureAnchor
  BY <1>9, <1>0 DEF CaptureAnchor, TakeShot, CurrentShot
<1>10. CASE KeepAnchor
  BY <1>10, <1>0 DEF KeepAnchor, NewPeriod
<1>11. CASE PollCancelled
  BY <1>11, <1>0 DEF PollCancelled, Finish
<1>12. CASE Poll
  BY <1>12, <1>0 DEF Poll, Goto
<1>13. CASE Look
  BY <1>13, <1>0 DEF Look, Goto
<1>14. CASE Due
  BY <1>14, <1>0 DEF Due, Goto
<1>15. CASE TimesOut
  BY <1>15, <1>0 DEF TimesOut, Finish
<1>16. CASE CheckTarget
  BY <1>16, <1>0 DEF CheckTarget, Goto
<1>17. CASE CaptureSample
  BY <1>17, <1>0 DEF CaptureSample, TakeShot, CurrentShot
<1>18. CASE SampleValid
  BY <1>18, <1>0 DEF SampleValid, Goto
<1>19. CASE JudgeLate
  BY <1>19, <1>0 DEF JudgeLate, Finish
<1>20. CASE JudgeChanged
  BY <1>20, <1>0 DEF JudgeChanged, NewPeriod
<1>21. CASE JudgeStable
  <2>1. /\ JudgedSample \in period' /\ JudgedSample.judged = now
        /\ now < deadline /\ deadline' = deadline /\ stableSince' = stableSince
        /\ status' = status /\ status = "none"
        /\ pc' = "verdict" => stableSince + StableMs <= now
    BY <1>0, <1>21, JudgedTyped DEF JudgeStable, StableFor
  <2>2. ASSUME NEW s \in period' PROVE s.judged \in Nat /\ s.judged <= now
    <3>1. s \in period \/ s = JudgedSample
      BY <1>21 DEF JudgeStable
    <3>2. \A t \in period : t.judged \in Nat /\ t.judged <= now
      BY <1>0
    <3>3. JudgedSample.judged \in Nat /\ JudgedSample.judged <= now
      BY <1>0, <2>1
    <3> QED
      BY <3>1, <3>2, <3>3, Zenon
  <2>3. \A s \in period' : s.judged < deadline
    BY <1>0, <2>1, <2>2
  <2>4. pc' = "verdict" =>
          \E last \in period' :
            /\ stableSince + StableMs <= last.judged
            /\ \A s \in period' : s.judged <= last.judged
    BY <2>1, <2>2
  <2> QED
    BY <2>1, <2>3, <2>4
<1>22. CASE Settle
  BY <1>22, <1>0 DEF Settle, Finish
<1>23. CASE UNCHANGED settleVars
  BY <1>23 DEF settleVars
<1> QED
  BY <1>1, <1>2, <1>3, <1>4, <1>5, <1>6, <1>7, <1>8, <1>9, <1>10, <1>11, <1>12, <1>13,
     <1>14, <1>15, <1>16, <1>17, <1>18, <1>19, <1>20, <1>21, <1>22, <1>23
  DEF Next, Environment, SettleStep

\* What is kept about the period makes it a period of stillness.
LEMMA StillImplies == Types /\ StillInv => SettledWasStill
<1> SUFFICES ASSUME Types, StillInv, status = "settled"
             PROVE  \E first, last \in period :
                      /\ first.judged + StableMs <= last.judged
                      /\ \A s \in period :
                           /\ first.at <= s.at
                           /\ first.judged <= s.judged /\ s.judged <= last.judged
                           /\ <<first.frame, s.frame>> \in Near
  BY DEF SettledWasStill
<1>1. PICK last \in period :
        /\ stableSince + StableMs <= last.judged
        /\ \A s \in period : s.judged <= last.judged
  BY DEF StillInv, SuccessInv, Successful
<1>2. /\ JudgedAnchor \in period /\ JudgedAnchor.judged = stableSince
      /\ JudgedAnchor.at = anchor.at /\ JudgedAnchor.frame = anchor.frame
  BY DEF StillInv, AnchorFirst, JudgedAnchor
<1>3. \A s \in period :
        /\ anchor.at <= s.at /\ stableSince <= s.judged
        /\ <<anchor.frame, s.frame>> \in Near
  BY DEF StillInv, AnchorFirst
<1> QED
  BY <1>1, <1>2, <1>3

\* A settled window was still: between the judgement of the anchor and that of the last
\* sample lay StableMs, and all frames judged are within tolerance of the anchor, however
\* slowly they drift.
THEOREM SettledStill == Spec => []SettledWasStill
<1>1. Init => Types /\ StillInv
  <2> SUFFICES ASSUME Init PROVE StillInv
    BY InitTyped
  <2>1. now = 0 /\ anchor.at = 0 /\ sample.at = 0
    BY DEF Init, EnvInit, WaitInit, CurrentShot
  <2> QED
    BY <2>1 DEF Init, WaitInit, StillInv, AnchorFirst, SuccessInv, Successful,
       Comparing
<1>2. (Types /\ StillInv) /\ [Next]_settleVars => (Types /\ StillInv)'
  BY TypesStep, AnchorStep, SuccessStep DEF StillInv
<1>3. Types /\ StillInv => SettledWasStill
  BY StillImplies
<1> QED
  BY <1>1, <1>2, <1>3, PTL DEF Spec

-----------------------------------------------------------------------------
(* The deadline *)

\* The deadline was read before a timeout is reported, and does not move.
LEMMA LateStep == Types /\ LateInv /\ [Next]_settleVars => LateInv'
<1> SUFFICES ASSUME Types, LateInv, [Next]_settleVars PROVE LateInv'
  OBVIOUS
<1> USE DEF LateInv, envVars, waitVars
<1>0. now \in Nat /\ deadline \in Nat
  BY DEF Types
<1>1. CASE Tick
  BY <1>1, <1>0 DEF Tick
<1>2. CASE FrameChanges
  BY <1>2, <1>0 DEF FrameChanges
<1>3. CASE TargetChanges
  BY <1>3, <1>0 DEF TargetChanges
<1>4. CASE Cancel
  BY <1>4, <1>0 DEF Cancel
<1>5. CASE TargetInvalid
  BY <1>5, <1>0 DEF TargetInvalid, Finish
<1>6. CASE CaptureFails
  BY <1>6, <1>0 DEF CaptureFails, Finish
<1>7. CASE BeginExpired
  BY <1>7, <1>0 DEF BeginExpired, Finish
<1>8. CASE Begin
  BY <1>8, <1>0 DEF Begin, Goto
<1>9. CASE CaptureAnchor
  BY <1>9, <1>0 DEF CaptureAnchor, TakeShot, CurrentShot
<1>10. CASE KeepAnchor
  BY <1>10, <1>0 DEF KeepAnchor, NewPeriod
<1>11. CASE PollCancelled
  BY <1>11, <1>0 DEF PollCancelled, Finish
<1>12. CASE Poll
  BY <1>12, <1>0 DEF Poll, Goto
<1>13. CASE Look
  BY <1>13, <1>0 DEF Look, Goto
<1>14. CASE Due
  BY <1>14, <1>0 DEF Due, Goto
<1>15. CASE TimesOut
  BY <1>15, <1>0 DEF TimesOut, Finish
<1>16. CASE CheckTarget
  BY <1>16, <1>0 DEF CheckTarget, Goto
<1>17. CASE CaptureSample
  BY <1>17, <1>0 DEF CaptureSample, TakeShot, CurrentShot
<1>18. CASE SampleValid
  BY <1>18, <1>0 DEF SampleValid, Goto
<1>19. CASE JudgeLate
  BY <1>19, <1>0 DEF JudgeLate, Finish
<1>20. CASE JudgeChanged
  BY <1>20, <1>0 DEF JudgeChanged, NewPeriod
<1>21. CASE JudgeStable
  BY <1>21, <1>0 DEF JudgeStable, StableFor
<1>22. CASE Settle
  BY <1>22, <1>0 DEF Settle, Finish
<1>23. CASE UNCHANGED settleVars
  BY <1>23 DEF settleVars
<1> QED
  BY <1>1, <1>2, <1>3, <1>4, <1>5, <1>6, <1>7, <1>8, <1>9, <1>10, <1>11, <1>12, <1>13,
     <1>14, <1>15, <1>16, <1>17, <1>18, <1>19, <1>20, <1>21, <1>22, <1>23
  DEF Next, Environment, SettleStep

\* A settled verdict rests on samples judged before the deadline only, whenever they were
\* captured, and a timeout is never reported early.
THEOREM VerdictTimely == Spec => []VerdictInTime
<1>1. Init => Types /\ StillInv /\ LateInv
  <2> SUFFICES ASSUME Init PROVE StillInv /\ LateInv
    BY InitTyped
  <2>1. now = 0 /\ anchor.at = 0 /\ sample.at = 0
    BY DEF Init, EnvInit, WaitInit, CurrentShot
  <2> QED
    BY <2>1 DEF Init, WaitInit, StillInv, AnchorFirst, SuccessInv, Successful,
       Comparing, LateInv
<1>2. (Types /\ StillInv /\ LateInv) /\ [Next]_settleVars => (Types /\ StillInv /\ LateInv)'
  BY TypesStep, AnchorStep, SuccessStep, LateStep DEF StillInv
<1>3. Types /\ StillInv /\ LateInv => VerdictInTime
  BY DEF StillInv, SuccessInv, Successful, LateInv, VerdictInTime
<1> QED
  BY <1>1, <1>2, <1>3, PTL DEF Spec

-----------------------------------------------------------------------------
(* Cancellation *)

\* A capture made late is on its way to the next check of the cancellation.
LEMMA CancelStep == Types /\ CancelInv /\ [Next]_settleVars => CancelInv'
<1> SUFFICES ASSUME Types, CancelInv, [Next]_settleVars PROVE CancelInv'
  OBVIOUS
<1> USE DEF CancelInv, envVars, waitVars
<1>0. late \in Nat /\ cancelled \in BOOLEAN
  BY DEF Types
<1>1. CASE Tick
  BY <1>1, <1>0 DEF Tick
<1>2. CASE FrameChanges
  BY <1>2, <1>0 DEF FrameChanges
<1>3. CASE TargetChanges
  BY <1>3, <1>0 DEF TargetChanges
<1>4. CASE Cancel
  BY <1>4, <1>0 DEF Cancel
<1>5. CASE TargetInvalid
  BY <1>5, <1>0 DEF TargetInvalid, Finish
<1>6. CASE CaptureFails
  BY <1>6, <1>0 DEF CaptureFails, Finish
<1>7. CASE BeginExpired
  BY <1>7, <1>0 DEF BeginExpired, Finish
<1>8. CASE Begin
  BY <1>8, <1>0 DEF Begin, Goto
<1>9. CASE CaptureAnchor
  BY <1>9, <1>0 DEF CaptureAnchor, TakeShot, CurrentShot
<1>10. CASE KeepAnchor
  BY <1>10, <1>0 DEF KeepAnchor, NewPeriod
<1>11. CASE PollCancelled
  BY <1>11, <1>0 DEF PollCancelled, Finish
<1>12. CASE Poll
  BY <1>12, <1>0 DEF Poll, Goto
<1>13. CASE Look
  BY <1>13, <1>0 DEF Look, Goto
<1>14. CASE Due
  BY <1>14, <1>0 DEF Due, Goto
<1>15. CASE TimesOut
  BY <1>15, <1>0 DEF TimesOut, Finish
<1>16. CASE CheckTarget
  BY <1>16, <1>0 DEF CheckTarget, Goto
<1>17. CASE CaptureSample
  BY <1>17, <1>0 DEF CaptureSample, TakeShot, CurrentShot
<1>18. CASE SampleValid
  BY <1>18, <1>0 DEF SampleValid, Goto
<1>19. CASE JudgeLate
  BY <1>19, <1>0 DEF JudgeLate, Finish
<1>20. CASE JudgeChanged
  BY <1>20, <1>0 DEF JudgeChanged, NewPeriod
<1>21. CASE JudgeStable
  BY <1>21, <1>0 DEF JudgeStable, StableFor
<1>22. CASE Settle
  BY <1>22, <1>0 DEF Settle, Finish
<1>23. CASE UNCHANGED settleVars
  BY <1>23 DEF settleVars
<1> QED
  BY <1>1, <1>2, <1>3, <1>4, <1>5, <1>6, <1>7, <1>8, <1>9, <1>10, <1>11, <1>12, <1>13,
     <1>14, <1>15, <1>16, <1>17, <1>18, <1>19, <1>20, <1>21, <1>22, <1>23
  DEF Next, Environment, SettleStep

\* After a cancellation at most the capture under way is completed.
THEOREM CancelBounded == Spec => []CancelStopsSampling
<1>1. Init => Types /\ CancelInv
  BY InitTyped DEF Init, EnvInit, WaitInit, CancelInv
<1>2. (Types /\ CancelInv) /\ [Next]_settleVars => (Types /\ CancelInv)'
  BY TypesStep, CancelStep
<1>3. Types /\ CancelInv => CancelStopsSampling
  BY DEF CancelInv, CancelStopsSampling
<1> QED
  BY <1>1, <1>2, <1>3, PTL DEF Spec

-----------------------------------------------------------------------------
(* All of it, for the tools that wait *)

\* Every step of the wait or around it keeps all that is known of it.
LEMMA SettleInvStep == SettleInv /\ [Next]_settleVars => SettleInv'
BY TypesStep, TargetStep, AnchorStep, SuccessStep, LateStep, CancelStep
DEF SettleInv, StillInv
=============================================================================
