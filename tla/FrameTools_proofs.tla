-------------------------- MODULE FrameTools_proofs --------------------------
(***************************************************************************)
(* What the verifying frame tools report, for any projection, region,      *)
(* thresholds, ages and timeouts.                                          *)
(***************************************************************************)
EXTENDS FrameTools, FrameSettle_proofs, FiniteSetTheorems

\* Before the wait, and in a report of a call that did not get there, it is ready.
WaitPhase ==
  /\ step \notin {"settling", "reported"} => pc = "ready"
  /\ step = "reported" => pc \in {"ready", "done"}

\* Steps that only a click reaches, in order.
UpToPress == {"validate", "preflight", "compare", "revalidate", "move", "press"}

\* A click is sent in its place, to a window that was not replaced or still is.
ClickInv ==
  /\ clicks # {} => step \in {"lookup_again", "settle", "settling", "reported"} /\ pointer
  /\ step = "press" => pointer
  /\ step \in UpToPress \cup {"lookup_again"} => tool = "click"
  /\ step = "lookup_again" => clicks # {}
  /\ tool = "click" /\ step \in {"settle", "settling"} => clicks # {}
  /\ "replaced" \in clicks => target = "replaced"
  /\ status = "settled" => "replaced" \notin clicks

\* The frame before the click is compared, then its window is validated again.
BeforeInv ==
  /\ step \in {"revalidate", "move", "press"} \/ clicks # {} =>
       FreshEnough(before.frame) /\ before.target # "resized"
  /\ step \in {"compare", "revalidate"} /\ before.target = "replaced" =>
       target = "replaced"
  /\ step \in {"move", "press"} \/ clicks # {} => before.target # "replaced"

\* What a report says of the verdict and of the click.
ReportInv ==
  /\ DeliveryReported
  /\ result.status = "verified" =>
       /\ step = "reported" /\ status = "settled"
       /\ Postcondition(base, anchor.frame)
       /\ tool = "click" => clicks # {}

ToolInv == ToolTypeOK /\ WaitPhase /\ ClickInv /\ BeforeInv /\ ReportInv

-----------------------------------------------------------------------------
(* The wait *)

\* A tool begins with a wait that is ready.
LEMMA InitReady == ToolInit => SettleInv
<1> SUFFICES ASSUME ToolInit PROVE SettleInv
  OBVIOUS
<1>1. CurrentShot \in Shot /\ CurrentShot.at = 0 /\ now = 0
  BY TimesAssumption DEF ToolInit, EnvInit, CurrentShot, Shot, Target
<1>2. Types
  <2>1. /\ now \in 0..MaxTime
        /\ frame \in Frames /\ target \in Target /\ cancelled \in BOOLEAN
    <3>1. now \in 0..MaxTime
      BY <1>1, TimesAssumption
    <3>2. cancelled \in BOOLEAN
      BY DEF ToolInit, EnvInit
    <3> QED
      BY <3>1, <3>2 DEF ToolInit, EnvInit, Target
  <2>2. /\ deadline \in Nat /\ stableSince \in Nat /\ nextSample \in Nat /\ late \in Nat
        /\ status = "none" /\ pc = "ready"
    BY DEF ToolInit, WaitInit
  <2>3. anchor \in Shot /\ sample \in Shot /\ period \subseteq JudgedShot
    BY <1>1 DEF ToolInit, WaitInit
  <2> QED
    BY <2>1, <2>2, <2>3 DEF Types, Status, Phase
<1>3. TargetInv /\ LateInv /\ CancelInv
  BY <1>1 DEF ToolInit, EnvInit, WaitInit, TargetInv, FramesOfTarget, LateInv, CancelInv
<1>4. StillInv
  BY <1>1 DEF ToolInit, WaitInit, StillInv, AnchorFirst, SuccessInv, Successful,
     Comparing
<1> QED
  BY <1>2, <1>3, <1>4 DEF SettleInv

\* The deadline of a wait is set before it does anything.
LEMMA BeginSettleKeeps ==
  ASSUME SettleInv, WaitPhase, BeginSettle
  PROVE  SettleInv'
<1>1. /\ pc = "ready" /\ pc' = "begin" /\ deadline' = now + Timeout
      /\ UNCHANGED <<envVars, anchor, sample, stableSince, nextSample, status, period, late>>
  BY DEF WaitPhase, BeginSettle
<1>2. Types'
  BY <1>1, TimesAssumption DEF SettleInv, Types, Phase, envVars
<1>3. TargetInv' /\ LateInv' /\ CancelInv'
  BY <1>1 DEF SettleInv, Types, Phase, TargetInv, FramesOfTarget, LateInv, CancelInv, envVars
<1>4. AnchorFirst' /\ SuccessInv'
  BY <1>1 DEF SettleInv, Types, Phase, StillInv, AnchorFirst, SuccessInv,
     Successful, Comparing, envVars
<1> QED
  BY <1>2, <1>3, <1>4 DEF SettleInv, StillInv

\* Apart from that, whatever a tool does leaves the wait alone or is a step of it.
LEMMA WaitStep ==
  ASSUME SettleInv, WaitPhase, [ToolNext]_vars
  PROVE  SettleInv'
<1>1. CASE BeginSettle
  BY <1>1, BeginSettleKeeps
<1>2. CASE SettleStep \/ Environment
  BY <1>2, SettleInvStep DEF Next
<1>3. CASE UNCHANGED settleVars
  BY <1>3, SettleInvStep
<1>4. CASE ToolStep /\ ~BeginSettle
  <2>1. UNCHANGED settleVars
    BY <1>4 DEF ToolStep, BeforeClick, ClickAndVerify, LookupFails, Lookup, TargetRefused,
       Validate, PreflightFails, Preflight, ComparisonRefused, Compare, Revalidate,
       MoveFails, MovePointer, ClickFails, Click, VerificationError, LookupAgain,
       ReportVerdict, At, settleVars, waitVars
  <2> QED
    BY <2>1, <1>3
<1> QED
  BY <1>1, <1>2, <1>3, <1>4 DEF ToolNext, vars

\* A wait that is ready or done takes no step; its verdict comes at its end.
LEMMA WaitActs ==
  ASSUME SettleInv, SettleStep
  PROVE  /\ pc \notin {"ready", "done"} /\ pc' # "ready"
         /\ UNCHANGED envVars
         /\ status' = status \/ status = "none"
         /\ status' = "settled" => StillValid
         /\ status = "none" /\ status' = "settled" => anchor' = anchor
BY DEF SettleInv, Types, Phase, SettleStep, TargetInvalid, CaptureFails, BeginExpired, Begin,
   CaptureAnchor, KeepAnchor, PollCancelled, Poll, Look, Due, TimesOut, CheckTarget,
   CaptureSample, SampleValid, JudgeLate, JudgeChanged, JudgeStable, Settle, Finish, Goto,
   TakeShot, NewPeriod, waitVars, envVars

\* The environment touches neither the wait nor the tool, and a replaced window stays so.
LEMMA EnvironmentActs ==
  ASSUME Environment
  PROVE  /\ UNCHANGED <<pc, waitVars, late>>
         /\ target = "replaced" => target' = "replaced"
BY DEF Environment, Tick, FrameChanges, TargetChanges, Cancel, envVars

-----------------------------------------------------------------------------
(* Ranges and phases *)

\* A tool begins typed, with nothing reported and nothing sent.
LEMMA InitTool == ToolInit => ToolInv
<1> SUFFICES ASSUME ToolInit PROVE ToolInv
  OBVIOUS
<1>1. Cardinality(clicks) = 0
  BY FS_EmptySet DEF ToolInit
<1>2. before \in [frame : Frames, target : Target]
  BY DEF ToolInit, EnvInit, Seen, Target
<1>3. ToolTypeOK
  <2>1. /\ tool \in {"verify", "click"} /\ step = "lookup" /\ pointer = FALSE /\ clicks = {}
        /\ result.status = "none" /\ pc = "ready"
    BY DEF ToolInit, NoResult
  <2>2. Cardinality(clicks) <= 1
    BY <1>1
  <2>3. (result.status = "none") = (step # "reported")
    BY <2>1
  <2>4. pointer \in BOOLEAN
    BY <2>1
  <2> QED
    BY <1>2, <2>1, <2>2, <2>3, <2>4 DEF ToolTypeOK, Step, Outcome
<1>4. WaitPhase /\ ClickInv /\ BeforeInv
  BY DEF ToolInit, WaitInit, WaitPhase, ClickInv, BeforeInv, UpToPress
<1>5. ReportInv
  BY DEF ToolInit, ReportInv, DeliveryReported, NoResult
<1> QED
  BY <1>3, <1>4, <1>5 DEF ToolInv

\* The wait runs while the tool settles only.
LEMMA PhaseStep ==
  ASSUME SettleInv, WaitPhase, [ToolNext]_vars
  PROVE  WaitPhase'
<1> USE DEF WaitPhase, envVars, waitVars, toolVars
<1>1. CASE LookupFails
  BY <1>1 DEF LookupFails, At, Refuse, Report
<1>2. CASE Lookup
  BY <1>2 DEF Lookup, At, Advance
<1>3. CASE TargetRefused
  BY <1>3 DEF TargetRefused, At, Refuse, Report
<1>4. CASE Validate
  BY <1>4 DEF Validate, At, Advance
<1>5. CASE PreflightFails
  BY <1>5 DEF PreflightFails, At, Refuse, Report
<1>6. CASE Preflight
  BY <1>6 DEF Preflight, At, Seen
<1>7. CASE ComparisonRefused
  BY <1>7 DEF ComparisonRefused, At, Refuse, Report
<1>8. CASE Compare
  BY <1>8 DEF Compare, At, Advance
<1>9. CASE Revalidate
  BY <1>9 DEF Revalidate, At, Advance, StillValid
<1>10. CASE MoveFails
  BY <1>10 DEF MoveFails, At, Report
<1>11. CASE MovePointer
  BY <1>11 DEF MovePointer, At
<1>12. CASE ClickFails
  BY <1>12 DEF ClickFails, At, Report
<1>13. CASE Click
  BY <1>13 DEF Click, At
<1>14. CASE VerificationError
  BY <1>14 DEF VerificationError, At, Report
<1>15. CASE LookupAgain
  BY <1>15 DEF LookupAgain, At, Advance
<1>16. CASE BeginSettle
  BY <1>16 DEF BeginSettle
<1>17. CASE ReportVerdict
  BY <1>17 DEF ReportVerdict, At, Report
<1>18. CASE SettleStep /\ UNCHANGED toolVars
  BY <1>18, WaitActs
<1>19. CASE step # "reported" /\ Environment /\ UNCHANGED toolVars
  BY <1>19, EnvironmentActs
<1>20. CASE UNCHANGED vars
  BY <1>20 DEF vars, settleVars, toolVars
<1> QED
  BY <1>1, <1>2, <1>3, <1>4, <1>5, <1>6, <1>7, <1>8, <1>9, <1>10, <1>11, <1>12, <1>13,
     <1>14, <1>15, <1>16, <1>17, <1>18, <1>19, <1>20 DEF ToolNext, ToolStep,
     BeforeClick, ClickAndVerify

\* The one click is sent after all checks and before the wait.
LEMMA ClickStep ==
  ASSUME SettleInv, WaitPhase, ToolTypeOK, ClickInv, [ToolNext]_vars
  PROVE  ClickInv'
<1> USE DEF WaitPhase, ClickInv, UpToPress, envVars, waitVars, toolVars
<1>0. status = "settled" => step \in {"settling", "reported"}
  BY DEF SettleInv, Types
<1>a. tool = "click" \/ tool = "verify"
  BY DEF ToolTypeOK
<1>1. CASE LookupFails
  BY <1>1, <1>0 DEF LookupFails, At, Refuse, Report
<1>2. CASE Lookup
  BY <1>2, <1>0, <1>a DEF Lookup, At, Advance
<1>3. CASE TargetRefused
  BY <1>3, <1>0 DEF TargetRefused, At, Refuse, Report
<1>4. CASE Validate
  BY <1>4, <1>0 DEF Validate, At, Advance
<1>5. CASE PreflightFails
  BY <1>5, <1>0 DEF PreflightFails, At, Refuse, Report
<1>6. CASE Preflight
  BY <1>6, <1>0 DEF Preflight, At, Seen
<1>7. CASE ComparisonRefused
  BY <1>7, <1>0 DEF ComparisonRefused, At, Refuse, Report
<1>8. CASE Compare
  BY <1>8, <1>0 DEF Compare, At, Advance
<1>9. CASE Revalidate
  BY <1>9, <1>0 DEF Revalidate, At, Advance, StillValid
<1>10. CASE MoveFails
  BY <1>10, <1>0 DEF MoveFails, At, Report
<1>11. CASE MovePointer
  BY <1>11, <1>0 DEF MovePointer, At
<1>12. CASE ClickFails
  BY <1>12, <1>0 DEF ClickFails, At, Report
<1>13. CASE Click
  BY <1>13, <1>0 DEF Click, At
<1>14. CASE VerificationError
  BY <1>14, <1>0 DEF VerificationError, At, Report
<1>15. CASE LookupAgain
  BY <1>15, <1>0 DEF LookupAgain, At, Advance
<1>16. CASE BeginSettle
  BY <1>16, <1>0 DEF BeginSettle
<1>17. CASE ReportVerdict
  BY <1>17, <1>0 DEF ReportVerdict, At, Report
<1>18. CASE SettleStep /\ UNCHANGED toolVars
  BY <1>18, WaitActs DEF StillValid
<1>19. CASE step # "reported" /\ Environment /\ UNCHANGED toolVars
  BY <1>19, EnvironmentActs
<1>20. CASE UNCHANGED vars
  BY <1>20 DEF vars, settleVars, toolVars
<1> QED
  BY <1>1, <1>2, <1>3, <1>4, <1>5, <1>6, <1>7, <1>8, <1>9, <1>10, <1>11, <1>12, <1>13,
     <1>14, <1>15, <1>16, <1>17, <1>18, <1>19, <1>20 DEF ToolNext, ToolStep,
     BeforeClick, ClickAndVerify

\* A frame is compared after it was taken, and its window validated behind it.
LEMMA BeforeStep ==
  ASSUME SettleInv, WaitPhase, ClickInv, BeforeInv, [ToolNext]_vars
  PROVE  BeforeInv'
<1> USE DEF BeforeInv, ClickInv, UpToPress, FreshEnough, envVars, waitVars, toolVars
<1>1. CASE LookupFails
  BY <1>1 DEF LookupFails, At, Refuse, Report
<1>2. CASE Lookup
  BY <1>2 DEF Lookup, At, Advance
<1>3. CASE TargetRefused
  BY <1>3 DEF TargetRefused, At, Refuse, Report
<1>4. CASE Validate
  BY <1>4 DEF Validate, At, Advance
<1>5. CASE PreflightFails
  BY <1>5 DEF PreflightFails, At, Refuse, Report
<1>6. CASE Preflight
  BY <1>6 DEF Preflight, At, Seen
<1>7. CASE ComparisonRefused
  BY <1>7 DEF ComparisonRefused, At, Refuse, Report
<1>8. CASE Compare
  BY <1>8 DEF Compare, At, Advance
<1>9. CASE Revalidate
  BY <1>9 DEF Revalidate, At, Advance, StillValid
<1>10. CASE MoveFails
  BY <1>10 DEF MoveFails, At, Report
<1>11. CASE MovePointer
  BY <1>11 DEF MovePointer, At
<1>12. CASE ClickFails
  BY <1>12 DEF ClickFails, At, Report
<1>13. CASE Click
  BY <1>13 DEF Click, At
<1>14. CASE VerificationError
  BY <1>14 DEF VerificationError, At, Report
<1>15. CASE LookupAgain
  BY <1>15 DEF LookupAgain, At, Advance
<1>16. CASE BeginSettle
  BY <1>16 DEF BeginSettle
<1>17. CASE ReportVerdict
  BY <1>17 DEF ReportVerdict, At, Report
<1>18. CASE SettleStep /\ UNCHANGED toolVars
  BY <1>18, WaitActs
<1>19. CASE step # "reported" /\ Environment /\ UNCHANGED toolVars
  BY <1>19, EnvironmentActs
<1>20. CASE UNCHANGED vars
  BY <1>20 DEF vars, settleVars, toolVars
<1> QED
  BY <1>1, <1>2, <1>3, <1>4, <1>5, <1>6, <1>7, <1>8, <1>9, <1>10, <1>11, <1>12, <1>13,
     <1>14, <1>15, <1>16, <1>17, <1>18, <1>19, <1>20 DEF ToolNext, ToolStep,
     BeforeClick, ClickAndVerify

\* The report tells what happened, and is the last step.
LEMMA ReportStep ==
  ASSUME SettleInv, WaitPhase, ToolTypeOK, ClickInv, ReportInv, [ToolNext]_vars
  PROVE  ReportInv'
<1> USE DEF ReportInv, DeliveryReported, Delivered, ClickInv, UpToPress, envVars, waitVars, toolVars
<1>0. (result.status = "none") = (step # "reported")
  BY DEF ToolTypeOK
<1>1. CASE LookupFails
  BY <1>1, <1>0 DEF LookupFails, At, Refuse, Report
<1>2. CASE Lookup
  BY <1>2, <1>0 DEF Lookup, At, Advance
<1>3. CASE TargetRefused
  BY <1>3, <1>0 DEF TargetRefused, At, Refuse, Report
<1>4. CASE Validate
  BY <1>4, <1>0 DEF Validate, At, Advance
<1>5. CASE PreflightFails
  BY <1>5, <1>0 DEF PreflightFails, At, Refuse, Report
<1>6. CASE Preflight
  BY <1>6, <1>0 DEF Preflight, At, Seen
<1>7. CASE ComparisonRefused
  BY <1>7, <1>0 DEF ComparisonRefused, At, Refuse, Report
<1>8. CASE Compare
  BY <1>8, <1>0 DEF Compare, At, Advance
<1>9. CASE Revalidate
  BY <1>9, <1>0 DEF Revalidate, At, Advance, StillValid
<1>10. CASE MoveFails
  BY <1>10, <1>0 DEF MoveFails, At, Report
<1>11. CASE MovePointer
  BY <1>11, <1>0 DEF MovePointer, At
<1>12. CASE ClickFails
  BY <1>12, <1>0 DEF ClickFails, At, Report
<1>13. CASE Click
  BY <1>13, <1>0 DEF Click, At
<1>14. CASE VerificationError
  BY <1>14, <1>0 DEF VerificationError, At, Report
<1>15. CASE LookupAgain
  BY <1>15, <1>0 DEF LookupAgain, At, Advance
<1>16. CASE BeginSettle
  BY <1>16, <1>0 DEF BeginSettle
<1>17. CASE ReportVerdict
  <2>1. Verdict = "verified" => status = "settled" /\ Postcondition(base, anchor.frame)
    BY DEF Verdict
  <2>2. /\ step = "settling" /\ step' = "reported" /\ anchor' = anchor /\ status' = status
        /\ tool' = tool /\ clicks' = clicks /\ pointer' = pointer
        /\ result' = [status |-> Verdict, inputDelivered |-> clicks # {},
                      pointerMoved |-> clicks # {}]
    BY <1>17 DEF ReportVerdict, At, Report
  <2> QED
    BY <1>0, <2>1, <2>2
<1>18. CASE SettleStep /\ UNCHANGED toolVars
  BY <1>18, <1>0, WaitActs DEF WaitPhase
<1>19. CASE step # "reported" /\ Environment /\ UNCHANGED toolVars
  BY <1>19, <1>0, EnvironmentActs
<1>20. CASE UNCHANGED vars
  BY <1>20 DEF vars, settleVars, toolVars
<1> QED
  BY <1>1, <1>2, <1>3, <1>4, <1>5, <1>6, <1>7, <1>8, <1>9, <1>10, <1>11, <1>12, <1>13,
     <1>14, <1>15, <1>16, <1>17, <1>18, <1>19, <1>20 DEF ToolNext, ToolStep,
     BeforeClick, ClickAndVerify

\* Every step keeps the ranges; at most one click is sent.
LEMMA TypeStep ==
  ASSUME SettleInv, WaitPhase, ToolTypeOK, ClickInv, [ToolNext]_vars
  PROVE  ToolTypeOK'
<1> USE DEF ToolTypeOK, Step, Outcome, envVars, waitVars, toolVars
<1>1. CASE LookupFails
  BY <1>1 DEF LookupFails, At, Refuse, Report
<1>2. CASE Lookup
  BY <1>2 DEF Lookup, At, Advance
<1>3. CASE TargetRefused
  BY <1>3 DEF TargetRefused, At, Refuse, Report
<1>4. CASE Validate
  BY <1>4 DEF Validate, At, Advance
<1>5. CASE PreflightFails
  BY <1>5 DEF PreflightFails, At, Refuse, Report
<1>6. CASE Preflight
  <2>1. Seen \in [frame : Frames, target : Target]
    BY DEF SettleInv, Types, Seen
  <2> QED
    BY <2>1, <1>6 DEF Preflight, At
<1>7. CASE ComparisonRefused
  BY <1>7 DEF ComparisonRefused, At, Refuse, Report
<1>8. CASE Compare
  BY <1>8 DEF Compare, At, Advance
<1>9. CASE Revalidate
  BY <1>9 DEF Revalidate, At, Advance, StillValid
<1>10. CASE MoveFails
  BY <1>10 DEF MoveFails, At, Report
<1>11. CASE MovePointer
  BY <1>11 DEF MovePointer, At
<1>12. CASE ClickFails
  BY <1>12 DEF ClickFails, At, Report
<1>13. CASE Click
  <2>1. clicks = {} /\ tool = "click"
    BY <1>13 DEF Click, At, ClickInv, UpToPress
  <2>2. clicks' = {target} /\ target \in Target
    BY <2>1, <1>13 DEF Click, SettleInv, Types
  <2>3. Cardinality(clicks') <= 1
    BY <2>2, FS_Singleton
  <2> QED
    BY <2>1, <2>2, <2>3, <1>13 DEF Click, At
<1>14. CASE VerificationError
  BY <1>14 DEF VerificationError, At, Report
<1>15. CASE LookupAgain
  BY <1>15 DEF LookupAgain, At, Advance
<1>16. CASE BeginSettle
  BY <1>16 DEF BeginSettle, Phase
<1>17. CASE ReportVerdict
  <2>1. Verdict \in Outcome \ {"none"}
    BY <1>17 DEF Verdict, ReportVerdict
  <2>2. /\ step' = "reported" /\ result'.status = Verdict
        /\ UNCHANGED <<before, pointer, clicks, tool, pc>>
    BY <1>17 DEF ReportVerdict, At, Report
  <2> QED
    BY <2>1, <2>2
<1>18. CASE SettleStep /\ UNCHANGED toolVars
  <2>1. pc' \in Phase \cup {"ready"}
    BY <1>18, WaitStep DEF ToolNext, SettleInv, Types
  <2> QED
    BY <1>18, <2>1, WaitActs
<1>19. CASE step # "reported" /\ Environment /\ UNCHANGED toolVars
  BY <1>19, EnvironmentActs
<1>20. CASE UNCHANGED vars
  BY <1>20 DEF vars, settleVars, toolVars
<1> QED
  BY <1>1, <1>2, <1>3, <1>4, <1>5, <1>6, <1>7, <1>8, <1>9, <1>10, <1>11, <1>12, <1>13,
     <1>14, <1>15, <1>16, <1>17, <1>18, <1>19, <1>20 DEF ToolNext, ToolStep,
     BeforeClick, ClickAndVerify

\* Every step of a tool, of its wait and of their environment keeps all of it.
LEMMA ToolStepKeeps ==
  SettleInv /\ ToolInv /\ [ToolNext]_vars => SettleInv' /\ ToolInv'
BY WaitStep, PhaseStep, ClickStep, BeforeStep, ReportStep, TypeStep DEF ToolInv

\* The ranges hold in every reachable state.
THEOREM ToolTyped == ToolSpec => []ToolTypeOK
<1>1. ToolInit => SettleInv /\ ToolInv
  BY InitReady, InitTool
<1>2. (SettleInv /\ ToolInv) /\ [ToolNext]_vars => (SettleInv /\ ToolInv)'
  BY ToolStepKeeps
<1>3. SettleInv /\ ToolInv => ToolTypeOK
  BY DEF ToolInv
<1> QED
  BY <1>1, <1>2, <1>3, PTL DEF ToolSpec

-----------------------------------------------------------------------------
(* What is reported *)

\* What is reported verified is true of a settled frame of the captured window: the region
\* changed enough and the rest not too much; after a click, one was sent, and to it.
THEOREM VerifiedTrue == ToolSpec => []VerifiedIsTrue
<1>1. ToolInit => SettleInv /\ ToolInv
  BY InitReady, InitTool
<1>2. (SettleInv /\ ToolInv) /\ [ToolNext]_vars => (SettleInv /\ ToolInv)'
  BY ToolStepKeeps
<1>3. SettleInv /\ ToolInv => VerifiedIsTrue
  <2> SUFFICES ASSUME SettleInv, ToolInv, result.status = "verified"
               PROVE  VerifiedIsTrue
    BY DEF VerifiedIsTrue
  <2>1. /\ status = "settled" /\ Postcondition(base, anchor.frame)
        /\ tool = "click" => clicks # {}
    BY DEF ToolInv, ReportInv
  <2>2. anchor.target \notin {"replaced", "resized"}
    BY <2>1 DEF SettleInv, StillInv, AnchorFirst, JudgedAnchor, TargetInv, FramesOfTarget
  <2>3. "replaced" \notin clicks
    BY <2>1 DEF ToolInv, ClickInv
  <2> QED
    BY <2>1, <2>2, <2>3 DEF VerifiedIsTrue, Postcondition
<1> QED
  BY <1>1, <1>2, <1>3, PTL DEF ToolSpec

\* No click is sent on account of a stale capture: a frame of the captured window itself,
\* taken in this call, was within the threshold.
THEOREM ClickIsFresh == ToolSpec => []ClickOnFreshTarget
<1>1. ToolInit => SettleInv /\ ToolInv
  BY InitReady, InitTool
<1>2. (SettleInv /\ ToolInv) /\ [ToolNext]_vars => (SettleInv /\ ToolInv)'
  BY ToolStepKeeps
<1>3. SettleInv /\ ToolInv => ClickOnFreshTarget
  BY DEF ToolInv, BeforeInv, ClickOnFreshTarget
<1> QED
  BY <1>1, <1>2, <1>3, PTL DEF ToolSpec

\* Whatever happens after the click, the caller learns that input was delivered, and
\* never when it was not; a pointer reported to have moved has.
THEOREM DeliveryTold == ToolSpec => []DeliveryReported
<1>1. ToolInit => SettleInv /\ ToolInv
  BY InitReady, InitTool
<1>2. (SettleInv /\ ToolInv) /\ [ToolNext]_vars => (SettleInv /\ ToolInv)'
  BY ToolStepKeeps
<1>3. SettleInv /\ ToolInv => DeliveryReported
  BY DEF ToolInv, ReportInv
<1> QED
  BY <1>1, <1>2, <1>3, PTL DEF ToolSpec
=============================================================================
