---------------------------- MODULE FrameSettle ----------------------------
(***************************************************************************)
(* Waiting until a captured window stops changing (csrc/frame_settle.c):   *)
(* frames are sampled under one absolute deadline and compared with the    *)
(* anchor of the current stable period; the window's identity and geometry *)
(* are validated around every sample.                                      *)
(*                                                                         *)
(* The application, the window manager, the clock and the host (which may  *)
(* cancel) act between any two steps.                                      *)
(***************************************************************************)
EXTENDS Naturals, FiniteSets

CONSTANTS
  Frames,      \* what a window can show
  Near,        \* pairs of frames no channel of which differs beyond "tolerance"
  Timeout,     \* timeoutMs
  StableMs, IntervalMs,
  MaxTime      \* bound: the clock

ASSUME TimesAssumption ==
  /\ {Timeout, StableMs, IntervalMs} \subseteq Nat \ {0}
  /\ MaxTime \in Nat

\* frame_state_compare with a tolerance: reflexive and symmetric, not transitive.
ASSUME NearAssumption ==
  /\ Near \subseteq Frames \X Frames
  /\ \A f \in Frames : <<f, f>> \in Near
  /\ \A f, g \in Frames : <<f, g>> \in Near => <<g, f>> \in Near

VARIABLES
  now,          \* CLOCK_MONOTONIC
  frame,        \* what the window with the captured id shows
  target,       \* how that window compares with the retained capture
  cancelled,    \* the host cancelled the call or is gone
  pc, deadline, anchor, sample, stableSince, nextSample, status,
  period,       \* history: the shots judged since the anchor, which is one
  late          \* history: shots taken since the cancellation

envVars  == <<now, frame, target, cancelled>>
waitVars == <<deadline, anchor, sample, stableSince, nextSample, status, period>>
settleVars == <<envVars, pc, waitVars, late>>

Target == {"valid", "moved", "resized", "replaced"}
Status == {"none", "target_invalid", "capture_failed", "cancelled", "timeout", "settled"}

\* A captured frame, with the window it came from and the time.
Shot == [frame : Frames, target : Target, at : 0..MaxTime]
CurrentShot == [frame |-> frame, target |-> target, at |-> now]

\* The sample, with the reading of the clock by which it is judged.
JudgedShot == [frame : Frames, target : Target, at : 0..MaxTime, judged : 0..MaxTime]
JudgedSample ==
  [frame |-> sample.frame, target |-> sample.target, at |-> sample.at, judged |-> now]

-----------------------------------------------------------------------------
\* The retained capture is as old as the clock; the wait has not begun.
EnvInit ==
  /\ now = 0
  /\ frame \in Frames
  /\ target = "valid"
  /\ cancelled = FALSE

WaitInit ==
  /\ anchor = CurrentShot /\ sample = CurrentShot
  /\ stableSince = 0 /\ nextSample = 0
  /\ status = "none"
  /\ period = {} /\ late = 0

Init ==
  /\ EnvInit /\ WaitInit
  /\ pc = "begin"
  /\ deadline = Timeout

Goto(p) == pc' = p /\ UNCHANGED waitVars

Finish(s) ==
  /\ status' = s
  /\ pc' = "done"
  /\ UNCHANGED <<deadline, anchor, sample, stableSince, nextSample, period>>

-----------------------------------------------------------------------------
(* Environment *)

Tick ==
  /\ now < MaxTime
  /\ now' = now + 1
  /\ UNCHANGED <<frame, target, cancelled, pc, waitVars, late>>

FrameChanges ==
  /\ frame' \in Frames \ {frame}
  /\ UNCHANGED <<now, target, cancelled, pc, waitVars, late>>

\* A window can return to its place; another one never becomes the first again.
TargetChanges ==
  /\ target # "replaced"
  /\ target' \in Target \ {target}
  /\ UNCHANGED <<now, frame, cancelled, pc, waitVars, late>>

Cancel ==
  /\ ~cancelled
  /\ cancelled' = TRUE
  /\ UNCHANGED <<now, frame, target, pc, waitVars, late>>

-----------------------------------------------------------------------------
(* validate_base and capture_frame *)

StillValid == target = "valid"

\* The checks before the first capture, after it, at the deadline, around
\* every sample and before success.
TargetInvalid ==
  /\ pc \in {"begin", "anchored", "late", "check", "sampled", "verdict"}
  /\ ~StillValid
  /\ Finish("target_invalid")
  /\ UNCHANGED <<envVars, late>>

CaptureFails ==
  /\ pc \in {"anchor", "sample"}
  /\ Finish("capture_failed")
  /\ UNCHANGED <<envVars, late>>

\* A frame of other dimensions is refused.
TakeShot(next) ==
  /\ target # "resized"
  /\ sample' = CurrentShot
  /\ late' = IF cancelled THEN late + 1 ELSE late
  /\ pc' = next
  /\ UNCHANGED <<envVars, deadline, anchor, stableSince, nextSample, status, period>>

\* The sample becomes the anchor of a new stable period.
NewPeriod ==
  /\ anchor' = sample
  /\ period' = {JudgedSample}
  /\ stableSince' = now
  /\ nextSample' = now + IntervalMs
  /\ pc' = "poll"
  /\ UNCHANGED <<deadline, sample, status>>

-----------------------------------------------------------------------------
(* frame_settle_wait *)

BeginExpired ==
  /\ pc = "begin"
  /\ now >= deadline
  /\ Finish("target_invalid")
  /\ UNCHANGED <<envVars, late>>

Begin ==
  /\ pc = "begin"
  /\ now < deadline
  /\ StillValid
  /\ Goto("anchor")
  /\ UNCHANGED <<envVars, late>>

CaptureAnchor ==
  /\ pc = "anchor"
  /\ TakeShot("anchored")

KeepAnchor ==
  /\ pc = "anchored"
  /\ StillValid
  /\ NewPeriod
  /\ UNCHANGED <<envVars, late>>

\* wait_until: the cancellation is looked at before the clock, every time.
PollCancelled ==
  /\ pc = "poll"
  /\ cancelled
  /\ Finish("cancelled")
  /\ UNCHANGED <<envVars, late>>

\* Fault: the cancellation is only looked at before the first sample.
PollOnce ==
  /\ pc = "poll"
  /\ ~cancelled \/ Cardinality(period) > 1
  /\ Goto("look")
  /\ UNCHANGED <<envVars, late>>

Poll ==
  /\ pc = "poll"
  /\ ~cancelled
  /\ Goto("look")
  /\ UNCHANGED <<envVars, late>>

Look ==
  /\ pc = "look"
  /\ Goto(IF now >= nextSample \/ now >= deadline THEN "due" ELSE "poll")
  /\ UNCHANGED <<envVars, late>>

Due ==
  /\ pc = "due"
  /\ Goto(IF now >= deadline THEN "late" ELSE "check")
  /\ UNCHANGED <<envVars, late>>

TimesOut ==
  /\ pc = "late"
  /\ StillValid
  /\ Finish("timeout")
  /\ UNCHANGED <<envVars, late>>

CheckTarget ==
  /\ pc = "check"
  /\ StillValid
  /\ Goto("sample")
  /\ UNCHANGED <<envVars, late>>

CaptureSample ==
  /\ pc = "sample"
  /\ TakeShot("sampled")

\* Fault: the target is not validated after the capture.
SampleUnvalidated ==
  /\ pc = "sampled"
  /\ Goto("judge")
  /\ UNCHANGED <<envVars, late>>

SampleValid ==
  /\ pc = "sampled"
  /\ StillValid
  /\ Goto("judge")
  /\ UNCHANGED <<envVars, late>>

\* The clock is read once more, the sample is dropped when it came too late.
JudgeLate ==
  /\ pc = "judge"
  /\ now >= deadline
  /\ Finish("timeout")
  /\ UNCHANGED <<envVars, late>>

\* Fault: every change buys more time.
JudgeChangedExtending ==
  /\ pc = "judge"
  /\ now < deadline
  /\ <<anchor.frame, sample.frame>> \notin Near
  /\ anchor' = sample /\ period' = {JudgedSample}
  /\ stableSince' = now /\ nextSample' = now + IntervalMs
  /\ deadline' = now + Timeout
  /\ pc' = "poll"
  /\ UNCHANGED <<envVars, late, sample, status>>

JudgeChanged ==
  /\ pc = "judge"
  /\ now < deadline
  /\ <<anchor.frame, sample.frame>> \notin Near
  /\ NewPeriod
  /\ UNCHANGED <<envVars, late>>

StableFor == now - stableSince

\* Fault: each sample is compared with the one before it.
JudgeStableDrifting ==
  /\ pc = "judge"
  /\ now < deadline
  /\ <<anchor.frame, sample.frame>> \in Near
  /\ anchor' = sample
  /\ period' = period \cup {JudgedSample}
  /\ IF StableFor >= StableMs
     THEN pc' = "verdict" /\ UNCHANGED nextSample
     ELSE pc' = "poll" /\ nextSample' = now + IntervalMs
  /\ UNCHANGED <<envVars, late, deadline, sample, stableSince, status>>

\* Fault: the deadline is not looked at after a capture.
JudgeStableLate ==
  /\ pc = "judge"
  /\ <<anchor.frame, sample.frame>> \in Near
  /\ period' = period \cup {JudgedSample}
  /\ IF StableFor >= StableMs
     THEN pc' = "verdict" /\ UNCHANGED nextSample
     ELSE pc' = "poll" /\ nextSample' = now + IntervalMs
  /\ UNCHANGED <<envVars, late, deadline, anchor, sample, stableSince, status>>

JudgeStable ==
  /\ pc = "judge"
  /\ now < deadline
  /\ <<anchor.frame, sample.frame>> \in Near
  /\ period' = period \cup {JudgedSample}
  /\ IF StableFor >= StableMs
     THEN pc' = "verdict" /\ UNCHANGED nextSample
     ELSE pc' = "poll" /\ nextSample' = now + IntervalMs
  /\ UNCHANGED <<envVars, late, deadline, anchor, sample, stableSince, status>>

Settle ==
  /\ pc = "verdict"
  /\ StillValid
  /\ Finish("settled")
  /\ UNCHANGED <<envVars, late>>

-----------------------------------------------------------------------------
Environment == Tick \/ FrameChanges \/ TargetChanges \/ Cancel

SettleStep ==
  \/ TargetInvalid \/ CaptureFails
  \/ BeginExpired \/ Begin \/ CaptureAnchor \/ KeepAnchor
  \/ PollCancelled \/ Poll \/ Look \/ Due \/ TimesOut
  \/ CheckTarget \/ CaptureSample \/ SampleValid
  \/ JudgeLate \/ JudgeChanged \/ JudgeStable \/ Settle

Next == Environment \/ SettleStep

Spec == Init /\ [][Next]_settleVars

\* The thread runs and the clock runs.
FairSpec == Spec /\ WF_settleVars(SettleStep) /\ WF_settleVars(Tick)

-----------------------------------------------------------------------------
(* Properties *)

Phase == {"begin", "anchor", "anchored", "poll", "look", "due", "late", "check",
          "sample", "sampled", "judge", "verdict", "done"}

\* Ranges; there is a verdict exactly at the end.
TypeOK ==
  /\ now \in 0..MaxTime /\ frame \in Frames /\ target \in Target
  /\ cancelled \in BOOLEAN
  /\ pc \in Phase
  /\ deadline \in Nat /\ stableSince \in Nat /\ nextSample \in Nat
  /\ anchor \in Shot /\ sample \in Shot
  /\ status \in Status
  /\ (status = "none") = (pc # "done")
  /\ period \subseteq JudgedShot
  /\ late \in Nat

\* A settled window was still: from the judgement of its anchor to that of its last
\* sample the period lasted StableMs by the clock, and every frame judged in it stays
\* within tolerance of the anchor, however slowly they drift.
SettledWasStill ==
  status = "settled" =>
    \E first, last \in period :
      /\ first.judged + StableMs <= last.judged
      /\ \A s \in period :
           /\ first.at <= s.at
           /\ first.judged <= s.judged /\ s.judged <= last.judged
           /\ <<first.frame, s.frame>> \in Near

\* No frame of another window, or of one that took its place while the frame was
\* captured, ever enters the comparison.
FramesOfTarget ==
  \A s \in period : s.target \notin {"replaced", "resized"}

\* A settled verdict rests on samples judged before the deadline only: one that was
\* captured in time and judged late does not count.  (The last validation may still
\* be under way at the deadline.)  A timeout is never reported early.
VerdictInTime ==
  /\ status = "settled" => \A s \in period : s.judged < deadline
  /\ status = "timeout" => now >= deadline

\* After a cancellation at most the capture under way is completed.
CancelStopsSampling == late <= 1

\* The wait ends whatever the application, the window manager and the host do.
Returns == []<>(pc = "done")
=============================================================================
