---------------------------- MODULE FrameTools ----------------------------
(***************************************************************************)
(* verify_frame_change and click_and_verify_frame_change                   *)
(* (csrc/frame_tools.c) on top of FrameSettle.  A frame is the set of lit  *)
(* pixels of the retained projection; two frames are near when equal, so   *)
(* that "changed" is their difference.  Fractions are counted in 1/Unit.   *)
(*                                                                         *)
(* The tool has one base capture, made at time 0 with the window in place. *)
(***************************************************************************)
EXTENDS FrameSettle

CONSTANTS
  Pixels, Region,  \* the projection and the region the caller names
  base,            \* the retained capture's frame: only differences to it count
  Unit,
  MinInside,       \* minChangedFraction
  MaxOutside,      \* maxOutsideChangedFraction
  MaxBefore,       \* maxPreActionChangedFraction
  MaxAge           \* CAPTURE_MAX_AGE_MS

ASSUME FractionsAssumption ==
  /\ IsFiniteSet(Pixels)
  /\ Frames = SUBSET Pixels
  /\ Near = {<<f, f>> : f \in Frames}
  /\ base \in Frames
  /\ Region \subseteq Pixels /\ Region # {}
  /\ {MinInside, MaxOutside, MaxBefore} \subseteq 0..Unit
  /\ MaxBefore < MinInside   \* validate_tool_arguments
  /\ MaxAge \in Nat

VARIABLES
  tool,       \* "verify" or "click"
  step,       \* where the handler is
  before,     \* the frame taken before the click, and its window
  pointer,    \* history: did the pointer move
  clicks,     \* history: the window a click was sent to, if one was
  result      \* what is reported

toolVars == <<tool, step, before, pointer, clicks, result>>
vars == <<settleVars, toolVars>>

Seen == [frame |-> frame, target |-> target]

Outcome == {"none", "refused", "action_failed", "verification_error", "verified",
            "postcondition_failed", "timeout", "cancelled", "error"}

NoResult == [status |-> "none", inputDelivered |-> FALSE, pointerMoved |-> FALSE]

-----------------------------------------------------------------------------
ToolInit ==
  /\ EnvInit /\ WaitInit
  /\ frame = base
  /\ pc = "ready"
  /\ deadline = 0
  /\ tool \in {"verify", "click"}
  /\ step = "lookup"
  /\ before = Seen
  /\ pointer = FALSE /\ clicks = {}
  /\ result = NoResult

At(s) == step = s /\ UNCHANGED <<envVars, pc, waitVars, late, tool>>

Advance(s) == step' = s /\ UNCHANGED <<before, pointer, clicks, result>>

\* Actions up to the click report no effect; after it, they report what it did.
Report(s, delivered, moved) ==
  /\ step' = "reported"
  /\ result' = [status |-> s, inputDelivered |-> delivered, pointerMoved |-> moved]
  /\ UNCHANGED <<before, pointer, clicks>>

Refuse == Report("refused", FALSE, FALSE)

-----------------------------------------------------------------------------
(* Differences: frame_state_compare and frame_state_compare_region *)

Changed(f, g) == (f \ g) \cup (g \ f)

\* Is the changed part of area at least, or at most, n/Unit of it?
AtLeast(changed, area, n) == Cardinality(changed \cap area) * Unit >= n * Cardinality(area)
AtMost(changed, area, n)  == Cardinality(changed \cap area) * Unit <= n * Cardinality(area)

\* Fault: the region is not looked at.
PostconditionAnywhere(f, g) == AtLeast(Changed(f, g), Pixels, MinInside)

Postcondition(f, g) ==
  /\ AtLeast(Changed(f, g), Region, MinInside)
  /\ AtMost(Changed(f, g), Pixels \ Region, MaxOutside)

FreshEnough(f) == AtMost(Changed(base, f), Pixels, MaxBefore)

-----------------------------------------------------------------------------
(* Before the click *)

LookupFails ==
  /\ At("lookup")
  /\ now > MaxAge
  /\ Refuse

Lookup ==
  /\ At("lookup")
  /\ now <= MaxAge
  /\ Advance(IF tool = "click" THEN "validate" ELSE "settle")

\* The window is not the captured one, before or after the frame is compared.
TargetRefused ==
  /\ At(step) /\ step \in {"validate", "revalidate"}
  /\ ~StillValid
  /\ Refuse

Validate ==
  /\ At("validate")
  /\ StillValid
  /\ Advance("preflight")

PreflightFails ==
  /\ At("preflight")
  /\ Refuse

Preflight ==
  /\ At("preflight")
  /\ before' = Seen
  /\ step' = "compare"
  /\ UNCHANGED <<pointer, clicks, result>>

\* Dimensions differ, or too much has changed since the capture.
ComparisonRefused ==
  /\ At("compare")
  /\ before.target = "resized" \/ ~FreshEnough(before.frame)
  /\ Refuse

Compare ==
  /\ At("compare")
  /\ before.target # "resized"
  /\ FreshEnough(before.frame)
  /\ Advance("revalidate")

\* Fault: the target is not validated again.
RevalidateSkipped ==
  /\ At("revalidate")
  /\ Advance("move")

Revalidate ==
  /\ At("revalidate")
  /\ StillValid
  /\ Advance("move")

-----------------------------------------------------------------------------
(* pixel_click_window: whatever window has the id now *)

MoveFails ==
  /\ At("move")
  /\ Report("action_failed", FALSE, FALSE)

MovePointer ==
  /\ At("move")
  /\ step' = "press"
  /\ pointer' = TRUE
  /\ UNCHANGED <<before, clicks, result>>

\* The window is no longer viewable, or the click was not sent.
ClickFails ==
  /\ At("press")
  /\ Report("action_failed", FALSE, FALSE)

Click ==
  /\ At("press")
  /\ step' = "lookup_again"
  /\ clicks' = clicks \cup {target}
  /\ UNCHANGED <<before, pointer, result>>

-----------------------------------------------------------------------------
(* tool_verify_frame_change *)

Delivered == clicks # {}

\* Fault: the error of the verification is returned as it is.
VerificationErrorUnreported ==
  /\ At("lookup_again")
  /\ now > MaxAge
  /\ Refuse

\* The capture expired meanwhile: nothing is verified, but the click is reported.
VerificationError ==
  /\ At("lookup_again")
  /\ now > MaxAge
  /\ Report("verification_error", TRUE, TRUE)

LookupAgain ==
  /\ At("lookup_again")
  /\ now <= MaxAge
  /\ Advance("settle")

BeginSettle ==
  /\ step = "settle"
  /\ step' = "settling"
  /\ pc' = "begin"
  /\ deadline' = now + Timeout
  /\ UNCHANGED <<envVars, anchor, sample, stableSince, nextSample, status, period, late,
                 tool, before, pointer, clicks, result>>

Verdict ==
  CASE status = "settled" /\ Postcondition(base, anchor.frame) -> "verified"
    [] status = "settled" -> "postcondition_failed"
    [] status \in {"timeout", "cancelled"} -> status
    [] OTHER -> "error"

ReportVerdict ==
  /\ At("settling")
  /\ pc = "done"
  /\ Report(Verdict, Delivered, Delivered)

-----------------------------------------------------------------------------
BeforeClick ==
  \/ LookupFails \/ Lookup \/ TargetRefused \/ Validate \/ PreflightFails
  \/ Preflight \/ ComparisonRefused \/ Compare \/ Revalidate

ClickAndVerify ==
  \/ MoveFails \/ MovePointer \/ ClickFails \/ Click
  \/ VerificationError \/ LookupAgain \/ BeginSettle \/ ReportVerdict

ToolStep == BeforeClick \/ ClickAndVerify

\* What happens after the report concerns no one.
ToolNext ==
  \/ ToolStep
  \/ SettleStep /\ UNCHANGED toolVars
  \/ step # "reported" /\ Environment /\ UNCHANGED toolVars

ToolSpec == ToolInit /\ [][ToolNext]_vars

-----------------------------------------------------------------------------
(* Properties *)

Step == {"lookup", "validate", "preflight", "compare", "revalidate", "move", "press",
         "lookup_again", "settle", "settling", "reported"}

\* Ranges; a report has a status and only a click sends one.
ToolTypeOK ==
  /\ tool \in {"verify", "click"} /\ step \in Step
  /\ before \in [frame : Frames, target : Target]
  /\ pointer \in BOOLEAN
  /\ clicks \subseteq Target /\ Cardinality(clicks) <= 1
  /\ tool = "verify" => clicks = {}
  /\ result.status \in Outcome
  /\ (result.status = "none") = (step # "reported")
  /\ pc \in Phase \cup {"ready"}

\* What is reported verified is true of the window that was captured: the region
\* changed enough, the rest not too much, in a settled frame of that very window;
\* after click_and_verify, a click was sent, and to it.
VerifiedIsTrue ==
  result.status = "verified" =>
    /\ AtLeast(Changed(base, anchor.frame), Region, MinInside)
    /\ AtMost(Changed(base, anchor.frame), Pixels \ Region, MaxOutside)
    /\ anchor.target \notin {"replaced", "resized"}
    /\ tool = "click" => clicks # {} /\ "replaced" \notin clicks

\* No click is sent on account of a stale capture: a frame of the captured window
\* itself, taken in this call, was within the threshold.
ClickOnFreshTarget ==
  clicks # {} =>
    /\ FreshEnough(before.frame)
    /\ before.target \notin {"replaced", "resized"}

\* Whatever happens after the click, the caller learns that input was delivered,
\* and never when it was not; a pointer reported to have moved has.
DeliveryReported ==
  step = "reported" =>
    /\ result.inputDelivered = Delivered
    /\ result.pointerMoved => pointer

\* docs/frame-state.md: the threshold for changes before the click "must be lower
\* than the required post-action change", so that what had changed before the click
\* does not make up the change that is attributed to it.
ChangeIsNew ==
  result.status = "verified" /\ tool = "click" => ~Postcondition(base, before.frame)
=============================================================================
