--------------------------- MODULE SemanticChange ---------------------------
(***************************************************************************)
(* Waiting until the accessible content of a captured window changes:      *)
(* the AT-SPI listener (csrc/semantic_events.c) and the loop that observes *)
(* the window again after each event (csrc/semantic_change.c).             *)
(*                                                                         *)
(* Callbacks run on the waiting thread, but only while it dispatches: in   *)
(* an iteration of the main context, inside the synchronous AT-SPI calls   *)
(* of an observation, and in the last drain.  The application, the window  *)
(* manager, the clock and the host act between any two steps.              *)
(***************************************************************************)
EXTENDS Naturals, Sequences, FiniteSets

CONSTANTS
  Revisions, Base,      \* canonical revisions; the one of the retained capture
  Torn,                 \* what an observation sees across a change
  Keys, Elsewhere,      \* fingerprints of events of the window; any other event
  EventLimit, KeyLimit, \* SEMANTIC_EVENT_LIMIT, SEMANTIC_EVENT_KEY_LIMIT
  Timeout, Grace,       \* timeoutMs; the 10 ms a drained callback may use
  MaxTime, MaxEvents    \* bounds: the clock, the events the bus carries

ASSUME RevisionAssumption == Base \in Revisions /\ Torn \notin Revisions
ASSUME EventAssumption == Elsewhere \notin Keys
ASSUME LimitAssumption ==
  /\ {EventLimit, KeyLimit, Timeout, Grace} \subseteq Nat \ {0}
  /\ {MaxTime, MaxEvents} \subseteq Nat

VARIABLES
  now, target, root, content, cancelled,   \* clock, X11 window, AT-SPI window, host
  queue, emitted,                          \* signals on their way to the listener
  registered, allocated,                   \* the registry calls back; the storage
  active, events, relevant, observed, keys, overflow,
  pc, deadline, seen, current, status,
  missed,       \* history: a change no accepted event announces
  lateReads     \* history: observations begun after the cancellation

envVars      == <<now, target, root, content, cancelled>>
busVars      == <<queue, emitted>>
statVars     == <<events, relevant, keys, overflow>>
listenerVars == <<registered, allocated, active, observed>>
callVars     == <<deadline, seen, current, status>>
historyVars  == <<missed, lateReads>>
vars == <<envVars, busVars, statVars, listenerVars, pc, callVars, historyVars>>

Targets == {"valid", "moved", "replaced"}
Roots   == {"same", "other"}
Event   == Keys \cup {Elsewhere}
Reading == [rev : Revisions \cup {Torn}, root : Roots, ofTarget : BOOLEAN]
Status  == {"none", "changed", "timeout", "cancelled", "target_invalid",
            "observation_failed", "listener_failed", "cleanup_failed"}

NoReading == [rev |-> Base, root |-> "same", ofTarget |-> TRUE]

-----------------------------------------------------------------------------
\* The capture may be as old as its history allows: the window may have changed.
Init ==
  /\ now = 0 /\ cancelled = FALSE
  /\ target \in Targets /\ root = "same" /\ content \in Revisions
  /\ queue = <<>> /\ emitted = 0
  /\ registered = FALSE /\ allocated = FALSE
  /\ active = 0 /\ events = 0 /\ relevant = 0 /\ observed = 0
  /\ keys = {} /\ overflow = FALSE
  /\ pc = "request"
  /\ deadline = Timeout /\ seen = Base /\ current = NoReading /\ status = "none"
  /\ missed = (content # Base) /\ lateReads = 0

-----------------------------------------------------------------------------
(* Environment *)

Tick ==
  /\ now < MaxTime
  /\ now' = now + 1
  /\ UNCHANGED <<target, root, content, cancelled, busVars, statVars,
                 listenerVars, pc, callVars, historyVars>>

TargetChanges ==
  /\ target # "replaced"
  /\ target' \in Targets \ {target}
  /\ UNCHANGED <<now, root, content, cancelled, busVars, statVars,
                 listenerVars, pc, callVars, historyVars>>

RootChanges ==
  /\ root = "same"
  /\ root' = "other"
  /\ UNCHANGED <<now, target, content, cancelled, busVars, statVars,
                 listenerVars, pc, callVars, historyVars>>

Cancel ==
  /\ ~cancelled
  /\ cancelled' = TRUE
  /\ UNCHANGED <<now, target, root, content, busVars, statVars,
                 listenerVars, pc, callVars, historyVars>>

\* The bus delivers in order, and only to a registered listener.
Emit(e) ==
  /\ emitted < MaxEvents
  /\ emitted' = emitted + 1
  /\ queue' = IF registered THEN Append(queue, e) ELSE queue

\* The application announces a change no earlier than it can be read.
ContentChanges ==
  /\ \E k \in Keys : Emit(k)
  /\ content' \in Revisions \ {content}
  /\ missed' = (missed \/ ~registered)
  /\ UNCHANGED <<now, target, root, cancelled, statVars, listenerVars, pc,
                 callVars, lateReads>>

\* Of another window, or of this one without a change of its projection.
OtherEvent ==
  /\ registered
  /\ \E e \in Event : Emit(e)
  /\ UNCHANGED <<envVars, statVars, listenerVars, pc, callVars, historyVars>>

-----------------------------------------------------------------------------
(* receive_event *)

Dispatching == {"dispatch", "read", "drain"}

\* A listener whose deregistration failed is still called while later calls
\* pump the main context.
Callback ==
  /\ pc \in Dispatching \/ (pc = "done" /\ registered)
  /\ queue # <<>>
  /\ queue' = Tail(queue)

FromWindow == Head(queue) # Elsewhere
AfterWait  == pc \in {"drain", "done"}

CallbackOverLimit ==
  /\ Callback
  /\ events >= EventLimit
  /\ overflow' = TRUE
  /\ missed' = (missed \/ (FromWindow /\ AfterWait))
  /\ UNCHANGED <<envVars, emitted, events, relevant, keys, listenerVars, pc,
                 callVars, lateReads>>

\* No deadline, a deadline that has passed, or a query about the source that
\* fails or takes too long: the event is counted and dropped.
CallbackDropped ==
  /\ Callback
  /\ events < EventLimit
  /\ events' = events + 1
  /\ missed' = (missed \/ FromWindow)
  /\ UNCHANGED <<envVars, emitted, relevant, keys, overflow, listenerVars, pc,
                 callVars, lateReads>>

CallbackIrrelevant ==
  /\ Callback
  /\ events < EventLimit
  /\ now < active
  /\ ~FromWindow
  /\ events' = events + 1
  /\ UNCHANGED <<envVars, emitted, relevant, keys, overflow, listenerVars, pc,
                 callVars, historyVars>>

\* A fingerprint is stored, recognised, or one too many.
CallbackRelevant ==
  /\ Callback
  /\ events < EventLimit
  /\ now < active
  /\ FromWindow
  /\ events' = events + 1
  /\ relevant' = relevant + 1
  /\ LET k == Head(queue)
         room == Cardinality(keys) < KeyLimit
     IN /\ keys' = IF room THEN keys \cup {k} ELSE keys
        /\ overflow' = (overflow \/ ~(room \/ k \in keys))
  /\ missed' = (missed \/ AfterWait)
  /\ UNCHANGED <<envVars, emitted, listenerVars, pc, callVars, lateReads>>

-----------------------------------------------------------------------------
(* semantic_change_wait, semantic_change_wait_registered *)

StillValid == target = "valid"

Goto(p) ==
  /\ pc' = p
  /\ UNCHANGED <<envVars, busVars, statVars, listenerVars, callVars, historyVars>>

\* The verdict; the listener is ended next, if there is one.
Finish(s) ==
  /\ status' = s
  /\ pc' = IF registered THEN "end" ELSE "done"
  /\ UNCHANGED <<envVars, busVars, statVars, deadline, seen, current, historyVars>>

KeepListener == UNCHANGED listenerVars

\* semantic_events_wait leaves no deadline behind when it does not wake.
StopListening == active' = 0 /\ UNCHANGED <<registered, allocated, observed>>

\* valid_request, asked again once the listener is there.
RequestExpired ==
  /\ pc \in {"request", "registered"}
  /\ now >= deadline
  /\ Finish("target_invalid") /\ KeepListener

Request ==
  /\ pc = "request"
  /\ now < deadline
  /\ Goto("begin")

\* No backend, no memory, or the registry refuses.
BeginFails ==
  /\ pc = "begin"
  /\ Finish("listener_failed") /\ KeepListener

Begin ==
  /\ pc = "begin"
  /\ registered' = TRUE /\ allocated' = TRUE
  /\ pc' = "registered"
  /\ UNCHANGED <<envVars, busVars, statVars, active, observed, callVars, historyVars>>

Registered ==
  /\ pc = "registered"
  /\ now < deadline
  /\ Goto("validate")

\* validate_base: before the first wait, after a wakeup, after the observation
\* and before a timeout is reported.
TargetInvalid ==
  /\ pc \in {"validate", "woken", "compared", "expired"}
  /\ ~StillValid
  /\ Finish("target_invalid") /\ KeepListener

Validate ==
  /\ pc = "validate"
  /\ StillValid
  /\ Goto("wait")

-----------------------------------------------------------------------------
(* semantic_events_wait *)

WaitExpired ==
  /\ pc = "wait"
  /\ now >= deadline
  /\ Finish("listener_failed") /\ KeepListener

\* Fault: events that came during the observation count as seen.
WaitForgetting ==
  /\ pc = "wait"
  /\ now < deadline
  /\ active' = deadline
  /\ observed' = relevant
  /\ pc' = "enter"
  /\ UNCHANGED <<envVars, busVars, statVars, registered, allocated, callVars, historyVars>>

\* "active" is still the deadline after a wakeup.
Wait ==
  /\ pc = "wait"
  /\ now < deadline
  /\ active' = deadline
  /\ pc' = "enter"
  /\ UNCHANGED <<envVars, busVars, statVars, registered, allocated, observed,
                 callVars, historyVars>>

\* Fault: the cancellation is only looked at when there is nothing to do.
EnterUnchecked ==
  /\ pc = "enter"
  /\ Goto("loop")

\* The cancellation is looked at before pending events are.
Enter ==
  /\ pc = "enter"
  /\ ~cancelled
  /\ Goto("loop")

WaitCancelled ==
  /\ pc \in {"enter", "poll"}
  /\ cancelled
  /\ Finish("cancelled") /\ StopListening

Wake ==
  /\ pc = "loop"
  /\ relevant # observed
  /\ observed' = relevant
  /\ pc' = "woken"
  /\ UNCHANGED <<envVars, busVars, statVars, registered, allocated, active,
                 callVars, historyVars>>

Overflowed ==
  /\ pc = "loop"
  /\ relevant = observed
  /\ overflow
  /\ Finish("listener_failed") /\ StopListening

NothingPending ==
  /\ pc = "loop"
  /\ relevant = observed
  /\ ~overflow
  /\ Goto("poll")

Poll ==
  /\ pc = "poll"
  /\ ~cancelled
  /\ Goto("remaining")

Expire ==
  /\ pc = "remaining"
  /\ now >= deadline
  /\ pc' = "expired"
  /\ StopListening
  /\ UNCHANGED <<envVars, busVars, statVars, callVars, historyVars>>

\* Fault: the clock is not looked at between iterations.
IterateAnyTime ==
  /\ pc = "remaining"
  /\ Goto("dispatch")

Iterate ==
  /\ pc = "remaining"
  /\ now < deadline
  /\ Goto("dispatch")

\* An iteration runs any number of callbacks, or sleeps.
IterationEnds ==
  /\ pc = "dispatch"
  /\ Goto("loop")

TimesOut ==
  /\ pc = "expired"
  /\ StillValid
  /\ Finish("timeout") /\ KeepListener

-----------------------------------------------------------------------------
(* After a wakeup *)

WokenValid ==
  /\ pc = "woken"
  /\ StillValid
  /\ seen' = content /\ current' = NoReading
  /\ lateReads' = IF cancelled THEN lateReads + 1 ELSE lateReads
  /\ pc' = "read"
  /\ UNCHANGED <<envVars, busVars, statVars, listenerVars, deadline, status,
                 missed>>

\* No exact match, an error, a projection beyond its limit.
ObservationFails ==
  /\ pc = "read"
  /\ Finish("observation_failed") /\ KeepListener

\* The tree is read call by call: a change meanwhile shows before, after or
\* torn across it.
Observe ==
  /\ pc = "read"
  /\ \E r \in IF seen = content THEN {content} ELSE {seen, content, Torn} :
       current' = [rev |-> r, root |-> root, ofTarget |-> target # "replaced"]
  /\ seen' = Base
  /\ pc' = "observed"
  /\ UNCHANGED <<envVars, busVars, statVars, listenerVars, deadline, status,
                 historyVars>>

OtherRoot ==
  /\ pc = "observed"
  /\ current.root # "same"
  /\ Finish("target_invalid") /\ KeepListener

SameRoot ==
  /\ pc = "observed"
  /\ current.root = "same"
  /\ Goto("compared")

\* Fault: the target is not validated after the observation.
ChangeUnvalidated ==
  /\ pc = "compared"
  /\ current.rev # Base
  /\ Finish("changed") /\ KeepListener

Change ==
  /\ pc = "compared"
  /\ StillValid
  /\ current.rev # Base
  /\ Finish("changed") /\ KeepListener

Unchanged ==
  /\ pc = "compared"
  /\ StillValid
  /\ current.rev = Base
  /\ Goto("wait")

-----------------------------------------------------------------------------
(* semantic_events_end *)

BeginDrain ==
  /\ pc = "end"
  /\ active' = now + Grace
  /\ pc' = "drain"
  /\ UNCHANGED <<envVars, busVars, statVars, registered, allocated, observed,
                 callVars, historyVars>>

End ==
  /\ pc = "drain"
  /\ active' = 0
  /\ registered' = FALSE /\ allocated' = FALSE
  /\ queue' = <<>>
  /\ missed' = (missed \/ \E i \in DOMAIN queue : queue[i] # Elsewhere)
  /\ pc' = "done"
  /\ UNCHANGED <<envVars, emitted, statVars, observed, callVars, lateReads>>

\* Fault: the storage is released although the registry keeps its address.
EndFailsFreeing ==
  /\ pc = "drain"
  /\ active' = 0
  /\ allocated' = FALSE
  /\ status' = "cleanup_failed"
  /\ pc' = "done"
  /\ UNCHANGED <<envVars, busVars, statVars, registered, observed, deadline, seen,
                 current, historyVars>>

\* The registry may call back for ever: the storage is kept.
EndFails ==
  /\ pc = "drain"
  /\ active' = 0
  /\ status' = "cleanup_failed"
  /\ pc' = "done"
  /\ UNCHANGED <<envVars, busVars, statVars, registered, allocated, observed,
                 deadline, seen, current, historyVars>>

-----------------------------------------------------------------------------
Environment ==
  Tick \/ TargetChanges \/ RootChanges \/ Cancel \/ ContentChanges \/ OtherEvent

Callbacks ==
  CallbackOverLimit \/ CallbackDropped \/ CallbackIrrelevant \/ CallbackRelevant

WaitStep ==
  \/ RequestExpired \/ Request \/ BeginFails \/ Begin \/ Registered
  \/ TargetInvalid \/ Validate
  \/ WaitExpired \/ Wait \/ Enter \/ WaitCancelled
  \/ Wake \/ Overflowed \/ NothingPending \/ Poll \/ Expire \/ Iterate
  \/ IterationEnds \/ TimesOut
  \/ WokenValid \/ ObservationFails \/ Observe \/ OtherRoot \/ SameRoot
  \/ Change \/ Unchanged
  \/ BeginDrain \/ End \/ EndFails

Next == Environment \/ Callbacks \/ WaitStep

Spec == Init /\ [][Next]_vars

\* The thread runs, and the clock.
FairSpec == Spec /\ WF_vars(WaitStep) /\ WF_vars(Tick)

-----------------------------------------------------------------------------
(* Properties *)

Phase == {"request", "begin", "registered", "validate", "wait", "enter", "loop",
          "poll", "remaining", "dispatch", "expired", "woken", "read", "observed",
          "compared", "end", "drain", "done"}

\* Ranges; the counters stay within their limits, and no deadline is left
\* behind in a listener nobody waits on.
TypeOK ==
  /\ now \in 0..MaxTime /\ target \in Targets /\ root \in Roots
  /\ content \in Revisions /\ cancelled \in BOOLEAN
  /\ queue \in Seq(Event) /\ emitted \in 0..MaxEvents
  /\ registered \in BOOLEAN /\ allocated \in BOOLEAN
  /\ active \in Nat /\ (pc = "done" => active = 0)
  /\ events \in 0..EventLimit /\ relevant \in 0..events /\ observed \in 0..relevant
  /\ keys \subseteq Keys /\ Cardinality(keys) <= KeyLimit
  /\ overflow \in BOOLEAN
  /\ pc \in Phase /\ status \in Status
  /\ deadline \in Nat /\ seen \in Revisions /\ current \in Reading
  /\ missed \in BOOLEAN /\ lateReads \in Nat

Pending == \E i \in DOMAIN queue : queue[i] # Elsewhere

\* A timeout means unchanged: unless the window changed before the listener
\* was there, or its event was dropped, came too late or is still on its way, the
\* content is the captured one.  An event that comes while the window is
\* observed is not lost, nor one beyond the limits.
TimeoutMeansUnchanged ==
  status = "timeout" /\ ~missed /\ ~Pending => content = Base

\* A change is reported from an observation of the captured window only, even
\* if another one took its place while it was read.
ChangeIsOfTarget ==
  status = "changed" =>
    /\ current.rev # Base
    /\ current.root = "same"
    /\ current.ofTarget

\* After a cancellation at most one more observation begins, however many
\* events arrive.
CancelStopsObserving == lateReads <= 1

\* The registry never holds an address that was released, and what it does not
\* hold is not kept: also when the deregistration fails.
StorageOutlivesRegistration ==
  /\ registered => allocated
  /\ pc = "done" => allocated = registered

\* The wait ends whatever the application, the registry and the host do.
Returns == []<>(pc = "done")

\* docs/semantic-events.md:58-59: "timeout is a successful unchanged outcome".
\* A listener that was registered and did not overflow has not failed.
DeadlineIsTimeout ==
  status = "listener_failed" => overflow \/ ~registered
=============================================================================
