# A formal model of deskpal

deskpal is an MCP server that lets a coding agent see and operate a Linux desktop.
One process serves one host over JSON-RPC lines on stdin/stdout and runs one tool
call at a time. Several hosts on one machine start several processes; they share one
visible desktop, and each may own private desktops (an Xvfb server and a second
deskpal process in its own process group).

This directory holds TLA+ modules translated from the C sources, the TLC
configurations that check them and proofs for TLAPS. Source references are
to the repository root (`csrc/control.c:176`).

## 1. Inventory

| Component | State | Operations | Interacts with | Hard behaviour |
|---|---|---|---|---|
| Control lease, `csrc/control.c` | `g_control_fd`, `g_control_fd_adopted`; kernel lock and owner text of the lock file | acquire, release, clean-up, export, adopt | every server process, private children (inherited descriptor) | interleaving of system calls, crash, inherited descriptors, partial failure |
| Start and end, `csrc/main.c` | none of its own | adopt at start, clean-up order at exit | lease, sessions, indicator, captures | clean-up order |
| Dispatcher, `csrc/mcp.c` | active request, cancelled, disconnected, transport-failed flags | `mcp_run`, `handle_tools_call`, `mcp_request_cancelled`, argument validation | transport, lease, sessions, handlers | flags that outlive a call, end of input in the middle of a call |
| Input transport, `csrc/mcp_transport.c` | read buffer, queue of 64 lines, eof, failed | next line, poll for cancellation | pipe from the host | reordering, overflow, torn last line, lost cancellation |
| Isolated sessions, `csrc/sessions.c` | eight slots: pid, pipes, broken, request id | start, forward, close, stop, clean up all | fork/exec, the child's MCP loop, lease | late answers, child exit at any time, partial start |
| Captures, `csrc/captures.c` | ring of 16 captures with time, window identity, shared snapshots | store, look up, clean up | observation and frame tools | stale use, overwritten entries, shared ownership |
| Frames, `frame_settle.c`, `frame_tools.c`, `frame_state.c`, `pixel_action.c` | base frame, last frame, quiet period, deadline | wait until stable, click and verify | captures, X server, cancellation | deadline races, window replaced meanwhile |
| Semantic events and waits, `semantic_events.c`, `semantic_change.c` | listeners, counters of relevant events | begin, wait, end | AT-SPI, cancellation | change before registration, overflow, timeout |
| Semantic state, `semantic_state.c`, `tools.c` (`get_app_state`) | serialised trees, revision | observe, diff | captures, accessibility | diff against a stale base |
| Accessibility, `accessibility.c` | AT-SPI connection | trees, focused element, actions with re-resolution | D-Bus | element changes between look-up and action, unknown outcome |
| Semantic mutation tools, `tools.c` (`agent_semantic_*`, `agent_cursor_*`) | none of their own | locate an element, indicate it, mutate it | captures, indicator, accessibility | seconds between finding an element and mutating it |
| Indicator client and Shell extension, `indicator.c`, `extension.js` | table of owned cursors; the Shell's table per bus name | move, hide, clean up; owner vanished | D-Bus | lost replies, Shell restart |
| Shell bridge, `shell_bridge.c` | session epoch, window identities | identify, compare | Shell | identity across Shell restarts |
| Broker contract, `broker_contract.c` | operation state, `dispatch_attempted` | init, transition | its tests only | cancellation and failure at every state |
| Input, `x11.c`, `uinput.c`, `tools.c` | held mouse buttons | click, drag, press, release, type | X server, uinput | buttons held across calls |
| Screenshots, OCR, clipboard, vendored code | none worth modelling | | | |

What makes each part correct, in one sentence:

* lease: at most one server acts on the visible desktop, it keeps the desktop as long
  as something depends on it, and gives it up whatever happens to it;
* transport and loop: every request is answered once, in order, only its own
  cancellation interrupts it, and a host that is gone ends the server;
* sessions: an answer is only taken for the request it answers, a session that failed
  is never used again, and none survives its server;
* captures, frames, semantic waits: a verdict is about the window and the revision the
  caller named, never about a stale or replaced one;
* actions: what may have been executed is never reported as not executed;
* indicator: no cursor stands on the screen that nobody can move or hide, up to calls
  whose outcome was reported as unknown;
* semantic mutations: the element the caller saw is mutated, once, after it was indicated,
  or nothing is.

## 2. Plan

1. `DesktopLease`, `ControlLease` (with the private children, held buttons and the clean-up
   order), its invariant and the refinement, proved. **Done.**
2. `McpTransport`: transport and main loop; its safety properties proved. **Done.**
3. `IsolatedSession`: request ids, deadlines, extra output, broken sessions, partial
   start; its safety properties proved. **Done.**
4. `AppState`: the ring of captures with its shared projections, and observations on top
   of it; its properties proved. **Done.**
5. `FrameSettle` and `FrameTools`: anchor, stable period, deadline, cancellation, identity,
   click and verification; their safety properties proved. **Done.**
6. `SemanticChange`: listener registration, events, time-out, with proofs. **Done.**
7. `SemanticAction`, `AgentIndicator` and their composition `SemanticMutation`:
   re-resolution, indicator, action, verification, with proofs. **Done.**
8. The remaining tools (launch, exec, keyboard, waiting for windows) keep no state between
   calls; section 8 says what else is left out and why.

Bounds are small throughout: two servers, one slot, one button, a handful of lines; the
constants are parameters, so that the proofs do not depend on them.

## 3. Modules

| Module | Role |
|---|---|
| `DesktopLease` | what arbitration promises: clients acquire, begin, finish, release, die, drop |
| `ControlLease` | servers, lock file, descriptors, private children, held buttons, exit |
| `ControlLease_proofs` | inductive invariant, safety theorems; `ControlLease` implements `DesktopLease` |
| `McpTransport` | host, pipe, transport, main loop, cancellation poll |
| `McpTransport_proofs` | order, loss, clean end and interruption |
| `IsolatedSession` | requests forwarded to private children: pipes, ids, deadlines, broken sessions |
| `IsolatedSession_proofs` | whose answer a result is, sessions in step, ids |
| `FrameSettle` | waiting until a captured window is still |
| `FrameSettle_proofs` | what is compared, when a verdict is given, cancellation |
| `FrameTools` | `verify_frame_change` and `click_and_verify_frame_change`, on top of `FrameSettle` |
| `FrameTools_proofs` | verified changes, fresh clicks, reported delivery |
| `SemanticChange` | waiting for accessible content to change: listener, callbacks, observations |
| `SemanticChange_proofs` | its types, what a timeout and a change mean, what a cancellation costs, storage |
| `SemanticAction` | one verified AT-SPI mutation: searches, re-resolution, dispatch, outcome, postcondition |
| `AgentIndicator` | the table of owned cursors, the Shell extension and the D-Bus calls between them |
| `SemanticMutation` | the tools that mutate an application; composes the two above with the desktop |
| `SemanticMutation_proofs` | outcome, target, success and kept edits; indication before mutation, no stray cursor |
| `AppState` | `get_app_state` against a moving desktop, and the ring of captures |
| `AppState_proofs` | types and the three properties of `AppState` |
| `MC_...` | instances for TLC: symmetry sets, frames and the tolerance relation |

Operators whose comment starts with "Fault" are variants of an action with one mistake a
programmer could plausibly make. No specification uses them: they serve to confirm
that the properties notice such a mistake.

### ControlLease

`lock` is the open file description (OFD) that owns the kernel lock, `text` the owner
recorded in the file. `flock` locks belong to OFDs: `ofd[s]` is the one behind the
descriptor of server `s`, `cofd[s][k]` the one its child in slot `k` inherited. `held` is
`g_control_fd >= 0`; a server between `open` and the end of `control_acquire` has a
descriptor but does not hold. `used` are the slots of `g_sessions`, `down` is
`g_held_mouse_buttons`. Each server has one thread, hence one `pc`:

* `CallTool` is `handle_tools_call`; tools are grouped by what they do to the lease.
* `AcquireOpen`, `AcquireFlock`, `AcquireFlockBusy`, `AcquireRefused`, `AcquireErase`,
  `AcquireRecord` are the system calls of `control_acquire` in order; `AcquireOpenFails` and
  `AcquireAbandon` its error paths.
* `HandleRelease`, `ReleaseUnlock`, `ReleaseUnlockFails` are `release_control`; its refusals
  change nothing and are part of `HandlerReturns`.
* `StartSession` to `StopSession` are the parent's side of a private session, `ChildExec`,
  `ControlAdopt`, `ControlAdoptFails`, `ChildServerExits` and `GroupExits` the child's: `fork`
  copies the descriptor, `control_export_to_fd` keeps it over `execv`, the second `main`
  re-locks it.
* `McpRunEnds`, `CleanupSession`, `CleanupErase`, `CleanupUnlock`, `CleanupX11` are the end of
  `main`, in its order: `control_cleanup` gives the lease up while a button may still be
  recorded, `x11_cleanup` forgets the button afterwards. That moment is the one exception of
  `DependantsNeedLease`. `ServerCrash` can happen to any living server at any point.

The group of a private session counts as alive until `GroupExits` or `StopSession`: as long
as one process has the inherited descriptor the OFD stays open.

### McpTransport

A line is the index of a message in the host's history, so that order and identity stay
visible however lines travel. The pipe and the buffer hold a line's body and its newline
as two units, so that a read may end between them and a host may die there.
`Next...` actions are `mcp_input_transport_next`, `Serve...` and `Reply` the body of
`mcp_run`, `Poll...` a call of `mcp_request_cancelled`. The byte limits (16 MiB of input, and
of queued lines) lead to the same code as a read error and as a full queue; they are
part of `ReadFails` and of `QueueLimit`. A failed `malloc` is left out.

### IsolatedSession

The parent is one thread, `pc`; the children run beside it. `id`, `broken` and `sent` are
the fields of a slot of `g_sessions`, `toChild` and `fromChild` the two pipes, `busy` the
request the child's `mcp_run` works on. `SendRequest` to `ReadTimesOut` are `child_rpc`: a
response line is looked at only if nothing came behind it in the same `read`, so that
`ReadExtra` and `ReadAnswer` are both possible when two lines wait. `step` says for which of
its three callers `child_rpc` runs (`initialize`, `launch_app`, a forwarded tool) and what
they do with the result. A line is a record of its kind, the request it answers and the
session whose child wrote it. A deadline may pass at any moment (`ReadTimesOut`), which
stands for all values of `response_timeout_ms`. Requests that exceed the pipe's capacity are
`large`: writing them waits for the child.

### FrameSettle and FrameTools

`FrameSettle` is `frame_settle_wait` with its callbacks. The environment acts between any two
steps: the clock ticks, the application draws (`frame`), the window manager moves, resizes or
replaces the window (`target`, relative to the retained capture), the host cancels. A window
that moved or was resized can return to its place; a replaced one cannot, because
`capture_window_still_valid` compares process, title and class as well as geometry. Each
reading of the clock, validation and capture is a step of its own, in the order of the
code. `Near` is the tolerance relation: reflexive and symmetric, not transitive, which is
what slow drift exploits. `period` (the samples judged since the anchor, each with the reading of
the clock it was judged by, `JudgedSample`) and `late` are history variables.

`FrameTools` adds the two verifying tools: look-up, preflight, the click of
`pixel_click_window`, the second look-up of the same capture (it may have expired) and the
verdict. Frames are sets of lit pixels of the retained projection, so that differences and
fractions can be counted; only differences to the base matter, hence `base` is a constant.

### SemanticChange

One call of `semantic_change_wait`. The bus is a queue of events, delivered in order and only
to a registered listener; `Callback...` actions are `receive_event`, which runs on the
waiting thread while it dispatches: between `Iterate` and `IterationEnds`, during an
observation (`read`), in the last drain, and for ever after a failed deregistration. An
event of the window is its fingerprint, every other one `Elsewhere`. An observation reads the
tree call by call: when the content changes meanwhile it sees the old revision, the
new one, or one that never was (`Torn`). `missed` is a history variable: the change was before
the registration, or its event was dropped, late or never delivered. Statistics that are only
reported are left out, and so are changes of the process-wide AT-SPI timeout.

### SemanticAction

One call of `accessibility_action`. `kids` are the elements of the window in the order of their
child indices, reduced to those that have the role and name of the target, or of the element
by which an invoked action is verified (`name`); every object has an identity (bus name and
object path) that is never used again. A search reads the number of children once
(`CountKids`) and then the child that has the next index at that moment (`Visit`), while the
application drops, moves, replaces and adds elements (`Restructure`), renames them (`Rename`),
disables and protects them (`SetMode`) and the user types: a living match can be skipped or met
twice. A failed call or a limit is `VisitFails`. `pc` is the search under way: the target and
the element that shows the postcondition are each resolved three times (`BindTarget`,
`TargetAgain`, `TargetAtDispatch`, and `VerifyFound` in three phases), as in the code.
`search.steady` and `target.sure` are history: whether the walk, and whether one of the three
walks for the target, saw no index move and the located element keep its name.
`Refuse` is every early return before the mutation. `Issue` puts the request on the bus,
`Execute` and `Decline` are the application's, at any later moment, `Receive` and
`CallTimesOut` the client's view of it, and `Post...` the polling for the postcondition.
The deadline passes at any moment (`DeadlinePasses`). Operations that set something
differ only in data; replacing a range (computed from the text that was read) and
invoking (verified elsewhere) differ in control and have a `kind` of their own.

### AgentIndicator

The client's side is `indicator.c` with the tool around it: `owned` is its table, `phase` the
D-Bus call an operation is at, `answer` what became of that call, `polls` the status calls
of the settle loop. `Ask` is `get_connection` and `call_method`; `AnswerIsLate` the time-out of
a second, after which the call stays in the Shell's `inbox` and is executed all the same.
The Shell's side is the extension: `cursors` with the connection that owns each, and `Serve`,
which handles the inbox in order, among it the notice that a connection is gone. The Shell may
stop and start (`ShellStops`, `ShellStarts`), the client lose its connection (`BusDrops`) and
open another one with a new unique name. `uncertain` are the cursors whose last outcome was
reported as unknown; `stood` says that the cursor reached its place in this operation.

### SemanticMutation

Composes the two with the tools that use them. `tool` is where the tool under way is:
`CallMutation` and `Locate` are `tool_agent_semantic_mutation` up to the move of the cursor,
`MoveRefused`, `Revalidate` and `WindowLost` what follows it (a window that changed makes the tool
hide the cursor), `Nameless` and `Dispatch` the construction of the role and name selector and
the call of `accessibility_action`. `CallMove`, `CallHide` and `CallAction` are the tools of
their own. `layout` is where the located element has its centre: `Locate` reads it,
`Relayout` changes it at any time, inside an unchanged window. The captured window changes at
any time, once. An action ends a behaviour's calls: the next one would start with a fresh
capture and the same code.

The specification has every step of the desktop at any time, and is what the theorems are
about. `MC_SemanticMutation` checks the part of it called `SeenSpec`, which takes a step of
the desktop only where it can still make a difference: a change of the window between
indication and its last check, a relayout just before the request, a change of the elements
while a search reads them or a request is under way; and of a second call's actions one kind,
on a quiet desktop.

### AppState

`tool_get_app_state` step by step: `Begin` (look-up of the capture to compare with), `Resolve`,
`TakeImage`, `CountChildren` and `Visit`, `ResolveAgain`, `Compare`, `Register`, `Report`, with the
desktop moving on between any two of them. `desk` is the window: its identity, place and size,
each of which may change and change back. `kids` are the accessible nodes of every window of
the process that has the title: the search goes by title and only other processes are
filtered (`tools.c:849`, `:669`), so that a namesake's nodes are in the tree as well. The number of
children is read once, then one node at a time by its index. Focus is an arbitrary answer at
each of its two readings, and the picture of another program an image of arbitrary size.
`taken` (the states of the window at each reading) and `returned` (it became again what it was
when it was resolved) are history variables.

`history` is the ring of `captures.c` with its next slot (`stored`), `heap`
the projections that are allocated: a copy of a record (`prev`) shares its projection with the
ring, so that a store may free what a copy still points to. `Screenshot` stores a capture without
a projection. `Fail` is every error result. A walk records the key of a node, which holds its
path inside its window, and whether it shows; other fields of a record behave like the latter. The age limit
of a capture is part of the refusal of `Begin`.

## 4. Runs

| Run | Question | Result |
|---|---|---|
| `lease` | `TypeOK`, `MutualExclusion`, `ChildrenCovered`, `DependantsNeedLease`, `TextWrittenUnderLock`, `ImplementsDesktopLease`, `LeaseFreedAfterDeath`, `CallsReturn` | hold |
| `lease_refusal` | does a refused call name the owner? | no: see 6 |
| `transport` | `LinesInOrder`, `NothingLostUnnoticed`, `CleanEndAnswersAll`, `InterruptedForCause`, `CancelEndsCall`, `HostGoneEnds` | hold |
| `transport_cancel` | does a poll consume only matching cancellations? | no: see 6 |
| `session` | `SessionsInStep`, `IdsHandedOnce`, `ResultIsOwn`, `CallsReturn` | hold |
| `settle` | `SettledWasStill`, `FramesOfTarget`, `VerdictInTime`, `CancelStopsSampling`, `Returns` | hold |
| `verify` | `VerifiedIsTrue`, `ClickOnFreshTarget`, `DeliveryReported` | hold |
| `verify_attribution` | is the attributed change newer than the click? | no: see 6 |
| `change` | `TimeoutMeansUnchanged`, `ChangeIsOfTarget`, `CancelStopsObserving`, `StorageOutlivesRegistration`, `Returns` | hold |
| `change_deadline` | is a deadline that passes always a timeout? | no: see 6 |
| `mutation` | `NoStrayCursor`, `OutcomeIsHonest`, `NothingElseMutated`, `SuccessIsObserved`, `EarlierEditsKept`, `IndicatedFirst` | hold |
| `appstate` | `ProjectionsOwned`, `DiffReportsChange`, `CaptureIsOfOneWindow` | hold |

The type invariants of modules other than `ControlLease` are no part of a run: they document the
ranges and are proved, those of `SemanticAction` and `AgentIndicator` of their composition.

Bounds. `lease`: two servers (arbitration is pairwise), one slot, one button (buttons are only
counted), `MaxOpens = 2` (a server that released or was refused comes back once; no action
depends on how often); no symmetry, because liveness is checked. The theorems cover any number
of each. `transport`: four lines and a queue of one, so that while one call runs
a poll can queue a line, overflow on the next and leave another behind in the buffer; two
request ids, so that one call's cancellation can meet the other.
`session`: two slots and three sessions, so that a slot is used again while the other
one is in use; four requests per session (two to start it, then two calls, so that one can
fail and the next be wrong), one stray line per child. `settle`: three shades of which
neighbours are near, so that a window can drift; a deadline of three intervals and a
stable time of two. `verify`: two pixels, one of them the region; a capture that can
expire before and after the click. `change`: three events against a limit of two and two
fingerprints against a limit of one, so that both limits are passed; only whether the
deadline has passed matters, hence one tick. `mutation`: two elements at a time, so that a
search can be ambiguous, skip one or find one that took the other's place; one change by
the application or the user; two cursors for a table of one, so that the table is full, and two
places, cursors and places being interchangeable (`Symmetry`); one fault of the Shell or the bus,
one repeated status call; two calls, so that a cursor moved before can be hidden or meet a
mutation. The accessibility action by a caller's locator shares no state with the cursors and
is explored as a first call only. `appstate`: a ring of two and three calls, so that the first
capture is overwritten; two values for each property of the window, so that it can come back;
five events, a call counting once and a change twice (`MaxEvents`): one call with two changes,
which is a window that leaves and returns, or three with one at any point. All
safety properties of all runs are proved without these bounds (section 7). Deadlock is not checked
because every system stops: servers end, a call returns.

`MaxOpens` and `MaxLines` bound opens and lines (guards of `AcquireOpen` and `HostWrites`); `MaxSessions`,
`MaxRequests` and `MaxStray` bound sessions, requests and stray lines (guards of
`StartSession`, `ForwardTool`, `SendRequest`, `StrayLine`); `MaxTime` stops the clock
after the last deadline (guard of `Tick`), `MaxEvents` the events of one wait (guard of
`Emit`) and calls and changes in `AppState` (guards of `Calls` and `Changes`). `Nodes` bounds the
elements at a time (`ActionInit`, `Restructure`), `MaxValue` what identity, place and size of a
window can be (guard of `WindowChanges`, `TakeImage`). `MaxChanges` bounds what the environment
changes (guards of `Changes` in `SemanticAction` and of `Relayout`), `MaxFaults` the restarts and lost connections (guards of `ShellStops`, `ShellStarts`, `BusDrops`),
`MaxPolls` the repeated status calls (guard of `NotSettled`), `MaxCalls` the tool calls (guards of
`Begins`, and of `Calls` in `AppState`).


## 5. Fairness

`ControlLease!Fairness`: a server keeps executing its handler and its clean-up (all waits in
`sessions.c` have deadlines), a started child makes progress until it serves or fails, a
serving child whose parent is dead reads end of input and leaves, and the rest of its group
follows (`xvfb-run` ends with its command). No fairness for hosts: no tool need be called,
no server need ever exit or crash.

`McpTransport!Fairness`: the main loop runs and a waiting handler polls again and again
(every wait loop calls `mcp_request_cancelled` between short sleeps). That a handler's own
deadline passes is not assumed, so `CancelEndsCall` and `HostGoneEnds` do not rest on it. For a
handler that never polls these two properties say nothing until it returns. The host need
not write, finish a line or close.

`IsolatedSession!Fairness`: the server runs and its deadlines pass. A living child
returns to its main loop and reads its input, which only matters for a request larger than
the pipe: `child_rpc` writes it without a deadline (`sessions.c:320`). No child need ever answer
or exit.

`FrameSettle!FairSpec` and `SemanticChange!FairSpec`: the thread runs and the clock runs. That
an iteration of the main context ends is part of it: it runs the callbacks that are ready.

`SemanticMutation` and `AppState` state no fairness and no liveness: what is asked of them
is what a call may do and report, not that it returns. An element that never answers is
given up on at a deadline (`CallTimesOut`, `AnswerIsLate`), which is an action of the module
but promised by nobody here.

## 6. What the checks show about the documentation

* README.md:252-254 says the error of a refused call names the owner. The text is read
  without the lock; the owner erases and writes it after `flock`, and clears it
  before unlocking. A refused caller may see nobody or the previous owner
  (`lease_refusal`). Mutual exclusion is not affected.
* `docs/semantic-events.md:63-65` and `mcp_transport.h:19` say a poll consumes only the
  matching cancellation. It frees every cancellation: one for a request that is still
  queued is lost, and that request later runs (`transport_cancel`).
* `docs/frame-state.md:66-69` says the pre-action threshold must be lower than the required
  post-action change, so that a caret blink is tolerated without accepting a stale
  baseline. The two numbers are fractions of different areas: a change inside a small
  region before the click stays below the whole-frame threshold and then satisfies the
  regional postcondition alone; `actionAttributed` is true (`verify_attribution`).
* `docs/semantic-events.md:58-59` says a timeout is a successful unchanged outcome. When the
  deadline passes while the window is validated or observed, the next wait refuses it and
  the call ends as a failed listener with `isError` (`change_deadline`).

Seen while translating, without a run: the line that overflows the pending queue is dropped,
and requests already buffered behind it are still executed (`mcp_transport.c:202`;
`NothingLostUnnoticed` is what does hold). A period is measured from the judgement
of its anchor to that of the last sample (`frame_settle.c:171`, `:175`): the two captures can lie
closer together than `stableMs`, and a settled verdict can come after the deadline when its
last validation is slow, though never on a sample judged after it (`VerdictInTime`). `sharedPointerMoved` is false when the pointer moved and the click then failed
(`frame_tools.c:408`). `docs/semantic-events.md:47-49` lets the target be validated before the
registration; the code registers first (`semantic_change.c:149`, `:67`). A change between the
capture and the registration is only noticed when a later event causes an observation.

A server that exits with a button pressed gives the lease up while the button is still recorded
(`main.c:210`, `:213`), and the button stays pressed. `release_control` refuses in that state
(`tools.c:1868`); for an exit nothing is promised.

The agent's mutations go by role and name (`tools.c:1724`). Three walks by child index that
agree do not exclude another element: if in each of them an index moved, or the located element
lost its name, an element that came to bear the name is bound and mutated. `NothingElseMutated`
says exactly when that cannot happen. `docs/semantic-actions.md:78-80` admits that a control can
relayout between the reading of its bounds and the invoke; then the cursor stands where the
element was (`layout.moved` in `IndicatedFirst`).

An observation compares two readings of its window (`tools.c:861-880`): one that left and came back
between them is not noticed (`returned` in `CaptureIsOfOneWindow`). With several windows of one
title in a process the tree lists the nodes of all of them, and the capture names no accessible
window (`semantic_state.c:106`): its nodes need not be the captured window's.

Hiding a cursor that is not in the client's table succeeds without a call. A cursor whose first
Show timed out is not in it and may stand all the same: `NoStrayCursor` counts it as reported
unknown (`uncertain`). A diff is comparable when both projections
are complete, as `docs/app-state.md:70-74` says. It does not ask whether both walks included off-screen
nodes, and a node whose state set cannot be read counts as not showing without making its walk
incomplete: both can report a change of an unchanged tree, and are conditions of
`DiffReportsChange`. Between the last comparison of a range's source
text and the application's execution nothing guards the user's edit: AT-SPI has no
compare-and-set (`edited = "late"` in `EarlierEditsKept`).

## 7. Proofs

For all values of the constants: any sets of servers, slots, buttons and cursors, windows and
rings of any size, any number of opens, events, changes, faults and calls.

| Theorem | Statement |
|---|---|
| `ControlLease_proofs!TypeCorrect` | `Spec => []TypeOK` |
| `LeaseIsExclusive` | `Spec => []MutualExclusion` |
| `ChildrenAreCovered` | `Spec => []ChildrenCovered` |
| `DependantsKeepLease` | `Spec => []DependantsNeedLease` |
| `OwnerTextIsGuarded` | `Spec => TextWrittenUnderLock` |
| `LeaseRefinement` | `Spec => ImplementsDesktopLease` |
| `McpTransport_proofs!Typed` | `Spec => []TypeOK` |
| `FirstInFirstOut` | `Spec => []LinesInOrder` |
| `NothingLost` | `Spec => []NothingLostUnnoticed` |
| `CleanEnd` | `Spec => []CleanEndAnswersAll` |
| `Interruption` | `Spec => InterruptedForCause` |
| `IsolatedSession_proofs!SessionTyped` | `Spec => []TypeOK` |
| `OwnResult` | `Spec => ResultIsOwn` |
| `InStepBetweenCalls` | `Spec => []SessionsInStep` |
| `IdsUnique` | `Spec => []IdsHandedOnce` |
| `FrameSettle_proofs!Typed` | `Spec => []TypeOK` |
| `OnlyTargetCompared` | `Spec => []FramesOfTarget` |
| `SettledStill` | `Spec => []SettledWasStill` |
| `VerdictTimely` | `Spec => []VerdictInTime` |
| `CancelBounded` | `Spec => []CancelStopsSampling` |
| `FrameTools_proofs!ToolTyped` | `ToolSpec => []ToolTypeOK` |
| `VerifiedTrue` | `ToolSpec => []VerifiedIsTrue` |
| `ClickIsFresh` | `ToolSpec => []ClickOnFreshTarget` |
| `DeliveryTold` | `ToolSpec => []DeliveryReported` |
| `SemanticChange_proofs!Typed` | `Spec => []TypeOK` |
| `TimeoutUnchanged` | `Spec => []TimeoutMeansUnchanged` |
| `CancelBounded` | `Spec => []CancelStopsObserving` |
| `ChangeOfTarget` | `Spec => []ChangeIsOfTarget` |
| `StorageLives` | `Spec => []StorageOutlivesRegistration` |
| `SemanticMutation_proofs!HonestOutcome` | `Spec => []OutcomeIsHonest` |
| `TargetIsLocated` | `Spec => []NothingElseMutated` |
| `SuccessIsTrue` | `Spec => SuccessIsObserved` |
| `RangeKeepsEdits` | `Spec => EarlierEditsKept` |
| `CursorPrecedesMutation` | `Spec => IndicatedFirst` |
| `CursorsAccounted` | `Spec => []NoStrayCursor` |
| `MutationTyped` | `Spec => [](ActionTypeOK /\ IndicatorTypeOK)` |
| `AppState_proofs!Typed` | `Spec => []TypeOK` |
| `RingOwnsProjections` | `Spec => []ProjectionsOwned` |
| `CapturesOneWindow` | `Spec => CaptureIsOfOneWindow` |
| `DiffInventsNothing` | `Spec => []DiffReportsChange` |

Assumptions, each named in the module that declares the constants: `MaxOpens` is a natural
number and the three "none" constants are outside the sets they are added to; no request
id is `NoId` (`NoIdAssumption`), and the limits of lines and queue, of slots, sessions,
requests and stray lines are natural numbers (`LimitsAssumption`, `BoundsAssumption`); time-out,
stable period and interval are positive, `MaxTime` is a natural number (`TimesAssumption`), and
nearness is reflexive and symmetric (`NearAssumption`); in `FrameTools` frames are sets of finitely
many pixels, near means equal, the region is not empty and the fractions are in range, the one
before the click below the one after it (`FractionsAssumption`); `Base` is a revision, `Torn` is none,
`Elsewhere` is no fingerprint, limits and times are positive; there is at least one node, `Goal` is a
text and `NoRequest` no request (`NodesAssumption`, `TextsAssumption`, `NoRequestAssumption`); the limits of the indicator are natural numbers
(`IndicatorAssumption`), and so is that of calls (`MutationAssumption`); the ring has a slot, and a
window can be somewhere (`HistoryAssumption`).

*ControlLease.* `IInv` strengthens the properties with what they silently rest on. Mutual
exclusion needs `HolderOwnsLock`: a server that believes it holds, or is between `flock`
and the end of `control_acquire`, has the OFD that owns the kernel lock; two servers never
have the same OFD (`OwnDescriptions`). `ChildrenCovered` needs `GroupsKeepLock`: a group of
processes that is alive keeps its OFD open, and as long as its parent lives the parent
holds the lease through the same OFD; that is why `ControlAdopt` cannot take a lock
that became free. `DependantsNeedLease` needs to know in which phases a server holds
(`PhasesOfHolding`); `OwnerTextIsGuarded` follows from `HolderOwnsLock` for the server whose thread
the step moves, and from the phase in which the text is written. The module has one lemma per action, and under it one step per
conjunct the action can disturb.

The refinement maps the abstract holder to the server whose OFD owns the lock. `AcquireFlock` is
the abstract Acquire; `ReleaseUnlock`, `AcquireAbandon` and the unlock at exit
(`CleanupUnlock`) are the abstract Release; the end of `main` and a crash are Die, the end of the last orphan is Drop, and every other step begins or
ends activity or stutters. A pressed button is activity while the server serves; `McpRunEnds` ends
it, because from there on nothing keeps the lease for the button's sake.

*McpTransport.* Order and loss are proved of the parts of the channel, not of their
concatenation: what was served, the queue, the buffer and the pipe ascend, each one and each
before the next (`OrderInv`), and a line is in one of them, was a cancellation, or the transport
failed (`LossInv`). Only a few actions move a line (`ChannelStep`), and `TakeEffect` says where
the line taken from the buffer goes. That it is a whole line is `FrameInv`: bodies and newlines
alternate in `buffer \o pipe`, which ends with a newline unless the host still owes one, and
the input only ends when the pipe of a host that is gone is empty. `AnswerInv` relates
the answers to the lines served before the one in hand; at the end of the input nothing is
in hand and nothing is left in the channel, hence `CleanEnd`. `WaitInv` says that a flag that
is set while a call waits was set for this call.

*IsolatedSession.* `OwnLines`: a line in the pipe of a slot was written by the session in the slot,
because clearing a slot drops its pipe. With `InSession` (a call is about the session in its
slot) and the comparison of ids in `ReadAnswer` that is `OwnResult`. `StepInv` says that only the
session of the call under way can owe an answer (`OneOutstanding`: its request is in the pipe, in work,
or answered), that every other one is `Quiet`, and that a call that failed leaves its session quiet or
broken, so that `ForwardFailed` and `StartFailed` stop the right ones. `IdInv`: ids in use and ids
handed out are below the counter.

*FrameSettle and FrameTools.* `TargetInv` says that between capture and judgement a replaced window
is still replaced, so that the validation after the capture finds it. `StillInv` carries the
period: its anchor is the oldest, judged first (`JudgedAnchor`), and near every other frame; success
follows a sample judged the stable time later, and none judged at the deadline or after
(`SuccessInv`). `LateInv` says that a timeout is found after the deadline. `CancelInv` follows the
capture under way at the cancellation to the check. The tools run the same wait: `InitReady` and
the lemmas of `FrameSettle_proofs` give its invariant in the composition; `ClickInv`
and `BeforeInv` order preflight, validation and click, `ReportInv` what is reported.

*SemanticChange.* `TimeoutUnchanged` rests on `LostInv`: a change that is not `missed` is at every
moment announced (on its way, counted but not looked at, or beyond a limit), about to be
observed, or in the observation itself. `ReadAnnounced` covers a change while the tree is read, and
`WaitClear` says that past the loop's own checks nothing is left to look at, so that a
deadline can only be reported when the change is still on its way. `CancelBounded` follows the
one late observation to the check of the cancellation on entry to the next wait. `ChangeOfTarget` needs
that the reading a change was seen in stays the current one, `StorageLives` the phases in which
the listener is registered.

*SemanticMutation.* The composition is first seen from the action (`StepOfAction`). `HonestInv`
relates the outcome to `sent`, `request`, `reply` and `executed`: before `Issue` nothing is on its way,
while a request is on its way it was not executed, and an answer says what became of it. `KidsInv`
says that identities are unique, come from a counter and are never used again. `SearchInv` follows a walk
for the target: by a locator only object 1 matches; by name, as long as the walk is steady, object 1
keeps the index it had when the count was read and was found if the walk is past it (`LocatedAt`), so that a
steady walk that ends with one hit found object 1 (`Steady`). `BoundInv` carries that from any of the three
walks to the dispatch, because the three matches are equal, and `match` equal to `bound` from the last
comparison on.
`ShownInv` says that no verifying element is remembered before one was looked at; `EditInv` that
from the check before dispatch until the application acts the element holds the text the range was
computed from, unless the user wrote after that check.

*AgentIndicator.* `BusInv` says that at most the last message on the bus is awaited, and by the call
under way. `PlaceInv` types the layout. `StandInv` carries a positive status to the tool that relies
on it: from a move that succeeded to the dispatch the cursor stood, in this call, where the element was
located (`op.at`), the element is still there unless it moved, and the window had not changed.
`StrayInv` covers every cursor that stands and every Show in the inbox: it is in the table or reported
unknown, the operation under way is about it, or further back in the inbox comes the notice that its
connection is gone (`CoveredBy`, `GoneAfter`). An answer that denies a cursor (`Denied`) means that the live
connection shows none, and so does a call that could not be sent (`Unshown`).
`MutationTyped` needs that a new cursor is only shown while the table has a slot for it (`TableInv`),
that an awaited call is still the last message (`AnswerInv`), and that a request under way is the one
that was sent (`RequestInv`).

*AppState.* `RingInv` says that ids are handed out once, that the heap holds those of the retained
window captures and that the capture to compare with stays retained until the new one is stored.
`WindowInv` says of the states in which image and nodes were read (`taken`): if the window is now as it
was resolved, it was so at every reading, or it has come back; that is what the second resolution
compares. It also says that every row is of a window that was listed, so that a capture which
names the only one holds no other's nodes (`Owed`). `DiffInv` says that a capture of the present tree that lost nothing has all its
records, and `WalkInv` the same of the walk under way.

Only model-checked: the liveness properties (`CallsReturn`, `LeaseFreedAfterDeath`, `CancelEndsCall`,
`HostGoneEnds`, `Returns`), because fairness and ENABLED are outside the prover's reach.

## 8. Not modelled

Rendering, encoding, OCR, argument parsing, message wording, vendored code and build
scripts. The lock file's ownership checks are one outcome of `AcquireOpenFails`: other users
and other programs that touch the file are outside the model. X11 buttons are what the
server records, not what the X server sees: that a button pressed through XTest stays
pressed when its server ends is not part of the state.

* `broker_contract.c` is a contract that nothing but its own test calls: a model of it would
  describe no behaviour of the server.
* `shell_bridge.c` asks the Shell for windows and monitors and keeps nothing between two
  calls. The identities it returns are only reported.
* The extension's `ClearAll` and unstyled `MoveCursor` have no caller in the server; its
  bridge service and its drawing are left out.
* `accessibility_focused_element` is a search that changes nothing. Attributes, values and
  bounds are data of a node.
* The keyboard, typing, scrolling, launching and window tools keep no state between calls.
* `extensions/deskpal.ts` is glue in another language, on the host's side.
