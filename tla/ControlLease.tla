---------------------------- MODULE ControlLease ----------------------------
(***************************************************************************)
(* Arbitration of the visible desktop between deskpal server processes     *)
(* (csrc/control.c) and everything whose correctness rests on it: the tool *)
(* dispatcher that acquires the lease lazily, the private Xvfb children    *)
(* that inherit the locked descriptor (csrc/sessions.c), mouse buttons     *)
(* left pressed between calls, and the order of clean-up in main().        *)
(*                                                                         *)
(* Processes interleave at system-call granularity.  flock() locks an open *)
(* file description (OFD): every open() makes a new one, fork() and exec() *)
(* share it, LOCK_UN through any descriptor of it unlocks it, and the      *)
(* kernel drops the lock when its last descriptor is closed.               *)
(***************************************************************************)
EXTENDS Naturals

CONSTANTS
  Server,     \* deskpal server processes started by MCP hosts
  Slot,       \* entries of g_sessions (MAX_ISOLATED_SESSIONS in the code)
  Button,     \* mouse buttons
  MaxOpens,   \* bound: times one server may open the lock file
  NoFd,       \* "no descriptor" and, for the lock, "unlocked"
  NoSlot,
  NoText      \* the lock file is empty

OFD == Server \X (1..MaxOpens)

ASSUME MaxOpensAssumption == MaxOpens \in Nat
ASSUME NoFdAssumption   == NoFd \notin OFD
ASSUME NoSlotAssumption == NoSlot \notin Slot
ASSUME NoTextAssumption == NoText \notin Server

VARIABLES
  lock,     \* OFD that owns the kernel lock
  text,     \* content of the lock file: the recorded owner
  opens,    \* open() calls made so far, per server
  ofd,      \* OFD behind the descriptor a server has open
  held,     \* g_control_fd >= 0
  down,     \* g_held_mouse_buttons
  used,     \* slots of g_sessions in use
  slot,     \* the slot the running handler is working on
  pc, call, \* where the single thread of a server is, and in which tool
  child,    \* state of the process group of a private session
  cofd      \* OFD that group inherited

vars == <<lock, text, opens, ofd, held, down, used, slot, pc, call, child, cofd>>
serverVars == <<opens, ofd, held, down, used, slot, pc, call>>
childVars  == <<child, cofd>>

\* Tools grouped by what they do to the lease: "act" is every mutation of the
\* visible desktop that leaves no button pressed, "spawn" is exec or launch_app
\* carrying a sessionId, "forward" any other tool carrying one, "read" the rest.
LockingTool == {"act", "drag", "mouse_down", "mouse_up",
                "launch_isolated_app", "spawn"}
Tool == LockingTool \cup {"forward", "close_isolated_session",
                          "release_control", "read"}

Phase == {"ready", "open", "flock", "refused", "locked", "erased", "handler",
           "await", "stop", "unlocking",
          "exiting", "exitstop", "exitunlock", "exitx11", "dead"}
Exiting == {"exiting", "exitstop", "exitunlock", "exitx11"}

\* "forked": before execv, holding a copy of the parent's descriptor;
\* "launcher": xvfb-run, its X server and the not yet adopted deskpal share fd 3;
\* "serving": control_adopt_fd succeeded; "leftover": the private server is gone,
\* xvfb-run and its X server are not; "none": no process of the group is left.
ChildPhase == {"none", "forked", "launcher", "serving", "leftover"}

-----------------------------------------------------------------------------
(* The kernel's part *)

\* An OFD is shared at most between the server that opened it and its children.
GroupsSharing(s, o) == {k \in Slot : child[s][k] # "none" /\ cofd[s][k] = o}

\* Closing a descriptor unlocks only when no other process has the OFD open.
LockAfterServerCloses(s) ==
  IF lock = ofd[s] /\ GroupsSharing(s, ofd[s]) = {} THEN NoFd ELSE lock

\* Fault: an application started by the child inherits the adopted descriptor.
LockAfterGroupEndsInherited(s, k) == lock

LockAfterGroupEnds(s, k) ==
  IF /\ lock = cofd[s][k]
     /\ ofd[s] # cofd[s][k]
     /\ GroupsSharing(s, cofd[s][k]) \subseteq {k}
  THEN NoFd ELSE lock

LockAfterUnlock(o) == IF lock = o THEN NoFd ELSE lock

Alive(s) == pc[s] # "dead"

Goto(s, p) == pc' = [pc EXCEPT ![s] = p] /\ UNCHANGED call

\* The handler is done; which tool it was no longer matters.
Return(s) == pc' = [pc EXCEPT ![s] = "ready"] /\ call' = [call EXCEPT ![s] = "read"]

-----------------------------------------------------------------------------
Init ==
  /\ lock = NoFd
  /\ text = NoText
  /\ opens = [s \in Server |-> 0]
  /\ ofd = [s \in Server |-> NoFd]
  /\ held = [s \in Server |-> FALSE]
  /\ down = [s \in Server |-> {}]
  /\ used = [s \in Server |-> {}]
  /\ slot = [s \in Server |-> NoSlot]
  /\ pc = [s \in Server |-> "ready"]
  /\ call = [s \in Server |-> "read"]
  /\ child = [s \in Server |-> [k \in Slot |-> "none"]]
  /\ cofd = [s \in Server |-> [k \in Slot |-> NoFd]]

(* handle_tools_call: the lease is acquired before the handler of a locking *)
(* tool runs, and kept; control_acquire returns at once when it is held.    *)
CallTool(s, t) ==
  /\ pc[s] = "ready"
  /\ call' = [call EXCEPT ![s] = t]
  /\ \/ /\ t \in LockingTool /\ ~held[s]
        /\ pc' = [pc EXCEPT ![s] = "open"]
     \/ /\ t \notin LockingTool \/ held[s]
        /\ pc' = [pc EXCEPT ![s] = "handler"]
  /\ UNCHANGED <<lock, text, opens, ofd, held, down, used, slot, childVars>>

-----------------------------------------------------------------------------
(* control_acquire *)

AcquireOpen(s) ==
  /\ pc[s] = "open"
  /\ opens[s] < MaxOpens
  /\ opens' = [opens EXCEPT ![s] = @ + 1]
  /\ ofd' = [ofd EXCEPT ![s] = <<s, opens[s] + 1>>]
  /\ Goto(s, "flock")
  /\ UNCHANGED <<lock, text, held, down, used, slot, childVars>>

\* open failed, or the file is not a private regular file of this user.
AcquireOpenFails(s) ==
  /\ pc[s] = "open"
  /\ Return(s)
  /\ UNCHANGED <<lock, text, opens, ofd, held, down, used, slot, childVars>>

\* Fault: the result of flock() is not looked at.
AcquireFlockUnchecked(s) ==
  /\ pc[s] = "flock"
  /\ lock' = IF lock = NoFd THEN ofd[s] ELSE lock
  /\ Goto(s, "locked")
  /\ UNCHANGED <<text, opens, ofd, held, down, used, slot, childVars>>

AcquireFlock(s) ==
  /\ pc[s] = "flock"
  /\ lock = NoFd
  /\ lock' = ofd[s]
  /\ Goto(s, "locked")
  /\ UNCHANGED <<text, opens, ofd, held, down, used, slot, childVars>>

\* Fault: flock() without LOCK_NB waits for the other owner.
AcquireFlockWaits(s) ==
  /\ pc[s] = "flock"
  /\ lock # NoFd
  /\ UNCHANGED vars

AcquireFlockBusy(s) ==
  /\ pc[s] = "flock"
  /\ lock # NoFd
  /\ Goto(s, "refused")
  /\ UNCHANGED <<lock, text, opens, ofd, held, down, used, slot, childVars>>

\* pread of the recorded owner, the error result, close.
AcquireRefused(s) ==
  /\ pc[s] = "refused"
  /\ ofd' = [ofd EXCEPT ![s] = NoFd]
  /\ lock' = LockAfterServerCloses(s)
  /\ Return(s)
  /\ UNCHANGED <<text, opens, held, down, used, slot, childVars>>

\* ftruncate
AcquireErase(s) ==
  /\ pc[s] = "locked"
  /\ text' = NoText
  /\ Goto(s, "erased")
  /\ UNCHANGED <<lock, opens, ofd, held, down, used, slot, childVars>>

\* pwrite
AcquireRecord(s) ==
  /\ pc[s] = "erased"
  /\ text' = s
  /\ held' = [held EXCEPT ![s] = TRUE]
  /\ Goto(s, "handler")
  /\ UNCHANGED <<lock, opens, ofd, down, used, slot, childVars>>

\* Either of the two failed.
AcquireAbandon(s) ==
  /\ pc[s] \in {"locked", "erased"}
  /\ lock' = LockAfterUnlock(ofd[s])
  /\ ofd' = [ofd EXCEPT ![s] = NoFd]
  /\ Return(s)
  /\ UNCHANGED <<text, opens, held, down, used, slot, childVars>>

-----------------------------------------------------------------------------
(* Handlers of the visible desktop *)

\* Read-only tools, actions that leave no button pressed, a forwarded call that
\* was answered or names no session, the three refusals of release_control, and
\* the errors every handler can end with: the lease and what needs it stay.
HandlerReturns(s) ==
  /\ pc[s] = "handler"
  /\ Return(s)
  /\ UNCHANGED <<lock, text, opens, ofd, held, down, used, slot, childVars>>

\* x11_drag ignores the result of the press and of the release.
HandleDrag(s, b) ==
  /\ pc[s] = "handler"
  /\ call[s] = "drag"
  /\ \E left \in {down[s] \ {b}, down[s] \cup {b}} :
       down' = [down EXCEPT ![s] = left]
  /\ Return(s)
  /\ UNCHANGED <<lock, text, opens, ofd, held, used, slot, childVars>>

HandleMouseDown(s, b) ==
  /\ pc[s] = "handler"
  /\ call[s] = "mouse_down"
  /\ down' = [down EXCEPT ![s] = @ \cup {b}]
  /\ Return(s)
  /\ UNCHANGED <<lock, text, opens, ofd, held, used, slot, childVars>>

HandleMouseUp(s, b) ==
  /\ pc[s] = "handler"
  /\ call[s] = "mouse_up"
  /\ down' = [down EXCEPT ![s] = @ \ {b}]
  /\ Return(s)
  /\ UNCHANGED <<lock, text, opens, ofd, held, used, slot, childVars>>

-----------------------------------------------------------------------------
(* release_control *)

\* Fault: a pressed mouse button does not keep the lease.
HandleReleaseIgnoringButtons(s) ==
  /\ pc[s] = "handler"
  /\ call[s] = "release_control"
  /\ held[s] /\ used[s] = {}
  /\ text' = NoText
  /\ Goto(s, "unlocking")
  /\ UNCHANGED <<lock, opens, ofd, held, down, used, slot, childVars>>

\* Fault: private sessions do not keep the lease.
HandleReleaseIgnoringSessions(s) ==
  /\ pc[s] = "handler"
  /\ call[s] = "release_control"
  /\ held[s] /\ down[s] = {}
  /\ text' = NoText
  /\ Goto(s, "unlocking")
  /\ UNCHANGED <<lock, opens, ofd, held, down, used, slot, childVars>>

\* Fault: the lock is given up first, the owner's name cleared afterwards.
HandleReleaseUnlockingFirst(s) ==
  /\ pc[s] = "handler"
  /\ call[s] = "release_control"
  /\ held[s] /\ used[s] = {} /\ down[s] = {}
  /\ \/ lock = ofd[s] /\ lock' = NoFd /\ UNCHANGED <<text, pc, call>>
     \/ lock # ofd[s] /\ text' = NoText /\ Goto(s, "unlocking") /\ UNCHANGED lock
  /\ UNCHANGED <<opens, ofd, held, down, used, slot, childVars>>

\* Nothing depends on the lease: the owner's name is cleared first.
HandleRelease(s) ==
  /\ pc[s] = "handler"
  /\ call[s] = "release_control"
  /\ held[s] /\ used[s] = {} /\ down[s] = {}
  /\ text' = NoText
  /\ Goto(s, "unlocking")
  /\ UNCHANGED <<lock, opens, ofd, held, down, used, slot, childVars>>

\* Fault: the closed descriptor stays in g_control_fd.
ReleaseUnlockKeepingFd(s) ==
  /\ pc[s] = "unlocking"
  /\ lock' = LockAfterUnlock(ofd[s])
  /\ ofd' = [ofd EXCEPT ![s] = NoFd]
  /\ Return(s)
  /\ UNCHANGED <<text, opens, held, down, used, slot, childVars>>

\* flock(LOCK_UN) and close
ReleaseUnlock(s) ==
  /\ pc[s] = "unlocking"
  /\ lock' = LockAfterUnlock(ofd[s])
  /\ ofd' = [ofd EXCEPT ![s] = NoFd]
  /\ held' = [held EXCEPT ![s] = FALSE]
  /\ Return(s)
  /\ UNCHANGED <<text, opens, down, used, slot, childVars>>

\* LOCK_UN failed: the lease stays, without a name.
ReleaseUnlockFails(s) ==
  /\ pc[s] = "unlocking"
  /\ Return(s)
  /\ UNCHANGED <<lock, text, opens, ofd, held, down, used, slot, childVars>>

-----------------------------------------------------------------------------
(* Private sessions, seen from the parent *)

\* start_session up to fork().
StartSession(s, k) ==
  /\ pc[s] = "handler"
  /\ call[s] = "launch_isolated_app"
  /\ k \notin used[s]
  /\ used' = [used EXCEPT ![s] = @ \cup {k}]
  /\ slot' = [slot EXCEPT ![s] = k]
  /\ child' = [child EXCEPT ![s][k] = "forked"]
  /\ cofd' = [cofd EXCEPT ![s][k] = ofd[s]]
  /\ Goto(s, "await")
  /\ UNCHANGED <<lock, text, opens, ofd, held, down>>

\* initialize and launch_app were both answered, so the child adopted the lease.
SessionStarted(s) ==
  /\ pc[s] = "await"
  /\ child[s][slot[s]] = "serving"
  /\ Return(s)
  /\ slot' = [slot EXCEPT ![s] = NoSlot]
  /\ UNCHANGED <<lock, text, opens, ofd, held, down, used, childVars>>

\* Timeout, exit, a malformed answer or a failed launch: at any moment.
SessionFailed(s) ==
  /\ pc[s] = "await"
  /\ Goto(s, "stop")
  /\ UNCHANGED <<lock, text, opens, ofd, held, down, used, slot, childVars>>

\* sessions_forward_tool found the session broken, or close_isolated_session.
BreakOrCloseSession(s, k) ==
  /\ pc[s] = "handler"
  /\ call[s] \in {"forward", "spawn", "close_isolated_session"}
  /\ k \in used[s]
  /\ slot' = [slot EXCEPT ![s] = k]
  /\ Goto(s, "stop")
  /\ UNCHANGED <<lock, text, opens, ofd, held, down, used, childVars>>

\* End of stop_session: SIGKILL to the whole group while its leader is unreaped,
\* reap, clear the slot.  The pipes were closed and SIGTERM sent when pc became
\* "stop" or "exitstop"; until this step the group may still run.
StopSession(s) ==
  /\ pc[s] \in {"stop", "exitstop"}
  /\ child' = [child EXCEPT ![s][slot[s]] = "none"]
  /\ lock' = LockAfterGroupEnds(s, slot[s])
  /\ used' = [used EXCEPT ![s] = @ \ {slot[s]}]
  /\ slot' = [slot EXCEPT ![s] = NoSlot]
  /\ \/ pc[s] = "stop" /\ Return(s)
     \/ pc[s] = "exitstop" /\ Goto(s, "exiting")
  /\ UNCHANGED <<text, opens, ofd, held, down, cofd>>

-----------------------------------------------------------------------------
(* The private child's side *)

\* control_export_to_fd(3) and the exec chain up to the second main().
ChildExec(s, k) ==
  /\ child[s][k] = "forked"
  /\ child' = [child EXCEPT ![s][k] = "launcher"]
  /\ UNCHANGED <<lock, text, serverVars, cofd>>

\* control_adopt_fd: flock on the inherited OFD succeeds when that OFD owns the
\* lock already and also when nobody does.
ControlAdopt(s, k) ==
  /\ child[s][k] = "launcher"
  /\ lock \in {NoFd, cofd[s][k]}
  /\ lock' = cofd[s][k]
  /\ child' = [child EXCEPT ![s][k] = "serving"]
  /\ UNCHANGED <<text, serverVars, cofd>>

ControlAdoptFails(s, k) ==
  /\ child[s][k] = "launcher"
  /\ child' = [child EXCEPT ![s][k] = "leftover"]
  /\ UNCHANGED <<lock, text, serverVars, cofd>>

\* End of input after the parent closed the pipe or died, SIGTERM, or a crash:
\* control_cleanup closes the adopted descriptor and never unlocks.
ChildServerExits(s, k) ==
  /\ child[s][k] = "serving"
  /\ child' = [child EXCEPT ![s][k] = "leftover"]
  /\ UNCHANGED <<lock, text, serverVars, cofd>>

\* xvfb-run stops its X server and exits; or fork's child failed before execv.
GroupExits(s, k) ==
  /\ child[s][k] \in {"forked", "leftover"}
  /\ child' = [child EXCEPT ![s][k] = "none"]
  /\ lock' = LockAfterGroupEnds(s, k)
  /\ UNCHANGED <<text, serverVars, cofd>>

-----------------------------------------------------------------------------
(* The end of a server *)

\* mcp_run returned: end of input, a transport failure or a failed send.
McpRunEnds(s) ==
  /\ pc[s] = "ready"
  /\ Goto(s, "exiting")
  /\ UNCHANGED <<lock, text, opens, ofd, held, down, used, slot, childVars>>

\* sessions_cleanup_all, one slot at a time.
CleanupSession(s, k) ==
  /\ pc[s] = "exiting"
  /\ k \in used[s]
  /\ slot' = [slot EXCEPT ![s] = k]
  /\ Goto(s, "exitstop")
  /\ UNCHANGED <<lock, text, opens, ofd, held, down, used, childVars>>

\* Fault: control_cleanup runs before sessions_cleanup_all.
CleanupEraseEarly(s) ==
  /\ pc[s] = "exiting"
  /\ \/ held[s] /\ text' = NoText
     \/ UNCHANGED text
  /\ Goto(s, "exitunlock")
  /\ UNCHANGED <<lock, opens, ofd, held, down, used, slot, childVars>>

\* control_cleanup: the owner text is cleared first, if that succeeds.
CleanupErase(s) ==
  /\ pc[s] = "exiting"
  /\ used[s] = {}
  /\ \/ held[s] /\ text' = NoText
     \/ UNCHANGED text
  /\ Goto(s, "exitunlock")
  /\ UNCHANGED <<lock, opens, ofd, held, down, used, slot, childVars>>

\* LOCK_UN and close.
CleanupUnlock(s) ==
  /\ pc[s] = "exitunlock"
  /\ lock' = IF held[s] THEN LockAfterUnlock(ofd[s]) ELSE lock
  /\ ofd' = [ofd EXCEPT ![s] = NoFd]
  /\ held' = [held EXCEPT ![s] = FALSE]
  /\ Goto(s, "exitx11")
  /\ UNCHANGED <<text, opens, down, used, slot, childVars>>

\* x11_cleanup forgets the pressed buttons without releasing them; main returns.
CleanupX11(s) ==
  /\ pc[s] = "exitx11"
  /\ down' = [down EXCEPT ![s] = {}]
  /\ Goto(s, "dead")
  /\ UNCHANGED <<lock, text, opens, ofd, held, used, slot, childVars>>

\* SIGKILL or a fault anywhere: the kernel closes the descriptors.
ServerCrash(s) ==
  /\ Alive(s)
  /\ lock' = LockAfterServerCloses(s)
  /\ ofd' = [ofd EXCEPT ![s] = NoFd]
  /\ held' = [held EXCEPT ![s] = FALSE]
  /\ down' = [down EXCEPT ![s] = {}]
  /\ used' = [used EXCEPT ![s] = {}]
  /\ slot' = [slot EXCEPT ![s] = NoSlot]
  /\ pc' = [pc EXCEPT ![s] = "dead"]
  /\ call' = [call EXCEPT ![s] = "read"]
  /\ UNCHANGED <<text, opens, childVars>>

-----------------------------------------------------------------------------
AcquireStep(s) ==
  \/ AcquireOpen(s) \/ AcquireOpenFails(s)
  \/ AcquireFlock(s) \/ AcquireFlockBusy(s) \/ AcquireRefused(s)
  \/ AcquireErase(s) \/ AcquireRecord(s) \/ AcquireAbandon(s)

HandlerStep(s) ==
  \/ HandlerReturns(s)
  \/ HandleRelease(s) \/ ReleaseUnlock(s) \/ ReleaseUnlockFails(s)
  \/ SessionStarted(s) \/ SessionFailed(s) \/ StopSession(s)
  \/ \E b \in Button :
       HandleDrag(s, b) \/ HandleMouseDown(s, b) \/ HandleMouseUp(s, b)
  \/ \E k \in Slot : StartSession(s, k) \/ BreakOrCloseSession(s, k)

ExitStep(s) ==
  \/ CleanupErase(s) \/ CleanupUnlock(s) \/ CleanupX11(s)
  \/ \E k \in Slot : CleanupSession(s, k)

ChildStarts(s, k) ==
  ChildExec(s, k) \/ ControlAdopt(s, k) \/ ControlAdoptFails(s, k)
ChildEnds(s, k) == ChildServerExits(s, k) \/ GroupExits(s, k)

Next ==
  \E s \in Server :
    \/ \E t \in Tool : CallTool(s, t)
    \/ AcquireStep(s) \/ HandlerStep(s)
    \/ McpRunEnds(s) \/ ExitStep(s) \/ ServerCrash(s)
    \/ \E k \in Slot : ChildStarts(s, k) \/ ChildEnds(s, k)

Spec == Init /\ [][Next]_vars

(* Handlers are bounded in time, a started child keeps running, and a child *)
(* whose parent is gone reads end of input and leaves.  Nothing is assumed   *)
(* about hosts: no call need ever arrive and no server need ever exit.       *)
Fairness ==
  /\ \A s \in Server : WF_vars(AcquireStep(s) \/ HandlerStep(s) \/ ExitStep(s))
  /\ \A s \in Server : \A k \in Slot :
       /\ WF_vars(ChildStarts(s, k))
       /\ WF_vars(~Alive(s) /\ ChildServerExits(s, k))
       /\ WF_vars(GroupExits(s, k))

FairSpec == Spec /\ Fairness

-----------------------------------------------------------------------------
(* Properties *)

Ranges ==
  /\ lock \in OFD \cup {NoFd}
  /\ text \in Server \cup {NoText}
  /\ opens \in [Server -> 0..MaxOpens]
  /\ ofd \in [Server -> OFD \cup {NoFd}]
  /\ held \in [Server -> BOOLEAN]
  /\ down \in [Server -> SUBSET Button]
  /\ used \in [Server -> SUBSET Slot]
  /\ slot \in [Server -> Slot \cup {NoSlot}]
  /\ pc \in [Server -> Phase]
  /\ call \in [Server -> Tool]
  /\ child \in [Server -> [Slot -> ChildPhase]]
  /\ cofd \in [Server -> [Slot -> OFD \cup {NoFd}]]

\* A handler works on a slot exactly while it waits for or stops a session, and
\* that slot is in use: stop_session never meets a slot it already cleared.
SlotInUse ==
  \A s \in Server :
    /\ slot[s] \in Slot <=> pc[s] \in {"await", "stop", "exitstop"}
    /\ slot[s] \in Slot => slot[s] \in used[s]

\* The variables are in their ranges, the slot variable is meaningful exactly
\* where it is used, and g_control_fd never names a closed descriptor.
TypeOK ==
  /\ Ranges
  /\ SlotInUse
  /\ \A s \in Server : held[s] => ofd[s] # NoFd

\* Two servers never believe they hold the visible desktop at the same time.
MutualExclusion ==
  \A s, t \in Server : held[s] /\ held[t] => s = t

\* A private child answers tool calls only while the description it inherited
\* owns the kernel lock, and never without its living parent holding the lease:
\* no other server can take the desktop while a private session runs, not even
\* after the parent crashed.
ChildrenCovered ==
  \A s \in Server, k \in Slot :
    child[s][k] = "serving" =>
      /\ lock = cofd[s][k]
      /\ Alive(s) => held[s]

\* The lease outlives what depends on it: a session slot in use implies that the
\* server still holds the desktop, and so does a pressed button, except between
\* control_cleanup and x11_cleanup of a server that exits with the button down.
DependantsNeedLease ==
  \A s \in Server :
    used[s] # {} \/ (down[s] # {} /\ pc[s] # "exitx11") => held[s]

\* The owner text is changed only by a thread whose own descriptor owns the kernel
\* lock at that moment, to its own name or to nothing: a former owner that cleared
\* it after unlocking would erase the name of the next.  The writer is the one
\* server whose thread the step moves.
WriteUnderLock ==
  \E s \in Server :
    /\ pc'[s] # pc[s] /\ \A t \in Server \ {s} : pc'[t] = pc[t]
    /\ lock = ofd[s] /\ lock # NoFd
    /\ text' \in {s, NoText}

TextWrittenUnderLock == [][WriteUnderLock]_text

\* Refinement: the abstract holder is the server that opened the locked OFD, and
\* a client is active while it mutates the visible desktop, serves with a button
\* pressed or has a serving private child.
Active(s) ==
  \/ pc[s] = "handler" /\ call[s] \in LockingTool
  \/ down[s] # {} /\ pc[s] \notin Exiting
  \/ \E k \in Slot : child[s][k] = "serving"

Abstract == INSTANCE DesktopLease WITH
  Client <- Server,
  None   <- NoText,
  alive  <- {s \in Server : Alive(s)},
  holder <- IF lock = NoFd THEN NoText ELSE lock[1],
  active <- {s \in Server : Active(s)}

\* Descriptors, processes and the lock file implement the abstract lease.
ImplementsDesktopLease == Abstract!LeaseSpec

\* Whatever a server leaves behind when it exits or crashes, the desktop becomes
\* free again (or someone else's): the children notice and go.
LeaseFreedAfterDeath ==
  \A s \in Server : []<>(Alive(s) \/ lock = NoFd \/ lock[1] # s)

\* A tool call never waits for the lease or for a child that does not answer.
CallsReturn ==
  \A s \in Server : []<>(pc[s] \in {"ready", "dead"})

\* README.md:252-254 promises that a refused call names the owner.
RefusalNamesOwner ==
  [][\A s \in Server :
        pc[s] = "refused" /\ pc'[s] = "ready" /\ lock # NoFd => text = lock[1]]_vars
=============================================================================
