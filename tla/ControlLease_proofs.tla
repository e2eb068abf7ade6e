------------------------ MODULE ControlLease_proofs ------------------------
(***************************************************************************)
(* Proofs about ControlLease, for every set of servers, slots and buttons: *)
(* its inductive invariant, and that it implements DesktopLease, since     *)
(* every step of a server, of one of its children or of the kernel is a    *)
(* step of the abstract lease or leaves the abstract state alone.          *)
(***************************************************************************)
EXTENDS ControlLease, TLAPS

\* From a successful flock() to the unlock, and as long as g_control_fd is set,
\* the server's own open file description owns the kernel lock.
HolderOwnsLock ==
  \A s \in Server :
    held[s] \/ pc[s] \in {"locked", "erased"} =>
      lock = ofd[s] /\ ofd[s] # NoFd

\* open() makes a description nobody else has; children only get their parent's.
OwnDescriptions ==
  /\ \A s \in Server : ofd[s] # NoFd => ofd[s][1] = s
  /\ \A s \in Server, k \in Slot :
       child[s][k] # "none" => cofd[s][k] # NoFd /\ cofd[s][k][1] = s

\* A process group of a private session keeps the kernel lock; while its parent
\* lives it is the parent's own description and the parent knows of it.
GroupsKeepLock ==
  \A s \in Server, k \in Slot :
    child[s][k] # "none" =>
      /\ lock = cofd[s][k]
      /\ Alive(s) => k \in used[s] /\ cofd[s][k] = ofd[s]

\* Where control is in a server determines what it may hold.
PhasesOfHolding ==
  \A s \in Server :
    /\ pc[s] \in {"open", "flock", "refused", "locked", "erased", "exitx11", "dead"} => ~held[s]
    /\ pc[s] = "unlocking" => held[s] /\ used[s] = {} /\ down[s] = {}
    /\ pc[s] \in {"exitunlock", "exitx11"} => used[s] = {}
    /\ pc[s] = "handler" /\ call[s] \in LockingTool => held[s]

\* Between open() and close() the server has a descriptor.
OpenInPhases ==
  \A s \in Server : pc[s] \in {"flock", "refused", "unlocking"} => ofd[s] # NoFd

\* The inductive invariant: what the properties need beyond themselves is that
\* the lock stays with the description its holder opened and that process groups
\* of sessions pin it there.
IInv ==
  /\ Ranges
  /\ SlotInUse
  /\ HolderOwnsLock
  /\ OwnDescriptions
  /\ GroupsKeepLock
  /\ DependantsNeedLease
  /\ PhasesOfHolding
  /\ OpenInPhases

-----------------------------------------------------------------------------
\* Most steps compare a description with "no descriptor".
USE NoFdAssumption

\* The inductive invariant holds initially.
LEMMA InitHolds == Init => IInv
BY NoFdAssumption, NoSlotAssumption, MaxOpensAssumption
   DEF Init, IInv, Ranges, SlotInUse, HolderOwnsLock, OwnDescriptions, GroupsKeepLock,
       DependantsNeedLease, PhasesOfHolding, OpenInPhases, Phase, ChildPhase, Tool,
       LockingTool, Alive

\* A living server that stops one of its sessions holds the lease, so the lock
\* does not move when the group ends.
LEMMA StopKeepsLock ==
  ASSUME IInv, NEW s \in Server, StopSession(s)
  PROVE  slot[s] \in Slot /\ lock' = lock
<1> USE DEF IInv, StopSession
<1>1. slot[s] \in Slot /\ Alive(s)
  BY DEF SlotInUse, Alive
<1>2. held[s] /\ lock = ofd[s]
  BY <1>1 DEF SlotInUse, DependantsNeedLease, HolderOwnsLock
<1> QED
  BY <1>1, <1>2 DEF LockAfterGroupEnds

\* A living server without the lease has no process group of a session.
LEMMA NoGroupsWithoutLease ==
  ASSUME IInv, NEW s \in Server, Alive(s), ~held[s]
  PROVE  \A k \in Slot : child[s][k] = "none"
BY DEF IInv, GroupsKeepLock, DependantsNeedLease

\* If the lock is on the description of one server, no other server is anywhere
\* near holding it and none of their children is alive.
LEMMA LockOwner ==
  ASSUME IInv, NEW s \in Server, lock = ofd[s], ofd[s] # NoFd
  PROVE  \A t \in Server \ {s} :
           /\ ~held[t] /\ pc[t] \notin {"locked", "erased"}
           /\ \A k \in Slot : child[t][k] = "none"
BY DEF IInv, HolderOwnsLock, OwnDescriptions, GroupsKeepLock

\* Dependants keep the lease in a step of a thread that is not past giving it up.
LEMMA DependantsStay ==
  ASSUME DependantsNeedLease, NEW s \in Server, pc[s] # "exitx11",
         \A t \in Server \ {s} : pc'[t] = pc[t],
         held' = held, down' = down, used' = used
  PROVE  DependantsNeedLease'
BY DEF DependantsNeedLease

\* Only the program counter and the tool of one server change.
LEMMA ControlOnlyStep ==
  ASSUME IInv, NEW s \in Server,
         AcquireOpenFails(s) \/ AcquireFlockBusy(s) \/ HandlerReturns(s)
         \/ ReleaseUnlockFails(s) \/ SessionFailed(s) \/ McpRunEnds(s)
  PROVE  IInv'
<1> USE DEF IInv, AcquireOpenFails, AcquireFlockBusy, HandlerReturns, ReleaseUnlockFails,
      SessionFailed, McpRunEnds, Goto, Return, childVars
<1>1. Ranges'
  BY DEF Ranges, Phase, Tool, LockingTool
<1>2. SlotInUse'
  BY DEF Ranges, SlotInUse
<1>3. HolderOwnsLock'
  BY DEF Ranges, HolderOwnsLock
<1>4. GroupsKeepLock'
  BY DEF Ranges, GroupsKeepLock, Alive
<1>5. OpenInPhases'
  BY DEF Ranges, OpenInPhases
<1>6. PhasesOfHolding'
  BY DEF Ranges, PhasesOfHolding
<1>7. OwnDescriptions'
  BY DEF Ranges, OwnDescriptions
<1>8. DependantsNeedLease'
  <2>1. pc[s] # "exitx11" /\ \A u \in Server \ {s} : pc'[u] = pc[u]
    BY DEF Ranges
  <2> QED
    BY <2>1, DependantsStay
<1> QED
  BY <1>1, <1>2, <1>3, <1>4, <1>5, <1>6, <1>7, <1>8

\* Steps that erase the owner text and move on.
LEMMA TextOnlyStep ==
  ASSUME IInv, NEW s \in Server,
         AcquireErase(s) \/ HandleRelease(s) \/ CleanupErase(s)
  PROVE  IInv'
<1> USE DEF IInv, AcquireErase, HandleRelease, CleanupErase, Goto, Return, childVars
<1>1. Ranges'
  BY DEF Ranges, Phase, Tool, LockingTool
<1>2. SlotInUse'
  BY DEF Ranges, SlotInUse
<1>3. HolderOwnsLock'
  BY DEF Ranges, HolderOwnsLock
<1>4. GroupsKeepLock'
  BY DEF Ranges, GroupsKeepLock, Alive
<1>5. OpenInPhases'
  BY DEF Ranges, OpenInPhases, HolderOwnsLock
<1>6. PhasesOfHolding'
  BY DEF Ranges, PhasesOfHolding
<1>7. OwnDescriptions'
  BY DEF Ranges, OwnDescriptions
<1>8. DependantsNeedLease'
  <2>1. pc[s] # "exitx11" /\ \A u \in Server \ {s} : pc'[u] = pc[u]
    BY DEF Ranges
  <2> QED
    BY <2>1, DependantsStay
<1> QED
  BY <1>1, <1>2, <1>3, <1>4, <1>5, <1>6, <1>7, <1>8

\* The dispatcher: handlers of locking tools start only with the lease.
LEMMA CallToolStep ==
  ASSUME IInv, NEW s \in Server, NEW t \in Tool, CallTool(s, t)
  PROVE  IInv'
<1> USE DEF IInv, CallTool, childVars
<1>1. Ranges'
  BY DEF Ranges, Phase, Tool, LockingTool
<1>2. SlotInUse'
  BY DEF Ranges, SlotInUse
<1>3. HolderOwnsLock'
  BY DEF Ranges, HolderOwnsLock
<1>4. GroupsKeepLock'
  BY DEF Ranges, GroupsKeepLock, Alive
<1>5. OpenInPhases'
  BY DEF Ranges, OpenInPhases
<1>6. PhasesOfHolding'
  BY DEF Ranges, PhasesOfHolding
<1>7. OwnDescriptions'
  BY DEF Ranges, OwnDescriptions
<1>8. DependantsNeedLease'
  <2>1. pc[s] # "exitx11" /\ \A u \in Server \ {s} : pc'[u] = pc[u]
    BY DEF Ranges
  <2> QED
    BY <2>1, DependantsStay
<1> QED
  BY <1>1, <1>2, <1>3, <1>4, <1>5, <1>6, <1>7, <1>8

\* A new description belongs to the server that opened it.
LEMMA AcquireOpenStep ==
  ASSUME IInv, NEW s \in Server, AcquireOpen(s)
  PROVE  IInv'
<1> USE DEF IInv, AcquireOpen, Goto, childVars
<1>1. Ranges'
  BY MaxOpensAssumption DEF Ranges, OFD, Phase
<1>2. SlotInUse'
  BY DEF Ranges, SlotInUse
<1>3. HolderOwnsLock'
  BY DEF Ranges, HolderOwnsLock, PhasesOfHolding
<1>4. OwnDescriptions'
  BY DEF Ranges, OwnDescriptions
<1>5. GroupsKeepLock'
  BY DEF Ranges, GroupsKeepLock, OwnDescriptions, HolderOwnsLock, PhasesOfHolding,
         DependantsNeedLease, Alive
<1>6. OpenInPhases'
  BY MaxOpensAssumption DEF Ranges, OpenInPhases, OFD
<1>7. PhasesOfHolding'
  BY DEF Ranges, PhasesOfHolding
<1>8. DependantsNeedLease'
  BY DEF DependantsNeedLease
<1> QED
  BY <1>1, <1>2, <1>3, <1>4, <1>5, <1>6, <1>7, <1>8

\* The lock was free, so nobody else was between flock() and the unlock.
LEMMA AcquireFlockStep ==
  ASSUME IInv, NEW s \in Server, AcquireFlock(s)
  PROVE  IInv'
<1> USE DEF IInv, AcquireFlock, Goto, childVars
<1>1. Ranges'
  BY DEF Ranges, Phase
<1>2. SlotInUse'
  BY DEF Ranges, SlotInUse
<1>3. HolderOwnsLock'
  <2>1. \A t \in Server : ~held[t] /\ pc[t] \notin {"locked", "erased"}
    BY DEF HolderOwnsLock
  <2> QED
    BY <2>1 DEF Ranges, HolderOwnsLock, OpenInPhases
<1>4. GroupsKeepLock'
  BY DEF Ranges, GroupsKeepLock, OwnDescriptions, Alive
<1>5. OpenInPhases'
  BY DEF Ranges, OpenInPhases
<1>6. PhasesOfHolding'
  BY DEF Ranges, PhasesOfHolding
<1>7. OwnDescriptions' /\ DependantsNeedLease'
  BY DEF OwnDescriptions, DependantsNeedLease
<1> QED
  BY <1>1, <1>2, <1>3, <1>4, <1>5, <1>6, <1>7

\* The refused server closes a description it never shared.
LEMMA AcquireRefusedStep ==
  ASSUME IInv, NEW s \in Server, AcquireRefused(s)
  PROVE  IInv'
<1> USE DEF IInv, AcquireRefused, Return, childVars, LockAfterServerCloses, GroupsSharing
<1>1. Ranges'
  BY DEF Ranges, OFD, Phase, Tool, LockingTool
<1>2. SlotInUse'
  BY DEF Ranges, SlotInUse
<1>3. HolderOwnsLock'
  <2>1. lock = ofd[s] /\ ofd[s] # NoFd =>
          \A t \in Server \ {s} : ~held[t] /\ pc[t] \notin {"locked", "erased"}
    BY LockOwner
  <2>2. ~held'[s] /\ pc'[s] = "ready"
    BY DEF Ranges, PhasesOfHolding
  <2> QED
    BY <2>1, <2>2 DEF Ranges, HolderOwnsLock
<1>4. OwnDescriptions'
  BY DEF Ranges, OwnDescriptions
<1>5. GroupsKeepLock'
  <2>1. \A k \in Slot : child[s][k] = "none"
    BY NoGroupsWithoutLease DEF PhasesOfHolding, Alive
  <2>2. lock = ofd[s] /\ ofd[s] # NoFd =>
          \A t \in Server \ {s}, k \in Slot : child[t][k] = "none"
    BY LockOwner
  <2> QED
    BY <2>1, <2>2 DEF Ranges, GroupsKeepLock, OwnDescriptions, Alive
<1>6. OpenInPhases'
  BY DEF Ranges, OpenInPhases
<1>7. PhasesOfHolding'
  BY DEF Ranges, PhasesOfHolding
<1>8. DependantsNeedLease'
  BY DEF DependantsNeedLease
<1> QED
  BY <1>1, <1>2, <1>3, <1>4, <1>5, <1>6, <1>7, <1>8

\* g_control_fd is set while the lock is owned.
LEMMA AcquireRecordStep ==
  ASSUME IInv, NEW s \in Server, AcquireRecord(s)
  PROVE  IInv'
<1> USE DEF IInv, AcquireRecord, Goto, childVars
<1>1. Ranges'
  BY DEF Ranges, Phase
<1>2. SlotInUse'
  BY DEF Ranges, SlotInUse
<1>3. HolderOwnsLock'
  BY DEF Ranges, HolderOwnsLock
<1>4. GroupsKeepLock'
  BY DEF Ranges, GroupsKeepLock, Alive
<1>5. DependantsNeedLease'
  BY DEF Ranges, DependantsNeedLease
<1>6. OpenInPhases'
  BY DEF Ranges, OpenInPhases
<1>7. PhasesOfHolding'
  BY DEF Ranges, PhasesOfHolding
<1>8. OwnDescriptions'
  BY DEF OwnDescriptions
<1> QED
  BY <1>1, <1>2, <1>3, <1>4, <1>5, <1>6, <1>7, <1>8

\* Unlocking again after the owner could not be recorded.
LEMMA AcquireAbandonStep ==
  ASSUME IInv, NEW s \in Server, AcquireAbandon(s)
  PROVE  IInv'
<1> USE DEF IInv, AcquireAbandon, Return, childVars, LockAfterUnlock
<1>1. Ranges'
  BY DEF Ranges, OFD, Phase, Tool, LockingTool
<1>2. SlotInUse'
  BY DEF Ranges, SlotInUse
<1>3. HolderOwnsLock'
  <2>1. lock = ofd[s] /\ ofd[s] # NoFd =>
          \A t \in Server \ {s} : ~held[t] /\ pc[t] \notin {"locked", "erased"}
    BY LockOwner
  <2>2. ~held'[s] /\ pc'[s] = "ready"
    BY DEF Ranges, PhasesOfHolding
  <2> QED
    BY <2>1, <2>2 DEF Ranges, HolderOwnsLock
<1>4. OwnDescriptions'
  BY DEF Ranges, OwnDescriptions
<1>5. GroupsKeepLock'
  <2>1. \A k \in Slot : child[s][k] = "none"
    BY NoGroupsWithoutLease DEF PhasesOfHolding, Alive
  <2>2. lock = ofd[s] /\ ofd[s] # NoFd =>
          \A t \in Server \ {s}, k \in Slot : child[t][k] = "none"
    BY LockOwner
  <2> QED
    BY <2>1, <2>2 DEF Ranges, GroupsKeepLock, OwnDescriptions, Alive
<1>6. OpenInPhases'
  BY DEF Ranges, OpenInPhases
<1>7. PhasesOfHolding'
  BY DEF Ranges, PhasesOfHolding
<1>8. DependantsNeedLease'
  BY DEF DependantsNeedLease
<1> QED
  BY <1>1, <1>2, <1>3, <1>4, <1>5, <1>6, <1>7, <1>8

\* Only a holder presses a button.
LEMMA HandleDragStep ==
  ASSUME IInv, NEW s \in Server, NEW b \in Button, HandleDrag(s, b)
  PROVE  IInv'
<1> USE DEF IInv, HandleDrag, Return, childVars
<1>1. Ranges'
  BY DEF Ranges, Phase, Tool, LockingTool
<1>2. SlotInUse'
  BY DEF Ranges, SlotInUse
<1>3. HolderOwnsLock'
  BY DEF Ranges, HolderOwnsLock
<1>4. GroupsKeepLock'
  BY DEF Ranges, GroupsKeepLock, Alive
<1>5. DependantsNeedLease'
  <2>1. held[s]
    BY DEF PhasesOfHolding, LockingTool
  <2>2. \A t \in Server \ {s} : down'[t] = down[t]
    BY DEF Ranges
  <2> QED
    BY <2>1, <2>2 DEF DependantsNeedLease
<1>6. OpenInPhases'
  BY DEF Ranges, OpenInPhases
<1>7. PhasesOfHolding'
  BY DEF Ranges, PhasesOfHolding
<1>8. OwnDescriptions'
  BY DEF OwnDescriptions
<1> QED
  BY <1>1, <1>2, <1>3, <1>4, <1>5, <1>6, <1>7, <1>8

\* The step HandleMouseDown preserves the invariant.
LEMMA HandleMouseDownStep ==
  ASSUME IInv, NEW s \in Server, NEW b \in Button, HandleMouseDown(s, b)
  PROVE  IInv'
<1> USE DEF IInv, HandleMouseDown, Return, childVars
<1>1. Ranges'
  BY DEF Ranges, Phase, Tool, LockingTool
<1>2. SlotInUse'
  BY DEF Ranges, SlotInUse
<1>3. HolderOwnsLock'
  BY DEF Ranges, HolderOwnsLock
<1>4. GroupsKeepLock'
  BY DEF Ranges, GroupsKeepLock, Alive
<1>5. DependantsNeedLease'
  <2>1. held[s]
    BY DEF PhasesOfHolding, LockingTool
  <2>2. \A t \in Server \ {s} : down'[t] = down[t]
    BY DEF Ranges
  <2> QED
    BY <2>1, <2>2 DEF DependantsNeedLease
<1>6. OpenInPhases'
  BY DEF Ranges, OpenInPhases
<1>7. PhasesOfHolding'
  BY DEF Ranges, PhasesOfHolding
<1>8. OwnDescriptions'
  BY DEF OwnDescriptions
<1> QED
  BY <1>1, <1>2, <1>3, <1>4, <1>5, <1>6, <1>7, <1>8

\* The step HandleMouseUp preserves the invariant.
LEMMA HandleMouseUpStep ==
  ASSUME IInv, NEW s \in Server, NEW b \in Button, HandleMouseUp(s, b)
  PROVE  IInv'
<1> USE DEF IInv, HandleMouseUp, Return, childVars
<1>1. Ranges'
  BY DEF Ranges, Phase, Tool, LockingTool
<1>2. SlotInUse'
  BY DEF Ranges, SlotInUse
<1>3. HolderOwnsLock'
  BY DEF Ranges, HolderOwnsLock
<1>4. GroupsKeepLock'
  BY DEF Ranges, GroupsKeepLock, Alive
<1>5. DependantsNeedLease'
  BY DEF Ranges, DependantsNeedLease
<1>6. OpenInPhases'
  BY DEF Ranges, OpenInPhases
<1>7. PhasesOfHolding'
  BY DEF Ranges, PhasesOfHolding
<1>8. OwnDescriptions'
  BY DEF OwnDescriptions
<1> QED
  BY <1>1, <1>2, <1>3, <1>4, <1>5, <1>6, <1>7, <1>8

\* Nothing of the server depends on the lease any more.
LEMMA ReleaseUnlockStep ==
  ASSUME IInv, NEW s \in Server, ReleaseUnlock(s)
  PROVE  IInv'
<1> USE DEF IInv, ReleaseUnlock, Return, childVars, LockAfterUnlock
<1>1. Ranges'
  BY DEF Ranges, OFD, Phase, Tool, LockingTool
<1>2. SlotInUse'
  BY DEF Ranges, SlotInUse
<1>3. HolderOwnsLock'
  <2>1. lock = ofd[s] /\ ofd[s] # NoFd =>
          \A t \in Server \ {s} : ~held[t] /\ pc[t] \notin {"locked", "erased"}
    BY LockOwner
  <2>2. ~held'[s] /\ pc'[s] = "ready"
    BY DEF Ranges
  <2> QED
    BY <2>1, <2>2 DEF Ranges, HolderOwnsLock
<1>4. OwnDescriptions'
  BY DEF Ranges, OwnDescriptions
<1>5. GroupsKeepLock'
  <2>1. \A k \in Slot : child[s][k] = "none"
    BY DEF PhasesOfHolding, GroupsKeepLock, Alive
  <2>2. lock = ofd[s] /\ ofd[s] # NoFd =>
          \A t \in Server \ {s}, k \in Slot : child[t][k] = "none"
    BY LockOwner
  <2> QED
    BY <2>1, <2>2 DEF Ranges, GroupsKeepLock, OwnDescriptions, Alive
<1>6. DependantsNeedLease'
  BY DEF Ranges, DependantsNeedLease, PhasesOfHolding
<1>7. OpenInPhases'
  BY DEF Ranges, OpenInPhases
<1>8. PhasesOfHolding'
  BY DEF Ranges, PhasesOfHolding
<1> QED
  BY <1>1, <1>2, <1>3, <1>4, <1>5, <1>6, <1>7, <1>8

\* fork() shares the locked description with the child.
LEMMA StartSessionStep ==
  ASSUME IInv, NEW s \in Server, NEW k \in Slot, StartSession(s, k)
  PROVE  IInv'
<1> USE DEF IInv, StartSession, Goto
<1>1. Ranges'
  BY DEF Ranges, Phase, ChildPhase
<1>2. SlotInUse'
  BY DEF Ranges, SlotInUse
<1>3. HolderOwnsLock'
  BY DEF Ranges, HolderOwnsLock
<1>4. OwnDescriptions'
  <2>1. ofd[s] # NoFd /\ ofd[s][1] = s
    BY DEF PhasesOfHolding, LockingTool, HolderOwnsLock, OwnDescriptions
  <2>2. cofd'[s][k] = ofd[s]
    BY DEF Ranges
  <2>3. \A t \in Server, j \in Slot : (t # s \/ j # k) =>
          child'[t][j] = child[t][j] /\ cofd'[t][j] = cofd[t][j]
    BY DEF Ranges
  <2> QED
    BY <2>1, <2>2, <2>3 DEF OwnDescriptions
<1>5. GroupsKeepLock'
  <2>1. lock = ofd[s]
    BY DEF PhasesOfHolding, LockingTool, HolderOwnsLock
  <2>2. cofd'[s][k] = ofd[s] /\ used'[s] = used[s] \cup {k}
    BY DEF Ranges
  <2>3. \A t \in Server, j \in Slot : (t # s \/ j # k) =>
          child'[t][j] = child[t][j] /\ cofd'[t][j] = cofd[t][j]
    BY DEF Ranges
  <2>4. \A t \in Server : used[t] \subseteq used'[t] /\ (Alive(t)' => Alive(t))
    BY DEF Ranges, Alive
  <2> QED
    BY <2>1, <2>2, <2>3, <2>4 DEF GroupsKeepLock
<1>6. DependantsNeedLease'
  <2>1. held[s]
    BY DEF PhasesOfHolding, LockingTool
  <2>2. \A t \in Server \ {s} : used'[t] = used[t]
    BY DEF Ranges
  <2> QED
    BY <2>1, <2>2 DEF DependantsNeedLease
<1>7. OpenInPhases'
  BY DEF Ranges, OpenInPhases
<1>8. PhasesOfHolding'
  BY DEF Ranges, PhasesOfHolding
<1> QED
  BY <1>1, <1>2, <1>3, <1>4, <1>5, <1>6, <1>7, <1>8

\* The step SessionStarted preserves the invariant.
LEMMA SessionStartedStep ==
  ASSUME IInv, NEW s \in Server, SessionStarted(s)
  PROVE  IInv'
<1> USE DEF IInv, SessionStarted, Return, childVars
<1>1. Ranges'
  BY DEF Ranges, Phase, Tool, LockingTool
<1>2. SlotInUse'
  BY NoSlotAssumption DEF Ranges, SlotInUse
<1>3. HolderOwnsLock'
  BY DEF Ranges, HolderOwnsLock
<1>4. GroupsKeepLock'
  BY DEF Ranges, GroupsKeepLock, Alive
<1>5. OpenInPhases'
  BY DEF Ranges, OpenInPhases
<1>6. PhasesOfHolding'
  BY DEF Ranges, PhasesOfHolding
<1>7. OwnDescriptions' /\ DependantsNeedLease'
  BY DEF OwnDescriptions, DependantsNeedLease
<1> QED
  BY <1>1, <1>2, <1>3, <1>4, <1>5, <1>6, <1>7

\* The step BreakOrCloseSession preserves the invariant.
LEMMA BreakOrCloseSessionStep ==
  ASSUME IInv, NEW s \in Server, NEW k \in Slot, BreakOrCloseSession(s, k)
  PROVE  IInv'
<1> USE DEF IInv, BreakOrCloseSession, Goto, childVars
<1>1. Ranges'
  BY DEF Ranges, Phase
<1>2. SlotInUse'
  BY DEF Ranges, SlotInUse
<1>3. HolderOwnsLock'
  BY DEF Ranges, HolderOwnsLock
<1>4. GroupsKeepLock'
  BY DEF Ranges, GroupsKeepLock, Alive
<1>5. OpenInPhases'
  BY DEF Ranges, OpenInPhases
<1>6. PhasesOfHolding'
  BY DEF Ranges, PhasesOfHolding
<1>7. OwnDescriptions' /\ DependantsNeedLease'
  BY DEF OwnDescriptions, DependantsNeedLease
<1> QED
  BY <1>1, <1>2, <1>3, <1>4, <1>5, <1>6, <1>7

\* The slot is cleared together with the end of its group.
LEMMA StopSessionStep ==
  ASSUME IInv, NEW s \in Server, StopSession(s)
  PROVE  IInv'
<1> USE DEF IInv, StopSession, Goto, Return, LockAfterGroupEnds
<1>0. slot[s] \in Slot /\ lock' = lock
  BY StopKeepsLock
<1>1. Ranges'
  BY <1>0 DEF Ranges, Phase, Tool, LockingTool, ChildPhase
<1>2. SlotInUse'
  BY <1>0, NoSlotAssumption DEF Ranges, SlotInUse
<1>3. HolderOwnsLock'
  BY <1>0 DEF Ranges, HolderOwnsLock
<1>4. OwnDescriptions'
  BY <1>0 DEF Ranges, OwnDescriptions
<1>5. GroupsKeepLock'
  <2>1. child'[s][slot[s]] = "none" /\ used'[s] = used[s] \ {slot[s]}
    BY <1>0 DEF Ranges
  <2>2. \A t \in Server, j \in Slot : (t # s \/ j # slot[s]) =>
          child'[t][j] = child[t][j] /\ (j \in used[t] => j \in used'[t])
    BY <1>0 DEF Ranges
  <2>3. \A t \in Server : Alive(t)' => Alive(t)
    BY DEF Ranges, Alive
  <2> QED
    BY <1>0, <2>1, <2>2, <2>3 DEF GroupsKeepLock
<1>6. DependantsNeedLease'
  BY <1>0 DEF Ranges, DependantsNeedLease
<1>7. OpenInPhases'
  BY <1>0 DEF Ranges, OpenInPhases
<1>8. PhasesOfHolding'
  BY <1>0 DEF Ranges, PhasesOfHolding
<1> QED
  BY <1>1, <1>2, <1>3, <1>4, <1>5, <1>6, <1>7, <1>8

\* The step ChildExec preserves the invariant.
LEMMA ChildExecStep ==
  ASSUME IInv, NEW s \in Server, NEW k \in Slot, ChildExec(s, k)
  PROVE  IInv'
<1> USE DEF IInv, ChildExec, serverVars
<1>1. Ranges'
  BY DEF Ranges, ChildPhase
<1>2. OwnDescriptions'
  BY DEF Ranges, OwnDescriptions
<1>3. GroupsKeepLock'
  BY DEF Ranges, GroupsKeepLock, Alive
<1>4. SlotInUse' /\ HolderOwnsLock' /\ DependantsNeedLease' /\ OpenInPhases' /\ PhasesOfHolding'
  BY DEF SlotInUse, HolderOwnsLock, DependantsNeedLease, OpenInPhases, PhasesOfHolding
<1> QED
  BY <1>1, <1>2, <1>3, <1>4

\* The inherited description owns the lock already.
LEMMA ControlAdoptStep ==
  ASSUME IInv, NEW s \in Server, NEW k \in Slot, ControlAdopt(s, k)
  PROVE  IInv'
<1> USE DEF IInv, ControlAdopt, serverVars
<1>1. Ranges'
  BY DEF Ranges, ChildPhase
<1>2. HolderOwnsLock'
  BY DEF Ranges, HolderOwnsLock
<1>3. OwnDescriptions'
  BY DEF Ranges, OwnDescriptions
<1>4. GroupsKeepLock'
  BY DEF Ranges, GroupsKeepLock, Alive
<1>5. SlotInUse' /\ DependantsNeedLease' /\ OpenInPhases' /\ PhasesOfHolding'
  BY DEF SlotInUse, DependantsNeedLease, OpenInPhases, PhasesOfHolding
<1> QED
  BY <1>1, <1>2, <1>3, <1>4, <1>5

\* The step ControlAdoptFails preserves the invariant.
LEMMA ControlAdoptFailsStep ==
  ASSUME IInv, NEW s \in Server, NEW k \in Slot, ControlAdoptFails(s, k)
  PROVE  IInv'
<1> USE DEF IInv, ControlAdoptFails, serverVars
<1>1. Ranges'
  BY DEF Ranges, ChildPhase
<1>2. OwnDescriptions'
  BY DEF Ranges, OwnDescriptions
<1>3. GroupsKeepLock'
  BY DEF Ranges, GroupsKeepLock, Alive
<1>4. SlotInUse' /\ HolderOwnsLock' /\ DependantsNeedLease' /\ OpenInPhases' /\ PhasesOfHolding'
  BY DEF SlotInUse, HolderOwnsLock, DependantsNeedLease, OpenInPhases, PhasesOfHolding
<1> QED
  BY <1>1, <1>2, <1>3, <1>4

\* The step ChildServerExits preserves the invariant.
LEMMA ChildServerExitsStep ==
  ASSUME IInv, NEW s \in Server, NEW k \in Slot, ChildServerExits(s, k)
  PROVE  IInv'
<1> USE DEF IInv, ChildServerExits, serverVars
<1>1. Ranges'
  BY DEF Ranges, ChildPhase
<1>2. OwnDescriptions'
  BY DEF Ranges, OwnDescriptions
<1>3. GroupsKeepLock'
  BY DEF Ranges, GroupsKeepLock, Alive
<1>4. SlotInUse' /\ HolderOwnsLock' /\ DependantsNeedLease' /\ OpenInPhases' /\ PhasesOfHolding'
  BY DEF SlotInUse, HolderOwnsLock, DependantsNeedLease, OpenInPhases, PhasesOfHolding
<1> QED
  BY <1>1, <1>2, <1>3, <1>4

\* The lock moves only when the last group of a dead server ends.
LEMMA GroupExitsStep ==
  ASSUME IInv, NEW s \in Server, NEW k \in Slot, GroupExits(s, k)
  PROVE  IInv'
<1> USE DEF IInv, GroupExits, serverVars, LockAfterGroupEnds
<1>0. lock' # lock =>
        /\ \A t \in Server : ~held[t] /\ pc[t] \notin {"locked", "erased"}
        /\ \A t \in Server, j \in Slot : (t # s \/ j # k) => child[t][j] = "none"
  <2> SUFFICES ASSUME lock' # lock
               PROVE /\ \A t \in Server : ~held[t] /\ pc[t] \notin {"locked", "erased"}
                     /\ \A t \in Server, j \in Slot : (t # s \/ j # k) => child[t][j] = "none"
    OBVIOUS
  <2>1. lock = cofd[s][k] /\ ofd[s] # lock /\ lock # NoFd /\ lock[1] = s
    BY DEF OwnDescriptions
  <2>2. GroupsSharing(s, lock) \subseteq {k}
    BY <2>1
  <2>3. \A t \in Server : ~held[t] /\ pc[t] \notin {"locked", "erased"}
    BY <2>1 DEF HolderOwnsLock, OwnDescriptions
  <2>4. \A t \in Server \ {s}, j \in Slot : child[t][j] = "none"
    BY <2>1 DEF GroupsKeepLock, OwnDescriptions
  <2>5. \A j \in Slot \ {k} : child[s][j] = "none"
    BY <2>1, <2>2 DEF GroupsKeepLock, GroupsSharing
  <2> QED
    BY <2>3, <2>4, <2>5
<1>1. Ranges'
  BY DEF Ranges, ChildPhase
<1>2. HolderOwnsLock'
  BY <1>0 DEF Ranges, HolderOwnsLock
<1>3. OwnDescriptions'
  BY DEF Ranges, OwnDescriptions
<1>4. GroupsKeepLock'
  <2>1. child'[s][k] = "none"
    BY DEF Ranges
  <2>2. \A t \in Server, j \in Slot : (t # s \/ j # k) => child'[t][j] = child[t][j]
    BY DEF Ranges
  <2> QED
    BY <1>0, <2>1, <2>2 DEF GroupsKeepLock, Alive
<1>5. SlotInUse' /\ DependantsNeedLease' /\ OpenInPhases' /\ PhasesOfHolding'
  BY DEF SlotInUse, DependantsNeedLease, OpenInPhases, PhasesOfHolding
<1> QED
  BY <1>1, <1>2, <1>3, <1>4, <1>5

\* The step CleanupSession preserves the invariant.
LEMMA CleanupSessionStep ==
  ASSUME IInv, NEW s \in Server, NEW k \in Slot, CleanupSession(s, k)
  PROVE  IInv'
<1> USE DEF IInv, CleanupSession, Goto, childVars
<1>1. Ranges'
  BY DEF Ranges, Phase
<1>2. SlotInUse'
  BY DEF Ranges, SlotInUse
<1>3. HolderOwnsLock'
  BY DEF Ranges, HolderOwnsLock
<1>4. GroupsKeepLock'
  BY DEF Ranges, GroupsKeepLock, Alive
<1>5. OpenInPhases'
  BY DEF Ranges, OpenInPhases
<1>6. PhasesOfHolding'
  BY DEF Ranges, PhasesOfHolding
<1>7. OwnDescriptions' /\ DependantsNeedLease'
  BY DEF OwnDescriptions, DependantsNeedLease
<1> QED
  BY <1>1, <1>2, <1>3, <1>4, <1>5, <1>6, <1>7

\* All sessions were stopped before the lease is given up.
LEMMA CleanupUnlockStep ==
  ASSUME IInv, NEW s \in Server, CleanupUnlock(s)
  PROVE  IInv'
<1> USE DEF IInv, CleanupUnlock, Goto, childVars, LockAfterUnlock
<1>1. Ranges'
  BY DEF Ranges, OFD, Phase
<1>2. SlotInUse'
  BY DEF Ranges, SlotInUse
<1>3. HolderOwnsLock'
  <2>1. lock = ofd[s] /\ ofd[s] # NoFd =>
          \A t \in Server \ {s} : ~held[t] /\ pc[t] \notin {"locked", "erased"}
    BY LockOwner
  <2>2. ~held'[s] /\ pc'[s] = "exitx11"
    BY DEF Ranges
  <2> QED
    BY <2>1, <2>2 DEF Ranges, HolderOwnsLock
<1>4. OwnDescriptions'
  BY DEF Ranges, OwnDescriptions
<1>5. GroupsKeepLock'
  BY DEF Ranges, GroupsKeepLock, OwnDescriptions, HolderOwnsLock, PhasesOfHolding,
         DependantsNeedLease, Alive
<1>6. DependantsNeedLease'
  BY DEF Ranges, DependantsNeedLease, PhasesOfHolding
<1>7. OpenInPhases'
  BY DEF Ranges, OpenInPhases
<1>8. PhasesOfHolding'
  BY DEF Ranges, PhasesOfHolding
<1> QED
  BY <1>1, <1>2, <1>3, <1>4, <1>5, <1>6, <1>7, <1>8

\* The last step of an exit touches neither the lock nor what depends on it.
LEMMA CleanupX11Step ==
  ASSUME IInv, NEW s \in Server, CleanupX11(s)
  PROVE  IInv'
<1> USE DEF IInv, CleanupX11, Goto, childVars
<1>1. Ranges'
  BY DEF Ranges, Phase
<1>2. SlotInUse'
  BY DEF Ranges, SlotInUse
<1>3. HolderOwnsLock'
  BY DEF Ranges, HolderOwnsLock
<1>4. GroupsKeepLock'
  BY DEF Ranges, GroupsKeepLock, Alive
<1>5. DependantsNeedLease'
  BY DEF Ranges, DependantsNeedLease, PhasesOfHolding
<1>6. OwnDescriptions' /\ OpenInPhases' /\ PhasesOfHolding'
  BY DEF Ranges, OwnDescriptions, OpenInPhases, PhasesOfHolding
<1> QED
  BY <1>1, <1>2, <1>3, <1>4, <1>5, <1>6

\* The kernel keeps the lock exactly as long as children share it.
LEMMA ServerCrashStep ==
  ASSUME IInv, NEW s \in Server, ServerCrash(s)
  PROVE  IInv'
<1> USE DEF IInv, ServerCrash, childVars, LockAfterServerCloses, GroupsSharing
<1>1. Ranges'
  BY DEF Ranges, OFD, Phase, Tool, LockingTool
<1>2. SlotInUse'
  BY NoSlotAssumption DEF Ranges, SlotInUse
<1>3. HolderOwnsLock'
  <2>1. lock = ofd[s] /\ ofd[s] # NoFd =>
          \A t \in Server \ {s} : ~held[t] /\ pc[t] \notin {"locked", "erased"}
    BY LockOwner
  <2>2. ~held'[s] /\ pc'[s] = "dead"
    BY DEF Ranges
  <2> QED
    BY <2>1, <2>2 DEF Ranges, HolderOwnsLock
<1>4. OwnDescriptions'
  BY DEF Ranges, OwnDescriptions
<1>5. GroupsKeepLock'
  <2>1. lock = ofd[s] /\ ofd[s] # NoFd =>
          \A t \in Server \ {s}, k \in Slot : child[t][k] = "none"
    BY LockOwner
  <2>2. \A k \in Slot : child[s][k] # "none" => lock' = lock
    BY DEF GroupsKeepLock, Alive
  <2>3. ~Alive(s)' /\ \A t \in Server \ {s} :
          /\ ofd'[t] = ofd[t] /\ used'[t] = used[t]
          /\ Alive(t)' => Alive(t)
    BY DEF Ranges, Alive
  <2>4. lock = NoFd => \A t \in Server, k \in Slot : child[t][k] = "none"
    BY DEF GroupsKeepLock, OwnDescriptions
  <2> QED
    BY <2>1, <2>2, <2>3, <2>4 DEF GroupsKeepLock
<1>6. DependantsNeedLease'
  BY DEF Ranges, DependantsNeedLease
<1>7. OpenInPhases'
  BY DEF Ranges, OpenInPhases
<1>8. PhasesOfHolding'
  BY DEF Ranges, PhasesOfHolding
<1> QED
  BY <1>1, <1>2, <1>3, <1>4, <1>5, <1>6, <1>7, <1>8

\* Every step of the system preserves the inductive invariant.
LEMMA Invariance == IInv /\ [Next]_vars => IInv'
<1> SUFFICES ASSUME IInv, [Next]_vars PROVE IInv'
  OBVIOUS
<1>1. CASE UNCHANGED vars
  BY <1>1 DEF vars, IInv, Ranges, SlotInUse, HolderOwnsLock, OwnDescriptions,
       GroupsKeepLock, DependantsNeedLease, PhasesOfHolding, OpenInPhases, Alive
<1>2. ASSUME NEW s \in Server,
             \/ \E t \in Tool : CallTool(s, t)
             \/ AcquireStep(s) \/ McpRunEnds(s) \/ ServerCrash(s)
      PROVE  IInv'
  BY <1>2, CallToolStep, ControlOnlyStep, TextOnlyStep, AcquireOpenStep, AcquireFlockStep,
     AcquireRefusedStep, AcquireRecordStep, AcquireAbandonStep, ServerCrashStep
     DEF AcquireStep
<1>3. ASSUME NEW s \in Server, HandlerStep(s) PROVE IInv'
  BY <1>3, ControlOnlyStep, TextOnlyStep, HandleDragStep, HandleMouseDownStep,
     HandleMouseUpStep, ReleaseUnlockStep, StartSessionStep, SessionStartedStep,
     BreakOrCloseSessionStep, StopSessionStep
     DEF HandlerStep
<1>4. ASSUME NEW s \in Server, ExitStep(s) PROVE IInv'
  BY <1>4, TextOnlyStep, CleanupSessionStep, CleanupUnlockStep, CleanupX11Step DEF ExitStep
<1>5. ASSUME NEW s \in Server, NEW k \in Slot, ChildStarts(s, k) \/ ChildEnds(s, k)
      PROVE  IInv'
  BY <1>5, ChildExecStep, ControlAdoptStep, ControlAdoptFailsStep,
     ChildServerExitsStep, GroupExitsStep
     DEF ChildStarts, ChildEnds
<1> QED
  BY <1>1, <1>2, <1>3, <1>4, <1>5 DEF Next

\* The inductive invariant holds in every reachable state.
THEOREM Inductive == Spec => []IInv
  BY InitHolds, Invariance, PTL DEF Spec

-----------------------------------------------------------------------------
\* Every variable keeps its range and g_control_fd never names a closed descriptor.
THEOREM TypeCorrect == Spec => []TypeOK
<1>1. IInv => TypeOK
  BY DEF IInv, TypeOK, HolderOwnsLock
<1> QED
  BY <1>1, Inductive, PTL

\* At most one server believes it holds the visible desktop.
THEOREM LeaseIsExclusive == Spec => []MutualExclusion
<1>1. IInv => MutualExclusion
  BY DEF IInv, MutualExclusion, HolderOwnsLock, OwnDescriptions
<1> QED
  BY <1>1, Inductive, PTL

\* A serving private child is always covered by the kernel lock and, while its
\* parent lives, by the parent's lease.
THEOREM ChildrenAreCovered == Spec => []ChildrenCovered
<1>1. IInv => ChildrenCovered
  BY DEF IInv, ChildrenCovered, GroupsKeepLock, DependantsNeedLease
<1> QED
  BY <1>1, Inductive, PTL

\* A used session slot keeps the lease, and so does a pressed button until the
\* server that exits has given the lease up.
THEOREM DependantsKeepLease == Spec => []DependantsNeedLease
<1>1. IInv => DependantsNeedLease
  BY DEF IInv
<1> QED
  BY <1>1, Inductive, PTL

\* The owner text is changed only by the thread that owns the kernel lock.
THEOREM OwnerTextIsGuarded == Spec => TextWrittenUnderLock
<1>1. IInv /\ [Next]_vars => [WriteUnderLock]_text
  <2> SUFFICES ASSUME IInv, [Next]_vars, text' # text
               PROVE  WriteUnderLock
    OBVIOUS
  <2>1. PICK s \in Server :
          AcquireErase(s) \/ AcquireRecord(s) \/ HandleRelease(s) \/ CleanupErase(s)
    BY DEF Next, vars, serverVars, childVars, AcquireStep, HandlerStep, ExitStep,
         ChildStarts, ChildEnds, CallTool, AcquireOpen, AcquireOpenFails, AcquireFlock,
         AcquireFlockBusy, AcquireRefused, AcquireAbandon, HandlerReturns, HandleDrag,
         HandleMouseDown, HandleMouseUp, ReleaseUnlock, ReleaseUnlockFails, StartSession,
         SessionStarted, SessionFailed, BreakOrCloseSession, StopSession, ChildExec,
         ControlAdopt, ControlAdoptFails, ChildServerExits, GroupExits, McpRunEnds,
         CleanupSession, CleanupUnlock, CleanupX11, ServerCrash
  <2>2. lock = ofd[s] /\ lock # NoFd
    BY <2>1
         DEF IInv, HolderOwnsLock, AcquireErase, AcquireRecord, HandleRelease, CleanupErase
  <2>3. text' \in {s, NoText}
    BY <2>1 DEF AcquireErase, AcquireRecord, HandleRelease, CleanupErase
  <2>4. pc'[s] # pc[s] /\ \A t \in Server \ {s} : pc'[t] = pc[t]
    BY <2>1
         DEF IInv, Ranges, AcquireErase, AcquireRecord, HandleRelease, CleanupErase, Goto
  <2> QED
    BY <2>2, <2>3, <2>4 DEF WriteUnderLock
<1> QED
  BY <1>1, Inductive, PTL DEF Spec, TextWrittenUnderLock
-----------------------------------------------------------------------------
(* Refinement of DesktopLease *)

\* The abstract state.
Holder    == IF lock = NoFd THEN NoText ELSE lock[1]
AliveSet  == {s \in Server : Alive(s)}
ActiveSet == {s \in Server : Active(s)}

\* Only an owner of the kernel lock, or children of one, can be active.
OnlyOwnersActive ==
  \A s \in Server : Active(s) => lock # NoFd /\ lock[1] = s

\* Activity implies ownership of the lock.
LEMMA OwnersActive == IInv => OnlyOwnersActive
BY DEF IInv, OnlyOwnersActive, Active, HolderOwnsLock, OwnDescriptions, GroupsKeepLock,
     DependantsNeedLease, PhasesOfHolding, Exiting

\* What a step of server s, or of one of its children, leaves alone.
OthersKeep(s) ==
  \A t \in Server \ {s} :
    pc'[t] = pc[t] /\ call'[t] = call[t] /\ down'[t] = down[t] /\ child'[t] = child[t]

\* The abstract sets change at most in the server that moved.
LEMMA OneServerActive ==
  ASSUME NEW s \in Server, OthersKeep(s)
  PROVE  /\ ActiveSet' \in {ActiveSet \ {s}, ActiveSet \cup {s}}
         /\ s \in ActiveSet' <=> Active(s)'
         /\ AliveSet' \in {AliveSet \ {s}, AliveSet \cup {s}}
         /\ s \in AliveSet' <=> Alive(s)'
<1>1. \A t \in Server \ {s} : (Active(t)' <=> Active(t)) /\ (Alive(t)' <=> Alive(t))
  BY DEF OthersKeep, Active, Alive
<1> QED
  BY <1>1 DEF ActiveSet, AliveSet

\* As long as the kernel lock and the set of living servers stay, whatever a
\* server does is a beginning or an end of activity, or nothing.
LEMMA ActivityStep ==
  ASSUME OnlyOwnersActive', NEW s \in Server, OthersKeep(s),
         lock' = lock, Alive(s)' <=> Alive(s)
  PROVE  Abstract!LeaseNext \/ UNCHANGED <<AliveSet, Holder, ActiveSet>>
<1>1. Holder' = Holder /\ AliveSet' = AliveSet
  BY OneServerActive DEF Holder, AliveSet
<1>2. CASE ActiveSet' = ActiveSet \cup {s} /\ Active(s)'
  <2>1. Holder = s
    BY <1>2 DEF OnlyOwnersActive, Holder
  <2>2. Abstract!Begin(s)
    BY <1>1, <1>2, <2>1 DEF Abstract!Begin, Holder, AliveSet, ActiveSet
  <2> QED
    BY <2>2 DEF Abstract!LeaseNext
<1>3. CASE ActiveSet' = ActiveSet \ {s}
  <2>1. Abstract!Finish(s)
    BY <1>1, <1>3 DEF Abstract!Finish, Holder, AliveSet, ActiveSet
  <2> QED
    BY <2>1 DEF Abstract!LeaseNext
<1> QED
  BY <1>2, <1>3, OneServerActive

\* A successful flock() is the abstract acquisition.
LEMMA AcquireIsAbstract ==
  ASSUME IInv, NEW s \in Server, AcquireFlock(s)
  PROVE  Abstract!LeaseNext
<1> USE DEF IInv, AcquireFlock, Goto, childVars
<1>1. OthersKeep(s)
  BY DEF Ranges, OthersKeep
<1>2. ofd[s] # NoFd /\ ofd[s][1] = s
  BY DEF OpenInPhases, OwnDescriptions
<1>3. Alive(s) /\ Alive(s)' /\ (Active(s)' <=> Active(s))
  BY DEF Ranges, Alive, Active, Exiting
<1>4. ActiveSet' = ActiveSet /\ AliveSet' = AliveSet
  BY <1>1, <1>3, OneServerActive DEF ActiveSet, AliveSet
<1>5. Abstract!Acquire(s)
  BY <1>2, <1>3, <1>4 DEF Abstract!Acquire, AliveSet, ActiveSet
<1> QED
  BY <1>5 DEF Abstract!LeaseNext

\* The four ways a living server lets go of its description.
LEMMA ReleaseIsAbstract ==
  ASSUME IInv, NEW s \in Server,
         AcquireRefused(s) \/ AcquireAbandon(s) \/ ReleaseUnlock(s) \/ CleanupUnlock(s)
  PROVE  Abstract!LeaseNext \/ UNCHANGED <<AliveSet, Holder, ActiveSet>>
<1> USE DEF IInv, AcquireRefused, AcquireAbandon, ReleaseUnlock, CleanupUnlock, Goto, Return,
      childVars
<1>1. OthersKeep(s)
  BY DEF Ranges, OthersKeep
<1>2. \A k \in Slot : child[s][k] = "none"
  BY NoGroupsWithoutLease DEF PhasesOfHolding, GroupsKeepLock, Alive
<1>3. child'[s] = child[s] /\ down'[s] = down[s]
  OBVIOUS
<1>4. /\ pc[s] \notin {"handler", "dead"} /\ pc'[s] \in {"ready", "exitx11"}
      /\ down[s] = {} \/ (pc[s] \in Exiting /\ pc'[s] \in Exiting)
  <2>1. CASE CleanupUnlock(s)
    BY <2>1 DEF Ranges, Exiting
  <2>2. CASE AcquireRefused(s) \/ AcquireAbandon(s) \/ ReleaseUnlock(s)
    <3>1. pc[s] \in {"refused", "locked", "erased", "unlocking"} /\ pc'[s] = "ready"
      BY <2>2 DEF Ranges
    <3>2. down[s] = {}
      BY <3>1 DEF PhasesOfHolding, DependantsNeedLease
    <3> QED
      BY <3>1, <3>2
  <2> QED
    BY <2>1, <2>2
<1>5. ~Active(s) /\ ~Active(s)' /\ Alive(s) /\ Alive(s)'
  BY <1>2, <1>3, <1>4 DEF Active, Alive
<1>6. ActiveSet' = ActiveSet /\ AliveSet' = AliveSet
  BY <1>1, <1>5, OneServerActive DEF ActiveSet, AliveSet
<1>7. lock' = lock \/ (lock = ofd[s] /\ lock' = NoFd)
  BY DEF LockAfterServerCloses, LockAfterUnlock
<1>8. CASE lock' = lock
  BY <1>6, <1>8 DEF Holder
<1>9. CASE lock = ofd[s] /\ lock' = NoFd /\ lock # NoFd
  <2>1. Abstract!Release(s)
    BY <1>5, <1>6, <1>9 DEF Abstract!Release, OwnDescriptions, AliveSet, ActiveSet
  <2> QED
    BY <2>1 DEF Abstract!LeaseNext
<1> QED
  BY <1>7, <1>8, <1>9

\* The last process of a dead server's session group frees the desktop.
LEMMA GroupExitIsAbstract ==
  ASSUME IInv, IInv', NEW s \in Server, NEW k \in Slot, GroupExits(s, k)
  PROVE  Abstract!LeaseNext \/ UNCHANGED <<AliveSet, Holder, ActiveSet>>
<1> USE DEF GroupExits, serverVars
<1>1. OthersKeep(s)
  BY DEF IInv, Ranges, OthersKeep
<1>2. OnlyOwnersActive /\ OnlyOwnersActive'
  <2>1. IInv' => OnlyOwnersActive'
    BY OwnersActive, PTL
  <2> QED
    BY <2>1, OwnersActive
<1>3. Alive(s)' <=> Alive(s)
  BY DEF Alive
<1>4. CASE lock' = lock
  BY <1>1, <1>2, <1>3, <1>4, ActivityStep
<1>5. CASE lock' # lock
  <2>1. lock = cofd[s][k] /\ ofd[s] # lock /\ lock' = NoFd
    BY <1>5 DEF LockAfterGroupEnds
  <2>2. lock # NoFd /\ lock[1] = s
    BY <2>1 DEF IInv, OwnDescriptions
  <2>3. ~Alive(s)
    BY <2>1 DEF IInv, GroupsKeepLock
  <2>4. ~Active(s)'
    BY <1>2, <2>1 DEF OnlyOwnersActive
  <2>5. ActiveSet' = ActiveSet \ {s} /\ AliveSet' = AliveSet
    BY <1>1, <1>3, <2>4, OneServerActive DEF ActiveSet, AliveSet
  <2>6. Abstract!Drop(s)
    BY <2>1, <2>2, <2>3, <2>5 DEF Abstract!Drop, Holder, AliveSet, ActiveSet
  <2> QED
    BY <2>6 DEF Abstract!LeaseNext
<1> QED
  BY <1>4, <1>5

\* A server that dies keeps the desktop only through children that survive it.
LEMMA DeathIsAbstract ==
  ASSUME IInv, IInv', NEW s \in Server, Alive(s), CleanupX11(s) \/ ServerCrash(s)
  PROVE  Abstract!LeaseNext
<1> USE DEF IInv, CleanupX11, ServerCrash, Goto, childVars
<1>1. OthersKeep(s)
  BY DEF Ranges, OthersKeep
<1>2. OnlyOwnersActive'
  <2>1. IInv' => OnlyOwnersActive'
    BY OwnersActive, PTL
  <2> QED
    BY <2>1
<1>3. ~Alive(s)' /\ (Active(s)' => Active(s))
  BY DEF Ranges, Alive, Active
<1>4. /\ AliveSet' = AliveSet \ {s}
      /\ ActiveSet' \in {ActiveSet, ActiveSet \ {s}}
      /\ s \in ActiveSet' => Active(s)'
  BY <1>1, <1>3, OneServerActive DEF ActiveSet, AliveSet
<1>5. lock' = lock \/ (lock = ofd[s] /\ lock' = NoFd /\ lock # NoFd)
  BY DEF LockAfterServerCloses, LockAfterUnlock
<1>6. Holder' \in IF Holder = s THEN {s, NoText} ELSE {Holder}
  BY <1>5 DEF Holder, OwnDescriptions
<1>7. Holder' # s => s \notin ActiveSet'
  BY <1>2, <1>4 DEF OnlyOwnersActive, Holder
<1>8. Abstract!Die(s)
  BY <1>4, <1>6, <1>7 DEF Abstract!Die, Holder, AliveSet, ActiveSet
<1> QED
  BY <1>8 DEF Abstract!LeaseNext

\* Every other step is local activity of one server.
LEMMA LocalStepIsAbstract ==
  ASSUME IInv, OnlyOwnersActive', NEW s \in Server,
         \/ \E t \in Tool : CallTool(s, t)
         \/ AcquireOpen(s) \/ AcquireOpenFails(s) \/ AcquireFlockBusy(s)
         \/ AcquireErase(s) \/ AcquireRecord(s) \/ HandlerReturns(s) \/ HandleRelease(s)
         \/ ReleaseUnlockFails(s) \/ SessionStarted(s) \/ SessionFailed(s) \/ McpRunEnds(s)
         \/ CleanupErase(s)
         \/ \E b \in Button :
              HandleDrag(s, b) \/ HandleMouseDown(s, b) \/ HandleMouseUp(s, b)
         \/ \E k \in Slot :
              \/ BreakOrCloseSession(s, k) \/ CleanupSession(s, k) \/ StartSession(s, k)
              \/ ChildExec(s, k) \/ ControlAdoptFails(s, k) \/ ChildServerExits(s, k)
  PROVE  Abstract!LeaseNext \/ UNCHANGED <<AliveSet, Holder, ActiveSet>>
<1> USE DEF CallTool, AcquireOpen, AcquireOpenFails, AcquireFlockBusy, AcquireErase,
      AcquireRecord, HandlerReturns, HandleRelease, ReleaseUnlockFails, SessionStarted,
      SessionFailed, McpRunEnds, CleanupErase, HandleDrag, HandleMouseDown,
      HandleMouseUp, BreakOrCloseSession, CleanupSession, StartSession, ChildExec,
      ControlAdoptFails, ChildServerExits, Goto, Return, childVars, serverVars
<1>1. lock' = lock
  OBVIOUS
<1>2. OthersKeep(s)
  BY DEF IInv, Ranges, OthersKeep
<1>3. Alive(s)' <=> Alive(s)
  BY DEF IInv, Ranges, Alive
<1> QED
  BY <1>1, <1>2, <1>3, ActivityStep

\* stop_session and the adoption by a child leave the lock where it was.
LEMMA ChildStepIsAbstract ==
  ASSUME IInv, OnlyOwnersActive', NEW s \in Server,
         StopSession(s) \/ \E k \in Slot : ControlAdopt(s, k)
  PROVE  Abstract!LeaseNext \/ UNCHANGED <<AliveSet, Holder, ActiveSet>>
<1> USE DEF StopSession, ControlAdopt, Goto, Return, serverVars
<1>1. lock' = lock
  <2>1. ASSUME StopSession(s) PROVE lock' = lock
    BY <2>1, StopKeepsLock
  <2>2. ASSUME NEW k \in Slot, ControlAdopt(s, k) PROVE lock' = lock
    BY <2>2 DEF IInv, GroupsKeepLock
  <2> QED
    BY <2>1, <2>2
<1>2. OthersKeep(s)
  BY DEF IInv, Ranges, OthersKeep
<1>3. Alive(s)' <=> Alive(s)
  BY DEF IInv, Ranges, Alive
<1> QED
  BY <1>1, <1>2, <1>3, ActivityStep

\* Descriptors, processes and the lock file implement the abstract lease: at most
\* one client holds the desktop, only the holder is active, and only an idle
\* holder, or the end of everything a dead one left, gives it up.
THEOREM LeaseRefinement == Spec => ImplementsDesktopLease
<1>1. Init => Abstract!LeaseInit
  BY DEF Init, Abstract!LeaseInit, Alive, Active
<1>2. IInv /\ IInv' /\ [Next]_vars => [Abstract!LeaseNext]_(Abstract!leaseVars)
  <2> SUFFICES ASSUME IInv, IInv', [Next]_vars
               PROVE  Abstract!LeaseNext \/ UNCHANGED <<AliveSet, Holder, ActiveSet>>
    BY DEF Abstract!leaseVars, AliveSet, Holder, ActiveSet
  <2>1. OnlyOwnersActive'
    <3>1. IInv' => OnlyOwnersActive'
      BY OwnersActive, PTL
    <3> QED
      BY <3>1
  <2>2. CASE UNCHANGED vars
    BY <2>2 DEF vars, AliveSet, Holder, ActiveSet, Alive, Active
  <2>3. ASSUME NEW s \in Server,
               \/ \E t \in Tool : CallTool(s, t)
               \/ AcquireStep(s) \/ HandlerStep(s) \/ McpRunEnds(s)
        PROVE  Abstract!LeaseNext \/ UNCHANGED <<AliveSet, Holder, ActiveSet>>
    BY <2>1, <2>3, LocalStepIsAbstract, AcquireIsAbstract, ReleaseIsAbstract,
       ChildStepIsAbstract
       DEF AcquireStep, HandlerStep
  <2>4. ASSUME NEW s \in Server, ExitStep(s) \/ ServerCrash(s)
        PROVE  Abstract!LeaseNext \/ UNCHANGED <<AliveSet, Holder, ActiveSet>>
    <3>1. CASE CleanupX11(s) \/ ServerCrash(s)
      BY <3>1, DeathIsAbstract DEF CleanupX11, ServerCrash, Alive
    <3>2. CASE CleanupErase(s) \/ \E k \in Slot : CleanupSession(s, k)
      BY <2>1, <3>2, LocalStepIsAbstract
    <3>3. CASE CleanupUnlock(s)
      BY <3>3, ReleaseIsAbstract
    <3> QED
      BY <2>4, <3>1, <3>2, <3>3 DEF ExitStep
  <2>5. ASSUME NEW s \in Server, NEW k \in Slot, ChildStarts(s, k) \/ ChildEnds(s, k)
        PROVE  Abstract!LeaseNext \/ UNCHANGED <<AliveSet, Holder, ActiveSet>>
    BY <2>1, <2>5, LocalStepIsAbstract, ChildStepIsAbstract, GroupExitIsAbstract
       DEF ChildStarts, ChildEnds
  <2> QED
    BY <2>2, <2>3, <2>4, <2>5 DEF Next
<1> QED
  BY <1>1, <1>2, Inductive, PTL DEF Spec, ImplementsDesktopLease, Abstract!LeaseSpec
=============================================================================
