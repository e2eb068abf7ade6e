------------------------ MODULE SemanticChange_proofs ------------------------
(***************************************************************************)
(* What a wait for a semantic change promises, for every number of         *)
(* revisions and fingerprints, every limit and every timeout: its types,   *)
(* that a timeout means unchanged, that a change is one of the captured    *)
(* window, that a cancellation costs at most one more observation, and     *)
(* that the listener's storage lives as long as its registration.          *)
(***************************************************************************)
EXTENDS SemanticChange, FiniteSetTheorems, TLAPS

\* The listener is there from its registration until it is ended, and has no
\* deadline before.
Lifetime ==
  /\ pc \notin {"request", "begin", "done"} => registered
  /\ pc \in {"request", "begin"} => active = 0
  /\ IsFiniteSet(keys)

TypeInv == TypeOK /\ Lifetime

\* What has been accepted and not been looked at, or is still to be accepted.
Announced == Pending \/ relevant # observed \/ overflow

\* Past the check of the loop nothing is left to look at.
WaitClear ==
  pc \in {"poll", "remaining", "expired"} => relevant = observed /\ ~overflow

\* A change during the observation has been announced since.
ReadAnnounced ==
  pc = "read" /\ seen # content /\ ~missed => Announced

\* A change is announced, about to be observed, or observed.
NothingLost ==
  content # Base /\ ~missed =>
    \/ Announced
    \/ pc = "woken"
    \/ pc = "read" /\ seen = content
    \/ pc \in {"observed", "compared"} /\ current.rev # Base
    \/ status # "none"

\* The verdict is given once.
VerdictLast == status # "none" => pc \in {"end", "drain", "done"}

LostInv ==
  /\ WaitClear /\ ReadAnnounced /\ NothingLost /\ VerdictLast
  /\ TimeoutMeansUnchanged

\* The observation begun after the cancellation is followed by the check of it.
CancelInv ==
  /\ lateReads <= 1
  /\ lateReads = 1 =>
       /\ cancelled
       /\ pc \in {"read", "observed", "compared", "wait", "enter", "end", "drain",
                  "done"}

\* A window that was replaced while it was read stays so, and is noticed when it is
\* validated after the comparison.
ChangeInv ==
  /\ pc \in {"observed", "compared"} /\ ~current.ofTarget => target = "replaced"
  /\ pc = "compared" => current.root = "same"
  /\ ChangeIsOfTarget

\* What the registry may call and what is allocated begin and end together.
StorageInv == registered = allocated

-----------------------------------------------------------------------------
(* Types *)

\* The initial states are typed, and no deadline is set before there is a listener.
LEMMA InitTyped == Init => TypeInv
<1> SUFFICES ASSUME Init PROVE TypeInv
  OBVIOUS
<1>1. IsFiniteSet(keys) /\ Cardinality(keys) = 0
  BY FS_EmptySet DEF Init
<1>2. /\ Cardinality(keys) <= KeyLimit /\ events \in 0..EventLimit
      /\ now \in 0..MaxTime /\ emitted \in 0..MaxEvents /\ deadline \in Nat
  BY <1>1, LimitAssumption DEF Init
<1>3. current \in Reading
  BY RevisionAssumption DEF Init, NoReading, Reading, Roots
<1>4. queue \in Seq(Event)
  BY DEF Init
<1>5. missed \in BOOLEAN
  BY DEF Init
<1>6. /\ relevant \in 0..events /\ observed \in 0..relevant /\ active \in Nat
      /\ lateReads \in Nat /\ keys \subseteq Keys
  BY DEF Init
<1>7. /\ target \in Targets /\ root \in Roots /\ content \in Revisions
      /\ seen \in Revisions /\ pc \in Phase /\ status \in Status
  BY RevisionAssumption DEF Init, Targets, Roots, Phase, Status
<1>8. Lifetime /\ (pc = "done" => active = 0)
  BY <1>1 DEF Init, Lifetime
<1>9. /\ cancelled \in BOOLEAN /\ registered \in BOOLEAN /\ allocated \in BOOLEAN
      /\ overflow \in BOOLEAN
  BY DEF Init
<1> QED
  BY <1>1, <1>2, <1>3, <1>4, <1>5, <1>6, <1>7, <1>8, <1>9 DEF TypeInv, TypeOK

\* Every step keeps the ranges, the limits of the counters and the lifetime of the
\* listener.
LEMMA TypeStep == TypeInv /\ [Next]_vars => TypeInv'
<1> SUFFICES ASSUME TypeInv, [Next]_vars PROVE TypeInv'
  OBVIOUS
<1> USE RevisionAssumption, EventAssumption, LimitAssumption
    DEF TypeInv, TypeOK, Lifetime, Phase, envVars, busVars, statVars, listenerVars,
        callVars, historyVars
<1>1. CASE Tick
  BY <1>1 DEF Tick, Targets, Roots
<1>2. CASE TargetChanges
  BY <1>2 DEF TargetChanges, Targets, Roots
<1>3. CASE RootChanges
  BY <1>3 DEF RootChanges, Targets, Roots
<1>4. CASE Cancel
  BY <1>4 DEF Cancel, Targets, Roots
<1>5. CASE ContentChanges
  <2>1. PICK k \in Keys : Emit(k)
    BY <1>5 DEF ContentChanges
  <2> QED
    BY <1>5, <2>1 DEF ContentChanges, Emit, Event
<1>6. CASE OtherEvent
  <2>1. PICK e \in Event : Emit(e)
    BY <1>6 DEF OtherEvent
  <2> QED
    BY <1>6, <2>1 DEF OtherEvent, Emit
<1>7. CASE CallbackOverLimit
  BY <1>7 DEF CallbackOverLimit, Callback, FromWindow, AfterWait, Dispatching
<1>8. CASE CallbackDropped
  BY <1>8 DEF CallbackDropped, Callback, FromWindow, AfterWait, Dispatching
<1>9. CASE CallbackIrrelevant
  BY <1>9 DEF CallbackIrrelevant, Callback, FromWindow, AfterWait, Dispatching
<1>10. CASE CallbackRelevant
  <2>1. Head(queue) \in Keys
    BY <1>10 DEF CallbackRelevant, Callback, FromWindow, Event
  <2>2. keys' = keys \/ (Cardinality(keys) < KeyLimit /\ keys' = keys \cup {Head(queue)})
    BY <1>10 DEF CallbackRelevant
  <2>3. /\ IsFiniteSet(keys') /\ keys' \subseteq Keys
        /\ Cardinality(keys') <= KeyLimit
    <3>1. IsFiniteSet(keys) /\ Cardinality(keys) \in Nat
      BY FS_CardinalityType
    <3>2. CASE keys' = keys
      BY <3>2
    <3>3. CASE Cardinality(keys) < KeyLimit /\ keys' = keys \cup {Head(queue)}
      <4>1. /\ IsFiniteSet(keys \cup {Head(queue)})
            /\ Cardinality(keys \cup {Head(queue)}) \in
                 {Cardinality(keys), Cardinality(keys) + 1}
        <5>1. CASE Head(queue) \in keys
          BY <3>1, <5>1, FS_AddElement
        <5>2. CASE Head(queue) \notin keys
          BY <3>1, <5>2, FS_AddElement
        <5> QED
          BY <5>1, <5>2
      <4>2. Cardinality(keys \cup {Head(queue)}) <= KeyLimit
        BY <3>1, <3>3, <4>1
      <4>3. keys \cup {Head(queue)} \subseteq Keys
        BY <2>1
      <4> QED
        BY <3>3, <4>1, <4>2, <4>3
    <3> QED
      BY <2>2, <3>2, <3>3
  <2>4. /\ queue' \in Seq(Event) /\ events' \in 0..EventLimit
        /\ relevant' \in 0..events' /\ observed' \in 0..relevant'
    BY <1>10 DEF CallbackRelevant, Callback
  <2>5. overflow' \in BOOLEAN /\ missed' \in BOOLEAN
    BY <1>10 DEF CallbackRelevant
  <2> QED
    BY <1>10, <2>3, <2>4, <2>5 DEF CallbackRelevant
<1>11. CASE RequestExpired
  BY <1>11 DEF RequestExpired, Finish, KeepListener, Status
<1>12. CASE BeginFails
  BY <1>12 DEF BeginFails, Finish, KeepListener, Status
<1>13. CASE TargetInvalid
  BY <1>13 DEF TargetInvalid, Finish, KeepListener, Status
<1>14. CASE WaitExpired
  BY <1>14 DEF WaitExpired, Finish, KeepListener, Status
<1>15. CASE TimesOut
  BY <1>15 DEF TimesOut, Finish, KeepListener, Status
<1>16. CASE ObservationFails
  BY <1>16 DEF ObservationFails, Finish, KeepListener, Status
<1>17. CASE OtherRoot
  BY <1>17 DEF OtherRoot, Finish, KeepListener, Status
<1>18. CASE Change
  BY <1>18 DEF Change, Finish, KeepListener, Status
<1>19. CASE WaitCancelled
  BY <1>19 DEF WaitCancelled, Finish, StopListening, Status
<1>20. CASE Overflowed
  BY <1>20 DEF Overflowed, Finish, StopListening, Status
<1>21. CASE Request
  BY <1>21 DEF Request, Goto
<1>22. CASE Registered
  BY <1>22 DEF Registered, Goto
<1>23. CASE Validate
  BY <1>23 DEF Validate, Goto
<1>24. CASE Enter
  BY <1>24 DEF Enter, Goto
<1>25. CASE NothingPending
  BY <1>25 DEF NothingPending, Goto
<1>26. CASE Poll
  BY <1>26 DEF Poll, Goto
<1>27. CASE Iterate
  BY <1>27 DEF Iterate, Goto
<1>28. CASE IterationEnds
  BY <1>28 DEF IterationEnds, Goto
<1>29. CASE SameRoot
  BY <1>29 DEF SameRoot, Goto
<1>30. CASE Unchanged
  BY <1>30 DEF Unchanged, Goto
<1>31. CASE Begin
  BY <1>31 DEF Begin, StopListening, Reading, Status, NoReading
<1>32. CASE Wait
  BY <1>32 DEF Wait, StopListening, Reading, Status, NoReading
<1>33. CASE Wake
  BY <1>33 DEF Wake, StopListening, Reading, Status, NoReading
<1>34. CASE Expire
  BY <1>34 DEF Expire, StopListening, Reading, Status, NoReading
<1>35. CASE WokenValid
  <2>1. lateReads' \in Nat
    BY <1>35 DEF WokenValid
  <2>2. current' \in Reading /\ seen' \in Revisions
    BY <1>35 DEF WokenValid, NoReading, Reading, Roots
  <2> QED
    BY <1>35, <2>1, <2>2 DEF WokenValid
<1>36. CASE Observe
  BY <1>36 DEF Observe, StopListening, Reading, Status, NoReading
<1>37. CASE BeginDrain
  BY <1>37 DEF BeginDrain, StopListening, Reading, Status, NoReading
<1>38. CASE End
  <2>1. queue' \in Seq(Event) /\ missed' \in BOOLEAN
    BY <1>38 DEF End
  <2> QED
    BY <1>38, <2>1 DEF End
<1>39. CASE EndFails
  BY <1>39 DEF EndFails, StopListening, Reading, Status, NoReading
<1>40. CASE UNCHANGED vars
  BY <1>40 DEF vars
<1> QED
  BY <1>1, <1>2, <1>3, <1>4, <1>5, <1>6, <1>7, <1>8, <1>9, <1>10, <1>11, <1>12,
     <1>13, <1>14, <1>15, <1>16, <1>17, <1>18, <1>19, <1>20, <1>21, <1>22, <1>23,
     <1>24, <1>25, <1>26, <1>27, <1>28, <1>29, <1>30, <1>31, <1>32, <1>33, <1>34,
     <1>35, <1>36, <1>37, <1>38, <1>39, <1>40
  DEF Next, Environment, Callbacks, WaitStep

\* The types hold in every reachable state.
THEOREM Typed == Spec => []TypeOK
<1>1. TypeInv => TypeOK
  BY DEF TypeInv
<1> QED
  BY InitTyped, TypeStep, <1>1, PTL DEF Spec

-----------------------------------------------------------------------------
(* The events on their way *)

\* An event of the window is on its way as long as only others are delivered.
LEMMA PendingStays ==
  ASSUME TypeInv, queue # <<>>, Head(queue) = Elsewhere, Pending, queue' = Tail(queue)
  PROVE  Pending'
<1>1. PICK i \in DOMAIN queue : queue[i] # Elsewhere
  BY DEF Pending
<1>2. queue \in Seq(Event)
  BY DEF TypeInv, TypeOK
<1>3. i \in 1..Len(queue) /\ i # 1
  BY <1>1, <1>2
<1>4. i - 1 \in DOMAIN Tail(queue) /\ Tail(queue)[i - 1] = queue[i]
  BY <1>2, <1>3
<1> QED
  BY <1>1, <1>4 DEF Pending

\* A new event joins those on their way; one of the window is pending from then on.
LEMMA PendingGrows ==
  ASSUME TypeInv, NEW e \in Event, queue' = Append(queue, e)
  PROVE  /\ Pending => Pending'
         /\ e # Elsewhere => Pending'
<1>1. queue \in Seq(Event)
  BY DEF TypeInv, TypeOK
<1>2. /\ DOMAIN queue = 1..Len(queue) /\ Len(queue) \in Nat
      /\ DOMAIN queue' = 1..(Len(queue) + 1)
      /\ \A i \in 1..Len(queue) : queue'[i] = queue[i]
      /\ queue'[Len(queue) + 1] = e
  BY <1>1
<1>3. Pending => Pending'
  BY <1>2 DEF Pending
<1>4. e # Elsewhere => Pending'
  <2>1. Len(queue) + 1 \in DOMAIN queue'
    BY <1>2
  <2> QED
    BY <1>2, <2>1 DEF Pending
<1> QED
  BY <1>3, <1>4

-----------------------------------------------------------------------------
(* A timeout means unchanged *)

\* Nothing is lost before there is a listener: such a change counts as missed.
LEMMA InitLost == Init => LostInv
BY DEF Init, LostInv, WaitClear, ReadAnnounced, NothingLost, VerdictLast,
       TimeoutMeansUnchanged

\* No step loses a change: each of its announcements is taken over by the next
\* stage of the wait.
LEMMA LostStep == TypeInv /\ LostInv /\ [Next]_vars => LostInv'
<1> SUFFICES ASSUME TypeInv, LostInv, [Next]_vars PROVE LostInv'
  OBVIOUS
<1> USE DEF LostInv, WaitClear, ReadAnnounced, NothingLost, VerdictLast,
            TimeoutMeansUnchanged, Announced, envVars, busVars, statVars,
            listenerVars, callVars, historyVars
<1>0. relevant \in Nat /\ observed \in Nat /\ observed <= relevant
  BY DEF TypeInv, TypeOK
<1>1. CASE Tick
  BY <1>1 DEF Tick, Pending
<1>2. CASE TargetChanges
  BY <1>2 DEF TargetChanges, Pending
<1>3. CASE RootChanges
  BY <1>3 DEF RootChanges, Pending
<1>4. CASE Cancel
  BY <1>4 DEF Cancel, Pending
<1>5. CASE ContentChanges
  <2>1. PICK k \in Keys : Emit(k)
    BY <1>5 DEF ContentChanges
  <2>2. k \in Event /\ k # Elsewhere
    BY EventAssumption DEF Event
  <2>3. registered => Pending'
    BY <2>1, <2>2, PendingGrows DEF Emit
  <2>4. ~registered => missed'
    BY <1>5 DEF ContentChanges
  <2>5. registered \in BOOLEAN
    BY DEF TypeInv, TypeOK
  <2> QED
    BY <1>5, <2>3, <2>4, <2>5 DEF ContentChanges
<1>6. CASE OtherEvent
  <2>1. PICK e \in Event : Emit(e)
    BY <1>6 DEF OtherEvent
  <2>2. Pending => Pending'
    BY <1>6, <2>1, PendingGrows DEF Emit, OtherEvent
  <2> QED
    BY <1>6, <2>2 DEF OtherEvent
<1>7. CASE CallbackOverLimit
  <2>1. ~FromWindow /\ Pending => Pending'
    BY <1>7, PendingStays DEF CallbackOverLimit, Callback, FromWindow
  <2> QED
    BY <1>0, <1>7, <2>1 DEF CallbackOverLimit, Callback, Dispatching, AfterWait
<1>8. CASE CallbackDropped
  <2>1. ~FromWindow /\ Pending => Pending'
    BY <1>8, PendingStays DEF CallbackDropped, Callback, FromWindow
  <2> QED
    BY <1>0, <1>8, <2>1 DEF CallbackDropped, Callback, Dispatching, AfterWait
<1>9. CASE CallbackIrrelevant
  <2>1. ~FromWindow /\ Pending => Pending'
    BY <1>9, PendingStays DEF CallbackIrrelevant, Callback, FromWindow
  <2> QED
    BY <1>0, <1>9, <2>1 DEF CallbackIrrelevant, Callback, Dispatching, AfterWait
<1>10. CASE CallbackRelevant
  <2>1. relevant' # observed'
    BY <1>0, <1>10 DEF CallbackRelevant
  <2>2. /\ UNCHANGED <<content, pc, seen, current, status>>
        /\ missed' = (missed \/ AfterWait)
        /\ pc \in {"dispatch", "read", "drain", "done"}
    BY <1>10 DEF CallbackRelevant, Callback, Dispatching
  <2> QED
    BY <2>1, <2>2 DEF AfterWait
<1>11. CASE RequestExpired
  BY <1>11 DEF RequestExpired, Finish, KeepListener, Pending
<1>12. CASE BeginFails
  BY <1>12 DEF BeginFails, Finish, KeepListener, Pending
<1>13. CASE TargetInvalid
  BY <1>13 DEF TargetInvalid, Finish, KeepListener, Pending
<1>14. CASE WaitExpired
  BY <1>14 DEF WaitExpired, Finish, KeepListener, Pending
<1>15. CASE TimesOut
  BY <1>15 DEF TimesOut, Finish, KeepListener, Pending
<1>16. CASE ObservationFails
  BY <1>16 DEF ObservationFails, Finish, KeepListener, Pending
<1>17. CASE OtherRoot
  BY <1>17 DEF OtherRoot, Finish, KeepListener, Pending
<1>18. CASE Change
  BY <1>18 DEF Change, Finish, KeepListener, Pending
<1>19. CASE WaitCancelled
  BY <1>19 DEF WaitCancelled, Finish, StopListening, Pending
<1>20. CASE Overflowed
  BY <1>20 DEF Overflowed, Finish, StopListening, Pending
<1>21. CASE Request
  BY <1>21 DEF Request, Goto, Pending
<1>22. CASE Registered
  BY <1>22 DEF Registered, Goto, Pending
<1>23. CASE Validate
  BY <1>23 DEF Validate, Goto, Pending
<1>24. CASE Enter
  BY <1>24 DEF Enter, Goto, Pending
<1>25. CASE NothingPending
  BY <1>25 DEF NothingPending, Goto, Pending
<1>26. CASE Poll
  BY <1>26 DEF Poll, Goto, Pending
<1>27. CASE Iterate
  BY <1>27 DEF Iterate, Goto, Pending
<1>28. CASE IterationEnds
  BY <1>28 DEF IterationEnds, Goto, Pending
<1>29. CASE SameRoot
  BY <1>29 DEF SameRoot, Goto, Pending
<1>30. CASE Unchanged
  BY <1>30 DEF Unchanged, Goto, Pending
<1>31. CASE Begin
  BY <1>31 DEF Begin, StopListening, Pending, NoReading
<1>32. CASE Wait
  BY <1>32 DEF Wait, StopListening, Pending, NoReading
<1>33. CASE Wake
  BY <1>33 DEF Wake, StopListening, Pending, NoReading
<1>34. CASE Expire
  BY <1>34 DEF Expire, StopListening, Pending, NoReading
<1>35. CASE WokenValid
  BY <1>35 DEF WokenValid, StopListening, Pending, NoReading
<1>36. CASE Observe
  BY <1>36 DEF Observe, StopListening, Pending, NoReading
<1>37. CASE BeginDrain
  BY <1>37 DEF BeginDrain, StopListening, Pending, NoReading
<1>38. CASE End
  BY <1>38 DEF End, StopListening, Pending, NoReading
<1>39. CASE EndFails
  BY <1>39 DEF EndFails, StopListening, Pending, NoReading
<1>40. CASE UNCHANGED vars
  BY <1>40 DEF vars, Pending
<1> QED
  BY <1>1, <1>2, <1>3, <1>4, <1>5, <1>6, <1>7, <1>8, <1>9, <1>10, <1>11, <1>12,
     <1>13, <1>14, <1>15, <1>16, <1>17, <1>18, <1>19, <1>20, <1>21, <1>22, <1>23,
     <1>24, <1>25, <1>26, <1>27, <1>28, <1>29, <1>30, <1>31, <1>32, <1>33, <1>34,
     <1>35, <1>36, <1>37, <1>38, <1>39, <1>40
  DEF Next, Environment, Callbacks, WaitStep

\* A wait that timed out found the captured content, unless the change came before
\* the listener, its event was dropped or late, or is still on its way.
THEOREM TimeoutUnchanged == Spec => []TimeoutMeansUnchanged
<1>1. Init => TypeInv /\ LostInv
  BY InitTyped, InitLost
<1>2. (TypeInv /\ LostInv) /\ [Next]_vars => (TypeInv /\ LostInv)'
  BY TypeStep, LostStep
<1>3. TypeInv /\ LostInv => TimeoutMeansUnchanged
  BY DEF LostInv
<1> QED
  BY <1>1, <1>2, <1>3, PTL DEF Spec

-----------------------------------------------------------------------------
(* Cancellation *)

\* After the observation begun late the next check is that of the cancellation.
LEMMA CancelStep == TypeInv /\ CancelInv /\ [Next]_vars => CancelInv'
<1> SUFFICES ASSUME TypeInv, CancelInv, [Next]_vars PROVE CancelInv'
  OBVIOUS
<1> USE DEF CancelInv, envVars, busVars, statVars, listenerVars, callVars, historyVars
<1>0. lateReads \in Nat
  BY DEF TypeInv, TypeOK
<1>1. CASE Tick
  BY <1>1 DEF Tick
<1>2. CASE TargetChanges
  BY <1>2 DEF TargetChanges
<1>3. CASE RootChanges
  BY <1>3 DEF RootChanges
<1>4. CASE Cancel
  BY <1>4 DEF Cancel
<1>5. CASE ContentChanges
  BY <1>5 DEF ContentChanges
<1>6. CASE OtherEvent
  BY <1>6 DEF OtherEvent
<1>7. CASE CallbackOverLimit
  BY <1>7 DEF CallbackOverLimit
<1>8. CASE CallbackDropped
  BY <1>8 DEF CallbackDropped
<1>9. CASE CallbackIrrelevant
  BY <1>9 DEF CallbackIrrelevant
<1>10. CASE CallbackRelevant
  BY <1>10 DEF CallbackRelevant
<1>11. CASE RequestExpired
  BY <1>11 DEF RequestExpired, Finish, KeepListener
<1>12. CASE BeginFails
  BY <1>12 DEF BeginFails, Finish, KeepListener
<1>13. CASE TargetInvalid
  BY <1>13 DEF TargetInvalid, Finish, KeepListener
<1>14. CASE WaitExpired
  BY <1>14 DEF WaitExpired, Finish, KeepListener
<1>15. CASE TimesOut
  BY <1>15 DEF TimesOut, Finish, KeepListener
<1>16. CASE ObservationFails
  BY <1>16 DEF ObservationFails, Finish, KeepListener
<1>17. CASE OtherRoot
  BY <1>17 DEF OtherRoot, Finish, KeepListener
<1>18. CASE Change
  BY <1>18 DEF Change, Finish, KeepListener
<1>19. CASE WaitCancelled
  BY <1>19 DEF WaitCancelled, Finish, StopListening
<1>20. CASE Overflowed
  BY <1>20 DEF Overflowed, Finish, StopListening
<1>21. CASE Request
  BY <1>21 DEF Request, Goto
<1>22. CASE Registered
  BY <1>22 DEF Registered, Goto
<1>23. CASE Validate
  BY <1>23 DEF Validate, Goto
<1>24. CASE Enter
  BY <1>24 DEF Enter, Goto
<1>25. CASE NothingPending
  BY <1>25 DEF NothingPending, Goto
<1>26. CASE Poll
  BY <1>26 DEF Poll, Goto
<1>27. CASE Iterate
  BY <1>27 DEF Iterate, Goto
<1>28. CASE IterationEnds
  BY <1>28 DEF IterationEnds, Goto
<1>29. CASE SameRoot
  BY <1>29 DEF SameRoot, Goto
<1>30. CASE Unchanged
  BY <1>30 DEF Unchanged, Goto
<1>31. CASE Begin
  BY <1>31 DEF Begin, StopListening
<1>32. CASE Wait
  BY <1>32 DEF Wait, StopListening
<1>33. CASE Wake
  BY <1>33 DEF Wake, StopListening
<1>34. CASE Expire
  BY <1>34 DEF Expire, StopListening
<1>35. CASE WokenValid
  BY <1>0, <1>35 DEF WokenValid
<1>36. CASE Observe
  BY <1>36 DEF Observe, StopListening
<1>37. CASE BeginDrain
  BY <1>37 DEF BeginDrain, StopListening
<1>38. CASE End
  BY <1>38 DEF End, StopListening
<1>39. CASE EndFails
  BY <1>39 DEF EndFails, StopListening
<1>40. CASE UNCHANGED vars
  BY <1>40 DEF vars
<1> QED
  BY <1>1, <1>2, <1>3, <1>4, <1>5, <1>6, <1>7, <1>8, <1>9, <1>10, <1>11, <1>12,
     <1>13, <1>14, <1>15, <1>16, <1>17, <1>18, <1>19, <1>20, <1>21, <1>22, <1>23,
     <1>24, <1>25, <1>26, <1>27, <1>28, <1>29, <1>30, <1>31, <1>32, <1>33, <1>34,
     <1>35, <1>36, <1>37, <1>38, <1>39, <1>40
  DEF Next, Environment, Callbacks, WaitStep

\* However many events arrive, at most one observation begins after the host
\* cancelled.
THEOREM CancelBounded == Spec => []CancelStopsObserving
<1>1. Init => TypeInv /\ CancelInv
  BY InitTyped DEF Init, CancelInv
<1>2. (TypeInv /\ CancelInv) /\ [Next]_vars => (TypeInv /\ CancelInv)'
  BY TypeStep, CancelStep
<1>3. TypeInv /\ CancelInv => CancelStopsObserving
  BY DEF CancelInv, CancelStopsObserving
<1> QED
  BY <1>1, <1>2, <1>3, PTL DEF Spec

-----------------------------------------------------------------------------
(* A change is of the captured window *)

\* The reading stays that of the verdict, and a replaced window is refused.
LEMMA ChangeStep == TypeInv /\ LostInv /\ ChangeInv /\ [Next]_vars => ChangeInv'
<1> SUFFICES ASSUME TypeInv, LostInv, ChangeInv, [Next]_vars PROVE ChangeInv'
  OBVIOUS
<1> USE DEF ChangeInv, ChangeIsOfTarget, envVars, busVars, statVars, listenerVars,
            callVars, historyVars
<1>0. /\ status = "changed" => pc \in {"end", "drain", "done"}
      /\ current \in Reading
  BY DEF LostInv, VerdictLast, TypeInv, TypeOK
<1>1. CASE Tick
  BY <1>1 DEF Tick
<1>2. CASE TargetChanges
  BY <1>2 DEF TargetChanges
<1>3. CASE RootChanges
  BY <1>3 DEF RootChanges
<1>4. CASE Cancel
  BY <1>4 DEF Cancel
<1>5. CASE ContentChanges
  BY <1>5 DEF ContentChanges
<1>6. CASE OtherEvent
  BY <1>6 DEF OtherEvent
<1>7. CASE CallbackOverLimit
  BY <1>7 DEF CallbackOverLimit
<1>8. CASE CallbackDropped
  BY <1>8 DEF CallbackDropped
<1>9. CASE CallbackIrrelevant
  BY <1>9 DEF CallbackIrrelevant
<1>10. CASE CallbackRelevant
  BY <1>10 DEF CallbackRelevant
<1>11. CASE RequestExpired
  BY <1>11 DEF RequestExpired, Finish, KeepListener
<1>12. CASE BeginFails
  BY <1>12 DEF BeginFails, Finish, KeepListener
<1>13. CASE TargetInvalid
  BY <1>13 DEF TargetInvalid, Finish, KeepListener
<1>14. CASE WaitExpired
  BY <1>14 DEF WaitExpired, Finish, KeepListener
<1>15. CASE TimesOut
  BY <1>15 DEF TimesOut, Finish, KeepListener
<1>16. CASE ObservationFails
  BY <1>16 DEF ObservationFails, Finish, KeepListener
<1>17. CASE OtherRoot
  BY <1>17 DEF OtherRoot, Finish, KeepListener
<1>18. CASE Change
  <2>1. current.ofTarget /\ current.root = "same" /\ current.rev # Base
    BY <1>0, <1>18 DEF Change, StillValid, Reading
  <2> QED
    BY <1>18, <2>1 DEF Change, Finish, KeepListener
<1>19. CASE WaitCancelled
  BY <1>19 DEF WaitCancelled, Finish, StopListening
<1>20. CASE Overflowed
  BY <1>20 DEF Overflowed, Finish, StopListening
<1>21. CASE Request
  BY <1>21 DEF Request, Goto
<1>22. CASE Registered
  BY <1>22 DEF Registered, Goto
<1>23. CASE Validate
  BY <1>23 DEF Validate, Goto
<1>24. CASE Enter
  BY <1>24 DEF Enter, Goto
<1>25. CASE NothingPending
  BY <1>25 DEF NothingPending, Goto
<1>26. CASE Poll
  BY <1>26 DEF Poll, Goto
<1>27. CASE Iterate
  BY <1>27 DEF Iterate, Goto
<1>28. CASE IterationEnds
  BY <1>28 DEF IterationEnds, Goto
<1>29. CASE SameRoot
  BY <1>29 DEF SameRoot, Goto
<1>30. CASE Unchanged
  BY <1>30 DEF Unchanged, Goto
<1>31. CASE Begin
  BY <1>31 DEF Begin, StopListening
<1>32. CASE Wait
  BY <1>32 DEF Wait, StopListening
<1>33. CASE Wake
  BY <1>33 DEF Wake, StopListening
<1>34. CASE Expire
  BY <1>34 DEF Expire, StopListening
<1>35. CASE WokenValid
  BY <1>0, <1>35 DEF WokenValid
<1>36. CASE Observe
  <2>1. /\ pc = "read" /\ pc' = "observed" /\ status' = status /\ target' = target
        /\ \E r \in IF seen = content THEN {content} ELSE {seen, content, Torn} :
             current' = [rev |-> r, root |-> root, ofTarget |-> target # "replaced"]
    BY <1>36 DEF Observe
  <2>2. current'.ofTarget = (target # "replaced")
    BY <2>1
  <2> QED
    BY <1>0, <2>1, <2>2
<1>37. CASE BeginDrain
  BY <1>37 DEF BeginDrain, StopListening
<1>38. CASE End
  BY <1>38 DEF End, StopListening
<1>39. CASE EndFails
  BY <1>39 DEF EndFails, StopListening
<1>40. CASE UNCHANGED vars
  BY <1>40 DEF vars
<1> QED
  BY <1>1, <1>2, <1>3, <1>4, <1>5, <1>6, <1>7, <1>8, <1>9, <1>10, <1>11, <1>12,
     <1>13, <1>14, <1>15, <1>16, <1>17, <1>18, <1>19, <1>20, <1>21, <1>22, <1>23,
     <1>24, <1>25, <1>26, <1>27, <1>28, <1>29, <1>30, <1>31, <1>32, <1>33, <1>34,
     <1>35, <1>36, <1>37, <1>38, <1>39, <1>40
  DEF Next, Environment, Callbacks, WaitStep

\* A change is reported from an observation of the captured window, under the captured
\* root, that differs from the capture: also when the window was replaced while its
\* tree was read.
THEOREM ChangeOfTarget == Spec => []ChangeIsOfTarget
<1>1. Init => TypeInv /\ LostInv /\ ChangeInv
  BY InitTyped, InitLost DEF Init, ChangeInv, ChangeIsOfTarget
<1>2. (TypeInv /\ LostInv /\ ChangeInv) /\ [Next]_vars => (TypeInv /\ LostInv /\ ChangeInv)'
  BY TypeStep, LostStep, ChangeStep
<1>3. TypeInv /\ LostInv /\ ChangeInv => ChangeIsOfTarget
  BY DEF ChangeInv
<1> QED
  BY <1>1, <1>2, <1>3, PTL DEF Spec

-----------------------------------------------------------------------------
(* The listener's storage *)

\* Registration and storage change in the same steps only.
LEMMA StorageStep == TypeInv /\ StorageInv /\ [Next]_vars => StorageInv'
<1> SUFFICES ASSUME TypeInv, StorageInv, [Next]_vars PROVE StorageInv'
  OBVIOUS
<1> USE DEF StorageInv, envVars, busVars, statVars, listenerVars, callVars, historyVars
<1>1. CASE Tick
  BY <1>1 DEF Tick
<1>2. CASE TargetChanges
  BY <1>2 DEF TargetChanges
<1>3. CASE RootChanges
  BY <1>3 DEF RootChanges
<1>4. CASE Cancel
  BY <1>4 DEF Cancel
<1>5. CASE ContentChanges
  BY <1>5 DEF ContentChanges
<1>6. CASE OtherEvent
  BY <1>6 DEF OtherEvent
<1>7. CASE CallbackOverLimit
  BY <1>7 DEF CallbackOverLimit
<1>8. CASE CallbackDropped
  BY <1>8 DEF CallbackDropped
<1>9. CASE CallbackIrrelevant
  BY <1>9 DEF CallbackIrrelevant
<1>10. CASE CallbackRelevant
  BY <1>10 DEF CallbackRelevant
<1>11. CASE RequestExpired
  BY <1>11 DEF RequestExpired, Finish, KeepListener
<1>12. CASE BeginFails
  BY <1>12 DEF BeginFails, Finish, KeepListener
<1>13. CASE TargetInvalid
  BY <1>13 DEF TargetInvalid, Finish, KeepListener
<1>14. CASE WaitExpired
  BY <1>14 DEF WaitExpired, Finish, KeepListener
<1>15. CASE TimesOut
  BY <1>15 DEF TimesOut, Finish, KeepListener
<1>16. CASE ObservationFails
  BY <1>16 DEF ObservationFails, Finish, KeepListener
<1>17. CASE OtherRoot
  BY <1>17 DEF OtherRoot, Finish, KeepListener
<1>18. CASE Change
  BY <1>18 DEF Change, Finish, KeepListener
<1>19. CASE WaitCancelled
  BY <1>19 DEF WaitCancelled, Finish, StopListening
<1>20. CASE Overflowed
  BY <1>20 DEF Overflowed, Finish, StopListening
<1>21. CASE Request
  BY <1>21 DEF Request, Goto
<1>22. CASE Registered
  BY <1>22 DEF Registered, Goto
<1>23. CASE Validate
  BY <1>23 DEF Validate, Goto
<1>24. CASE Enter
  BY <1>24 DEF Enter, Goto
<1>25. CASE NothingPending
  BY <1>25 DEF NothingPending, Goto
<1>26. CASE Poll
  BY <1>26 DEF Poll, Goto
<1>27. CASE Iterate
  BY <1>27 DEF Iterate, Goto
<1>28. CASE IterationEnds
  BY <1>28 DEF IterationEnds, Goto
<1>29. CASE SameRoot
  BY <1>29 DEF SameRoot, Goto
<1>30. CASE Unchanged
  BY <1>30 DEF Unchanged, Goto
<1>31. CASE Begin
  BY <1>31 DEF Begin, StopListening
<1>32. CASE Wait
  BY <1>32 DEF Wait, StopListening
<1>33. CASE Wake
  BY <1>33 DEF Wake, StopListening
<1>34. CASE Expire
  BY <1>34 DEF Expire, StopListening
<1>35. CASE WokenValid
  BY <1>35 DEF WokenValid
<1>36. CASE Observe
  BY <1>36 DEF Observe, StopListening
<1>37. CASE BeginDrain
  BY <1>37 DEF BeginDrain, StopListening
<1>38. CASE End
  BY <1>38 DEF End, StopListening
<1>39. CASE EndFails
  BY <1>39 DEF EndFails, StopListening
<1>40. CASE UNCHANGED vars
  BY <1>40 DEF vars
<1> QED
  BY <1>1, <1>2, <1>3, <1>4, <1>5, <1>6, <1>7, <1>8, <1>9, <1>10, <1>11, <1>12,
     <1>13, <1>14, <1>15, <1>16, <1>17, <1>18, <1>19, <1>20, <1>21, <1>22, <1>23,
     <1>24, <1>25, <1>26, <1>27, <1>28, <1>29, <1>30, <1>31, <1>32, <1>33, <1>34,
     <1>35, <1>36, <1>37, <1>38, <1>39, <1>40
  DEF Next, Environment, Callbacks, WaitStep

\* The registry never holds an address that was released, and at the end what it does
\* not hold is not kept: also when the deregistration fails.
THEOREM StorageLives == Spec => []StorageOutlivesRegistration
<1>1. Init => TypeInv /\ StorageInv
  BY InitTyped DEF Init, StorageInv
<1>2. (TypeInv /\ StorageInv) /\ [Next]_vars => (TypeInv /\ StorageInv)'
  BY TypeStep, StorageStep
<1>3. TypeInv /\ StorageInv => StorageOutlivesRegistration
  BY DEF StorageInv, StorageOutlivesRegistration
<1> QED
  BY <1>1, <1>2, <1>3, PTL DEF Spec
=============================================================================
