--------------------------- MODULE AppState_proofs ---------------------------
(***************************************************************************)
(* What AppState promises, for any size of the ring and any number of      *)
(* calls and changes.                                                      *)
(***************************************************************************)
EXTENDS AppState, SequenceTheorems, FiniteSetTheorems, TLAPS

LEMMA RemoveAtType ==
  ASSUME NEW s \in Seq(Child), NEW i \in DOMAIN s
  PROVE  RemoveAt(s, i) \in Seq(Child)
<1>1. i \in 1..Len(s) /\ Len(s) \in Nat
  BY LenProperties
<1>2. SubSeq(s, 1, i - 1) \in Seq(Child)
  <2>1. \A j \in 1..(i - 1) : s[j] \in Child
    BY <1>1, ElementOfSeq
  <2> QED BY <1>1, <2>1, SubSeqProperties
<1>3. SubSeq(s, i + 1, Len(s)) \in Seq(Child)
  <2>1. \A j \in (i + 1)..Len(s) : s[j] \in Child
    BY <1>1, ElementOfSeq
  <2> QED BY <1>1, <2>1, SubSeqProperties
<1> QED BY <1>2, <1>3, ConcatProperties DEF RemoveAt

\* The slot a capture goes to.
Slot == (stored % HistorySize) + 1

LEMMA SlotType == stored \in Nat => Slot \in Slots
BY HistoryAssumption DEF Slot, Slots

-----------------------------------------------------------------------------
(* Records: what an update of one field leaves. *)

\* An update of one field of a walk leaves the others: one lemma per field that is updated
\* by itself or in a combination, and one for each combination that an action makes.
LEMMA Walk_next ==
  ASSUME NEW w \in Walk, NEW x \in Nat
  PROVE  /\ [w EXCEPT !.next = x] =
              [next |-> x, count |-> w.count, wins |-> w.wins, records |-> w.records,
               complete |-> w.complete, silent |-> w.silent, since |-> w.since]
         /\ [w EXCEPT !.next = x] \in Walk
<1>1. [w EXCEPT !.next = x] =
        [next |-> x, count |-> w.count, wins |-> w.wins, records |-> w.records,
         complete |-> w.complete, silent |-> w.silent, since |-> w.since]
  BY DEF Walk
<1> QED BY <1>1 DEF Walk

LEMMA Walk_count ==
  ASSUME NEW w \in Walk, NEW x \in Nat
  PROVE  /\ [w EXCEPT !.count = x] =
              [next |-> w.next, count |-> x, wins |-> w.wins, records |-> w.records,
               complete |-> w.complete, silent |-> w.silent, since |-> w.since]
         /\ [w EXCEPT !.count = x] \in Walk
<1>1. [w EXCEPT !.count = x] =
        [next |-> w.next, count |-> x, wins |-> w.wins, records |-> w.records,
         complete |-> w.complete, silent |-> w.silent, since |-> w.since]
  BY DEF Walk
<1> QED BY <1>1 DEF Walk

LEMMA Walk_wins ==
  ASSUME NEW w \in Walk, NEW x \in SUBSET Nat
  PROVE  /\ [w EXCEPT !.wins = x] =
              [next |-> w.next, count |-> w.count, wins |-> x, records |-> w.records,
               complete |-> w.complete, silent |-> w.silent, since |-> w.since]
         /\ [w EXCEPT !.wins = x] \in Walk
<1>1. [w EXCEPT !.wins = x] =
        [next |-> w.next, count |-> w.count, wins |-> x, records |-> w.records,
         complete |-> w.complete, silent |-> w.silent, since |-> w.since]
  BY DEF Walk
<1> QED BY <1>1 DEF Walk

LEMMA Walk_records ==
  ASSUME NEW w \in Walk, NEW x \in SUBSET Row
  PROVE  /\ [w EXCEPT !.records = x] =
              [next |-> w.next, count |-> w.count, wins |-> w.wins, records |-> x,
               complete |-> w.complete, silent |-> w.silent, since |-> w.since]
         /\ [w EXCEPT !.records = x] \in Walk
<1>1. [w EXCEPT !.records = x] =
        [next |-> w.next, count |-> w.count, wins |-> w.wins, records |-> x,
         complete |-> w.complete, silent |-> w.silent, since |-> w.since]
  BY DEF Walk
<1> QED BY <1>1 DEF Walk

LEMMA Walk_complete ==
  ASSUME NEW w \in Walk, NEW x \in BOOLEAN
  PROVE  /\ [w EXCEPT !.complete = x] =
              [next |-> w.next, count |-> w.count, wins |-> w.wins, records |-> w.records,
               complete |-> x, silent |-> w.silent, since |-> w.since]
         /\ [w EXCEPT !.complete = x] \in Walk
<1>1. [w EXCEPT !.complete = x] =
        [next |-> w.next, count |-> w.count, wins |-> w.wins, records |-> w.records,
         complete |-> x, silent |-> w.silent, since |-> w.since]
  BY DEF Walk
<1> QED BY <1>1 DEF Walk

LEMMA Walk_silent ==
  ASSUME NEW w \in Walk, NEW x \in BOOLEAN
  PROVE  /\ [w EXCEPT !.silent = x] =
              [next |-> w.next, count |-> w.count, wins |-> w.wins, records |-> w.records,
               complete |-> w.complete, silent |-> x, since |-> w.since]
         /\ [w EXCEPT !.silent = x] \in Walk
<1>1. [w EXCEPT !.silent = x] =
        [next |-> w.next, count |-> w.count, wins |-> w.wins, records |-> w.records,
         complete |-> w.complete, silent |-> x, since |-> w.since]
  BY DEF Walk
<1> QED BY <1>1 DEF Walk

LEMMA Walk_since ==
  ASSUME NEW w \in Walk, NEW x \in Nat
  PROVE  /\ [w EXCEPT !.since = x] =
              [next |-> w.next, count |-> w.count, wins |-> w.wins, records |-> w.records,
               complete |-> w.complete, silent |-> w.silent, since |-> x]
         /\ [w EXCEPT !.since = x] \in Walk
<1>1. [w EXCEPT !.since = x] =
        [next |-> w.next, count |-> w.count, wins |-> w.wins, records |-> w.records,
         complete |-> w.complete, silent |-> w.silent, since |-> x]
  BY DEF Walk
<1> QED BY <1>1 DEF Walk

LEMMA Counted ==
  ASSUME NEW w \in Walk, NEW n \in Nat, NEW m \in Nat
  PROVE  /\ [w EXCEPT !.count = n, !.since = m] =
              [next |-> w.next, count |-> n, wins |-> w.wins, records |-> w.records,
               complete |-> w.complete, silent |-> w.silent, since |-> m]
         /\ [w EXCEPT !.count = n, !.since = m] \in Walk
<1> DEFINE t == [w EXCEPT !.count = n]
<1>1. t \in Walk /\ t =
        [next |-> w.next, count |-> n, wins |-> w.wins, records |-> w.records,
         complete |-> w.complete, silent |-> w.silent, since |-> w.since]
  BY Walk_count
<1> HIDE DEF t
<1> DEFINE u == [t EXCEPT !.since = m]
<1>2. u \in Walk /\ u =
        [next |-> w.next, count |-> n, wins |-> w.wins, records |-> w.records,
         complete |-> w.complete, silent |-> w.silent, since |-> m]
  BY <1>1, Walk_since
<1> QED BY <1>2 DEF t, u

LEMMA Visited ==
  ASSUME NEW w \in Walk, NEW n \in Nat, NEW z \in SUBSET Nat, NEW r \in SUBSET Row
  PROVE  /\ [w EXCEPT !.next = n, !.wins = z, !.records = r] =
              [next |-> n, count |-> w.count, wins |-> z, records |-> r,
               complete |-> w.complete, silent |-> w.silent, since |-> w.since]
         /\ [w EXCEPT !.next = n, !.wins = z, !.records = r] \in Walk
<1> DEFINE t == [w EXCEPT !.next = n]
<1>1. t \in Walk /\ t =
        [next |-> n, count |-> w.count, wins |-> w.wins, records |-> w.records,
         complete |-> w.complete, silent |-> w.silent, since |-> w.since]
  BY Walk_next
<1> HIDE DEF t
<1> DEFINE u == [t EXCEPT !.wins = z]
<1>2. u \in Walk /\ u =
        [next |-> n, count |-> w.count, wins |-> z, records |-> w.records,
         complete |-> w.complete, silent |-> w.silent, since |-> w.since]
  BY <1>1, Walk_wins
<1> HIDE DEF u
<1> DEFINE v == [u EXCEPT !.records = r]
<1>3. v \in Walk /\ v =
        [next |-> n, count |-> w.count, wins |-> z, records |-> r,
         complete |-> w.complete, silent |-> w.silent, since |-> w.since]
  BY <1>2, Walk_records
<1> QED BY <1>3 DEF t, u, v

LEMMA Cut ==
  ASSUME NEW w \in Walk, NEW n \in Nat
  PROVE  /\ [w EXCEPT !.next = n, !.records = {}, !.complete = FALSE] =
              [next |-> n, count |-> w.count, wins |-> w.wins, records |-> {},
               complete |-> FALSE, silent |-> w.silent, since |-> w.since]
         /\ [w EXCEPT !.next = n, !.records = {}, !.complete = FALSE] \in Walk
<1> DEFINE t == [w EXCEPT !.next = n]
<1>1. t \in Walk /\ t =
        [next |-> n, count |-> w.count, wins |-> w.wins, records |-> w.records,
         complete |-> w.complete, silent |-> w.silent, since |-> w.since]
  BY Walk_next
<1> HIDE DEF t
<1> DEFINE u == [t EXCEPT !.records = {}]
<1>2. u \in Walk /\ u =
        [next |-> n, count |-> w.count, wins |-> w.wins, records |-> {},
         complete |-> w.complete, silent |-> w.silent, since |-> w.since]
  BY <1>1, Walk_records
<1> HIDE DEF u
<1> DEFINE v == [u EXCEPT !.complete = FALSE]
<1>3. v \in Walk /\ v =
        [next |-> n, count |-> w.count, wins |-> w.wins, records |-> {},
         complete |-> FALSE, silent |-> w.silent, since |-> w.since]
  BY <1>2, Walk_complete
<1> QED BY <1>3 DEF t, u, v

LEMMA Skipped ==
  ASSUME NEW w \in Walk, NEW n \in Nat, NEW z \in SUBSET Nat
  PROVE  /\ [w EXCEPT !.next = n, !.wins = z, !.silent = TRUE] =
              [next |-> n, count |-> w.count, wins |-> z, records |-> w.records,
               complete |-> w.complete, silent |-> TRUE, since |-> w.since]
         /\ [w EXCEPT !.next = n, !.wins = z, !.silent = TRUE] \in Walk
<1> DEFINE t == [w EXCEPT !.next = n]
<1>1. t \in Walk /\ t =
        [next |-> n, count |-> w.count, wins |-> w.wins, records |-> w.records,
         complete |-> w.complete, silent |-> w.silent, since |-> w.since]
  BY Walk_next
<1> HIDE DEF t
<1> DEFINE u == [t EXCEPT !.wins = z]
<1>2. u \in Walk /\ u =
        [next |-> n, count |-> w.count, wins |-> z, records |-> w.records,
         complete |-> w.complete, silent |-> w.silent, since |-> w.since]
  BY <1>1, Walk_wins
<1> HIDE DEF u
<1> DEFINE v == [u EXCEPT !.silent = TRUE]
<1>3. v \in Walk /\ v =
        [next |-> n, count |-> w.count, wins |-> z, records |-> w.records,
         complete |-> w.complete, silent |-> TRUE, since |-> w.since]
  BY <1>2, Walk_silent
<1> QED BY <1>3 DEF t, u, v

LEMMA Stamped ==
  ASSUME NEW c \in Capture, NEW n \in Nat
  PROVE  /\ [c EXCEPT !.id = n]
            = [target |-> c.target, id |-> n, window |-> c.window, image |-> c.image,
               named |-> c.named, records |-> c.records, complete |-> c.complete,
               off |-> c.off, silent |-> c.silent, since |-> c.since]
         /\ [c EXCEPT !.id = n] \in Capture
<1>1. [c EXCEPT !.id = n]
      = [target |-> c.target, id |-> n, window |-> c.window, image |-> c.image,
         named |-> c.named, records |-> c.records, complete |-> c.complete,
         off |-> c.off, silent |-> c.silent, since |-> c.since]
  BY DEF Capture
<1> QED BY <1>1 DEF Capture

-----------------------------------------------------------------------------
(* Types *)

LEMMA StoreType ==
  ASSUME TypeOK, NEW c \in Capture, Store(c)
  PROVE  stored' \in Nat /\ history' \in [Slots -> Capture \cup {NoCapture}]
<1>1. stored' = stored + 1 /\ stored \in Nat
  BY DEF TypeOK, Store
<1>2. stored + 1 \in Nat
  BY <1>1
<1>3. [c EXCEPT !.id = stored + 1] \in Capture
  BY <1>2, Stamped, Zenon
<1> DEFINE d == [c EXCEPT !.id = stored + 1]
<1>4. history' = [history EXCEPT ![Slot] = d]
  BY DEF Store, Slot
<1>5. d \in Capture
  BY <1>3
<1> HIDE DEF d
<1> QED BY <1>1, <1>4, <1>5, SlotType DEF TypeOK

\* Types: the environment, the observation and the tool keep them.
LEMMA InitType == Init => TypeOK
<1> SUFFICES ASSUME Init PROVE TypeOK
  OBVIOUS
<1>1. kids \in Seq(Child)
  <2>1. PICK others \in {<< >>, <<[win |-> 2, id |-> 2, showing |-> FALSE]>>} :
          kids = <<[win |-> 1, id |-> 1, showing |-> TRUE]>> \o others
    BY DEF Init
  <2>2. /\ [win |-> 1, id |-> 1, showing |-> TRUE] \in Child
        /\ [win |-> 2, id |-> 2, showing |-> FALSE] \in Child
    BY DEF Child
  <2>3. others \in Seq(Child)
    <3>1. CASE others = << >>
      BY <3>1
    <3>2. CASE others # << >>
      <4>1. others = <<[win |-> 2, id |-> 2, showing |-> FALSE]>>
        BY <3>2
      <4> QED BY <4>1, <2>2
    <3> QED BY <3>1, <3>2
  <2> QED BY <2>1, <2>2, <2>3
<1>2. changes \in Nat /\ edits \in Nat /\ stored \in Nat /\ calls \in Nat
  BY DEF Init
<1>3. desk \in Place
  BY DEF Init, Place
<1>4. walk \in Walk /\ walk.since <= edits
  BY DEF Init, NoWalk, Walk
<1>5. before \in Place /\ focus \in BOOLEAN /\ image \in Nat
  BY DEF Init, Nowhere, Place
<1>6. diff \in [comparable : BOOLEAN, changed : BOOLEAN]
  BY DEF Init, NoDiff
<1>7. history \in [Slots -> Capture \cup {NoCapture}] /\ prev \in Capture \cup {NoCapture}
  BY DEF Init
<1>8. /\ off \in BOOLEAN /\ stable \in BOOLEAN /\ returned \in BOOLEAN
      /\ taken \subseteq Place /\ pc = "idle"
  BY DEF Init
<1> QED BY <1>1, <1>2, <1>3, <1>4, <1>5, <1>6, <1>7, <1>8 DEF TypeOK

LEMMA FreshType ==
  ASSUME Fresh, NEW n \in Nat
  PROVE  /\ before' \in Place /\ focus' \in BOOLEAN /\ image' \in Nat
         /\ walk' \in Walk /\ walk'.since <= n
         /\ stable' \in BOOLEAN /\ diff' \in [comparable : BOOLEAN, changed : BOOLEAN]
         /\ taken' \subseteq Place /\ returned' \in BOOLEAN
<1>1. walk' \in Walk /\ walk'.since <= n
  BY DEF Fresh, NoWalk, Walk
<1>2. before' \in Place /\ focus' \in BOOLEAN /\ image' \in Nat
  BY DEF Fresh, Nowhere, Place
<1>3. diff' \in [comparable : BOOLEAN, changed : BOOLEAN]
  BY DEF Fresh, NoDiff
<1> QED BY <1>1, <1>2, <1>3 DEF Fresh

LEMMA EnvironmentType ==
  ASSUME TypeOK, WindowChanges \/ TreeChanges PROVE TypeOK'
<1>1. CASE WindowChanges
  <2>1. PICK f \in DOMAIN desk : \E v \in (IF f = "ident" THEN 0 ELSE 1)..MaxValue :
          /\ desk' = [desk EXCEPT ![f] = v]
          /\ edits' = IF f = "ident" THEN edits + 1 ELSE edits
    BY <1>1 DEF WindowChanges
  <2>2. PICK v \in (IF f = "ident" THEN 0 ELSE 1)..MaxValue :
          /\ desk' = [desk EXCEPT ![f] = v]
          /\ edits' = IF f = "ident" THEN edits + 1 ELSE edits
    BY <2>1
  <2>3. desk' \in Place
    <3>1. v \in Nat
      BY <2>2, HistoryAssumption
    <3> QED BY <2>2, <3>1 DEF TypeOK, Place
  <2>4. edits' \in Nat /\ walk.since <= edits' /\ changes' \in Nat
    <3>1. edits' = edits + 1 \/ edits' = edits
      BY <2>2
    <3>2. edits \in Nat /\ changes \in Nat /\ walk.since \in Nat /\ walk.since <= edits
      BY DEF TypeOK, Walk
    <3>3. changes' = changes + 1
      BY <1>1 DEF WindowChanges, Changes
    <3> QED BY <3>1, <3>2, <3>3
  <2>5. returned' \in BOOLEAN
    BY <1>1 DEF WindowChanges
  <2> QED BY <1>1, <2>3, <2>4, <2>5 DEF WindowChanges, ringVars, TypeOK
<1>2. CASE TreeChanges
  <2>1. kids \in Seq(Child) /\ changes \in Nat
    BY DEF TypeOK
  <2>2. kids' \in Seq(Child)
    <3>1. ASSUME NEW i \in DOMAIN kids, kids' = [kids EXCEPT ![i].showing = ~@]
          PROVE  kids' \in Seq(Child)
      <4>1. i \in 1..Len(kids)
        BY <2>1, LenProperties
      <4>2. kids[i] \in Child
        BY <4>1, <2>1, ElementOfSeq
      <4>3. [kids[i] EXCEPT !.showing = ~@] \in Child
        BY <4>2 DEF Child
      <4>4. kids' = [kids EXCEPT ![i] = [kids[i] EXCEPT !.showing = ~@]]
        BY <3>1
      <4> QED BY <4>1, <4>3, <4>4, <2>1, ExceptSeq
    <3>2. ASSUME NEW i \in DOMAIN kids, kids' = RemoveAt(kids, i) PROVE kids' \in Seq(Child)
      BY <3>2, <2>1, RemoveAtType
    <3>3. ASSUME NEW w \in {kids[i].win : i \in DOMAIN kids \cap {1}} \cup {changes + 3},
                 kids' = <<[win |-> w, id |-> changes + 3, showing |-> TRUE]>> \o kids
          PROVE  kids' \in Seq(Child)
      <4>1. \A i \in DOMAIN kids : kids[i].win \in Nat
        <5>1. \A i \in DOMAIN kids : kids[i] \in Child
          BY <2>1
        <5> QED BY <5>1 DEF Child
      <4>2. w \in Nat
        BY <2>1, <4>1
      <4>3. [win |-> w, id |-> changes + 3, showing |-> TRUE] \in Child
        BY <2>1, <4>2 DEF Child
      <4> QED BY <3>3, <4>3, <2>1
    <3> QED BY <1>2, <3>1, <3>2, <3>3 DEF TreeChanges
  <2>3. edits' = edits + 1 /\ changes' = changes + 1
    BY <1>2 DEF TreeChanges, Changes
  <2>4. UNCHANGED <<desk, ringVars, calls, pc, callVars>>
    BY <1>2 DEF TreeChanges
  <2>5. edits' \in Nat /\ changes' \in Nat /\ walk' \in Walk /\ walk'.since <= edits'
    BY <2>3, <2>4 DEF TypeOK, callVars, Walk
  <2> QED BY <2>2, <2>4, <2>5 DEF ringVars, callVars, TypeOK
<1> QED BY <1>1, <1>2

\* The records after the next node has been read.
VisitRecords ==
  IF walk.next \in DOMAIN kids /\ (off \/ kids[walk.next].showing)
  THEN walk.records \cup Read(walk.next) ELSE walk.records

\* What is recorded of a node, and the window it is listed under.
LEMMA ReadType ==
  ASSUME TypeOK, NEW i \in DOMAIN kids
  PROVE  Read(i) \subseteq Row /\ kids[i].win \in Nat
<1>1. kids \in Seq(Child) /\ i \in 1..Len(kids) /\ Len(kids) \in Nat
  BY LenProperties DEF TypeOK
<1>2. kids[i] \in Child
  BY <1>1, ElementOfSeq
<1>3. kids[i].win \in Nat /\ kids[i].id \in Nat /\ kids[i].showing \in BOOLEAN
  BY <1>2 DEF Child
<1> DEFINE place == {j \in DOMAIN kids : j <= i /\ kids[j].win = kids[i].win}
<1>4. Cardinality(place) \in Nat
  <2>1. IsFiniteSet(1..Len(kids))
    BY <1>1, FS_Interval
  <2>3. place \subseteq 1..Len(kids)
    BY <1>1, LenProperties
  <2>2. IsFiniteSet(place)
    BY <2>1, <2>3, FS_Subset
  <2> QED BY <2>2, FS_CardinalityType
<1>5. Key(i) = <<kids[i].win, kids[i].id, Cardinality(place)>>
  BY DEF Key
<1> HIDE DEF place
<1> QED BY <1>3, <1>4, <1>5 DEF Read, Row

LEMMA VisitType ==
  TypeOK => VisitRecords \in SUBSET Row /\ walk.wins \cup Wins(walk.next) \in SUBSET Nat
<1> HAVE TypeOK
<1>1. walk.records \in SUBSET Row /\ walk.wins \in SUBSET Nat
  BY DEF TypeOK, Walk
<1>2. CASE walk.next \in DOMAIN kids
  <2>1. Read(walk.next) \subseteq Row /\ kids[walk.next].win \in Nat
    BY <1>2, ReadType
  <2> QED BY <1>1, <2>1 DEF VisitRecords, Wins
<1>3. CASE walk.next \notin DOMAIN kids
  BY <1>1, <1>3 DEF VisitRecords, Wins
<1> QED BY <1>2, <1>3

\* What each step makes of the walk.
LEMMA WalkNumbers ==
  TypeOK => /\ walk \in Walk /\ walk.next \in Nat /\ walk.count \in Nat /\ edits \in Nat
            /\ walk.next + 1 \in Nat /\ walk.count + 1 \in Nat
BY DEF TypeOK, Walk

LEMMA CountActs ==
  ASSUME TypeOK, CountChildren
  PROVE  \E n \in Nat :
           /\ n = Len(kids) \/ desk.ident # before.ident
           /\ walk' = [next |-> walk.next, count |-> n, wins |-> walk.wins,
                       records |-> walk.records, complete |-> walk.complete,
                       silent |-> walk.silent, since |-> edits]
           /\ walk' \in Walk
<1>1. PICK n \in {Len(kids)} \cup (IF desk.ident = before.ident THEN {} ELSE {0}) :
        walk' = [walk EXCEPT !.count = n, !.since = edits]
  BY DEF CountChildren
<1>2. n \in Nat
  BY LenProperties DEF TypeOK
<1>3. /\ walk' = [next |-> walk.next, count |-> n, wins |-> walk.wins,
                  records |-> walk.records, complete |-> walk.complete,
                  silent |-> walk.silent, since |-> edits]
      /\ walk' \in Walk
  BY <1>1, <1>2, WalkNumbers, Counted, Zenon
<1> QED BY <1>1, <1>2, <1>3

LEMMA VisitActs ==
  ASSUME TypeOK, Visit
  PROVE  /\ walk' = [next |-> walk.next + 1, count |-> walk.count,
                     wins |-> walk.wins \cup Wins(walk.next), records |-> VisitRecords,
                     complete |-> walk.complete, silent |-> walk.silent, since |-> walk.since]
         /\ walk' \in Walk
<1> DEFINE n == walk.next + 1
           z == walk.wins \cup Wins(walk.next)
           r == VisitRecords
<1>1. walk' = [walk EXCEPT !.next = n, !.wins = z, !.records = r]
  BY DEF Visit, VisitRecords
<1>2. walk \in Walk /\ n \in Nat /\ z \in SUBSET Nat /\ r \in SUBSET Row
  BY VisitType, WalkNumbers
<1> HIDE DEF n, z, r
<1>3. /\ [walk EXCEPT !.next = n, !.wins = z, !.records = r] =
           [next |-> n, count |-> walk.count, wins |-> z, records |-> r,
            complete |-> walk.complete, silent |-> walk.silent, since |-> walk.since]
      /\ [walk EXCEPT !.next = n, !.wins = z, !.records = r] \in Walk
  BY <1>2, Visited
<1>4. /\ walk' = [next |-> n, count |-> walk.count, wins |-> z, records |-> r,
                  complete |-> walk.complete, silent |-> walk.silent, since |-> walk.since]
      /\ walk' \in Walk
  BY <1>1, <1>3, Zenon
<1> QED BY <1>4 DEF n, z, r

LEMMA CutActs ==
  ASSUME TypeOK, VisitFails
  PROVE  /\ walk' = [next |-> walk.count + 1, count |-> walk.count, wins |-> walk.wins,
                     records |-> {}, complete |-> FALSE, silent |-> walk.silent,
                     since |-> walk.since]
         /\ walk' \in Walk
<1>1. walk' = [walk EXCEPT !.next = walk.count + 1, !.records = {}, !.complete = FALSE]
  BY DEF VisitFails
<1> QED BY <1>1, WalkNumbers, Cut, Zenon

LEMMA SkipActs ==
  ASSUME TypeOK, StatesUnread
  PROVE  /\ walk' = [next |-> walk.next + 1, count |-> walk.count,
                     wins |-> walk.wins \cup Wins(walk.next), records |-> walk.records,
                     complete |-> walk.complete, silent |-> TRUE, since |-> walk.since]
         /\ walk' \in Walk
<1>1. walk' = [walk EXCEPT !.next = walk.next + 1, !.wins = walk.wins \cup Wins(walk.next),
                          !.silent = TRUE]
  BY DEF StatesUnread
<1> QED BY <1>1, VisitType, WalkNumbers, Skipped, Zenon

\* The steps that a walk takes.
LEMMA WalkType ==
  ASSUME TypeOK, CountChildren \/ Visit \/ VisitFails \/ StatesUnread
  PROVE  walk' \in Walk /\ walk'.since <= edits
<1>0. walk.since <= edits /\ edits \in Nat
  BY DEF TypeOK
<1>1. CASE CountChildren
  BY <1>0, <1>1, CountActs
<1>2. CASE Visit
  BY <1>0, <1>2, VisitActs
<1>3. CASE VisitFails
  BY <1>0, <1>3, CutActs
<1>4. CASE StatesUnread
  BY <1>0, <1>4, SkipActs
<1> QED BY <1>1, <1>2, <1>3, <1>4

LEMMA ObservationType ==
  ASSUME TypeOK,
         \/ Resolve \/ TakeImage \/ CountChildren \/ Visit \/ VisitFails
         \/ StatesUnread \/ ResolveAgain \/ Compare
  PROVE  TypeOK'
<1>1. CASE Resolve
  BY <1>1 DEF Resolve, Goto, deskVars, ringVars, TypeOK
<1>2. CASE TakeImage
  <2>1. image' \in Nat
    BY <1>2, HistoryAssumption DEF TakeImage
  <2> QED BY <1>2, <2>1 DEF TakeImage, Goto, deskVars, ringVars, TypeOK
<1>3. CASE CountChildren
  BY <1>3, WalkType DEF CountChildren, Goto, deskVars, ringVars, TypeOK
<1>4. CASE Visit
  BY <1>4, WalkType DEF Visit, Goto, deskVars, ringVars, TypeOK
<1>5. CASE VisitFails
  BY <1>5, WalkType DEF VisitFails, Goto, deskVars, ringVars, TypeOK
<1>6. CASE StatesUnread
  BY <1>6, WalkType DEF StatesUnread, Goto, deskVars, ringVars, TypeOK
<1>7. CASE ResolveAgain
  <2>1. stable' \in BOOLEAN
    BY <1>7 DEF ResolveAgain
  <2> QED BY <1>7, <2>1 DEF ResolveAgain, Goto, deskVars, ringVars, TypeOK
<1>8. CASE Compare
  <2> DEFINE same == /\ prev # NoCapture /\ stable
                     /\ prev.window.ident = before.ident
                     /\ prev.complete /\ walk.complete
  <2>1. diff' = [comparable |-> same, changed |-> same /\ prev.records # walk.records]
    BY <1>8 DEF Compare
  <2>2. same \in BOOLEAN
    BY Zenon
  <2> HIDE DEF same
  <2>3. (same /\ prev.records # walk.records) \in BOOLEAN
    BY Zenon
  <2> DEFINE changed == same /\ prev.records # walk.records
  <2>4. diff' = [comparable |-> same, changed |-> changed] /\ changed \in BOOLEAN
    BY <2>1, <2>3
  <2> HIDE DEF changed
  <2>5. diff' \in [comparable : BOOLEAN, changed : BOOLEAN]
    BY <2>2, <2>4
  <2> QED BY <1>8, <2>5 DEF Compare, Goto, deskVars, ringVars, TypeOK
<1> QED BY <1>1, <1>2, <1>3, <1>4, <1>5, <1>6, <1>7, <1>8

LEMMA DesktopCaptureType ==
  TypeOK => [target |-> "desktop", id |-> 0, window |-> desk, image |-> 0, named |-> 0,
             records |-> {}, complete |-> FALSE, off |-> FALSE, silent |-> FALSE, since |-> 0]
            \in Capture
BY DEF TypeOK, Capture

\* The window that a walk names is the only one it listed.
LEMMA NamedOne == TypeOK => Named \in Nat /\ (Named # 0 => walk.wins = {Named})
<1> HAVE TypeOK
<1>1. walk.wins \in SUBSET Nat
  BY DEF TypeOK, Walk
<1>2. CASE \E w \in walk.wins : walk.wins = {w}
  <2>1. PICK w \in walk.wins : walk.wins = {w}
    BY <1>2
  <2>2. (CHOOSE v \in walk.wins : TRUE) \in walk.wins
    BY <2>1
  <2>3. Named = w
    BY <1>2, <2>1, <2>2 DEF Named
  <2> QED BY <1>1, <2>1, <2>3
<1>3. CASE ~ \E w \in walk.wins : walk.wins = {w}
  BY <1>3 DEF Named
<1> QED BY <1>2, <1>3

\* What an observation stores.
Observed == [target |-> "window", id |-> 0, window |-> before, image |-> image,
             named |-> Named, records |-> walk.records, complete |-> walk.complete,
             off |-> off, silent |-> walk.silent, since |-> walk.since]

LEMMA WindowCaptureType == TypeOK => Observed \in Capture
<1> HAVE TypeOK
<1>1. /\ walk.records \in SUBSET Row /\ walk.complete \in BOOLEAN /\ walk.silent \in BOOLEAN
      /\ walk.since \in Nat /\ image \in Nat /\ off \in BOOLEAN /\ before \in Place
  BY DEF TypeOK, Walk
<1> QED BY <1>1, NamedOne DEF Observed, Capture

LEMMA CallType ==
  ASSUME TypeOK, Screenshot \/ Observe \/ Fail \/ Register \/ Report \/ Cleanup
  PROVE  TypeOK'
<1>1. CASE Screenshot
  BY <1>1, DesktopCaptureType, StoreType DEF Screenshot, Calls, deskVars, callVars, TypeOK
<1>2. CASE Observe
  <2>1. PICK p \in Retained \cup {NoCapture}, o \in BOOLEAN : Begin(p, o)
    BY <1>2 DEF Observe
  <2>2. p \in Capture \cup {NoCapture}
    BY <2>1 DEF Retained, TypeOK
  <2>3. UNCHANGED <<deskVars, ringVars>> /\ Fresh
    BY <2>1 DEF Begin
  <2> QED BY <2>1, <2>2, <2>3, FreshType DEF Begin, Calls, deskVars, ringVars, TypeOK
<1>3. CASE Fail
  BY <1>3, FreshType DEF Fail, deskVars, ringVars, TypeOK
<1>4. CASE Register
  <2>1. stored' \in Nat /\ history' \in [Slots -> Capture \cup {NoCapture}]
    BY <1>4, WindowCaptureType, StoreType DEF Register, Observed, ringVars, TypeOK
  <2> QED BY <1>4, <2>1 DEF Register, deskVars, callVars, TypeOK
<1>5. CASE Report
  BY <1>5, FreshType DEF Report, deskVars, ringVars, TypeOK
<1>6. CASE Cleanup
  BY <1>6 DEF Cleanup, deskVars, callVars, TypeOK
<1> QED BY <1>1, <1>2, <1>3, <1>4, <1>5, <1>6

LEMMA NextType == TypeOK /\ [Next]_vars => TypeOK'
<1> SUFFICES ASSUME TypeOK, [Next]_vars PROVE TypeOK'
  OBVIOUS
<1>1. CASE UNCHANGED vars
  BY <1>1 DEF vars, deskVars, ringVars, callVars, TypeOK
<1> QED BY <1>1, EnvironmentType, ObservationType, CallType DEF Next

\* Every variable of an observation and of the ring keeps its range.
THEOREM Typed == Spec => []TypeOK
<1>1. Init => TypeOK
  BY InitType
<1>2. TypeOK /\ [Next]_vars => TypeOK'
  BY NextType
<1> QED BY <1>1, <1>2, PTL DEF Spec

-----------------------------------------------------------------------------
(* The ring and the heap. *)

WindowSlots == {s \in Slots : history[s].target = "window"}

\* Ids are handed out once, the heap holds those of the retained window captures,
\* and the capture to compare with stays retained until the new one is stored.
RingInv ==
  /\ \A s \in Slots : history[s] # NoCapture => history[s].id \in 1..stored
  /\ \A s, t \in Slots :
       history[s] # NoCapture /\ history[t] # NoCapture /\ history[s].id = history[t].id => s = t
  /\ heap = {history[s].id : s \in WindowSlots}
  /\ pc \notin {"idle", "report", "ended"} /\ prev # NoCapture => \E s \in WindowSlots : prev = history[s]

\* No capture is the empty slot.
LEMMA CaptureIsSome == NoCapture.target = "none" /\ NoCapture \notin Capture
BY DEF NoCapture, Capture

\* The ring owns its projections from the start, and every store keeps that so.
LEMMA RingInit == Init => RingInv
<1> HAVE Init
<1>1. \A s \in Slots : history[s] = NoCapture
  BY DEF Init
<1>2. WindowSlots = {}
  BY <1>1, CaptureIsSome DEF WindowSlots
<1> QED BY <1>1, <1>2 DEF Init, RingInv

\* A store keeps the first three parts.
LEMMA StoreOwned ==
  ASSUME TypeOK, RingInv, NEW c \in Capture, Store(c)
  PROVE  /\ \A s \in Slots : history'[s] # NoCapture => history'[s].id \in 1..stored'
         /\ \A s, t \in Slots :
              history'[s] # NoCapture /\ history'[t] # NoCapture /\ history'[s].id = history'[t].id
              => s = t
         /\ heap' = {history'[s].id : s \in WindowSlots'}
<1> DEFINE d == [c EXCEPT !.id = stored + 1]
<1>1. Slot \in Slots /\ stored \in Nat /\ stored' = stored + 1
  BY SlotType DEF TypeOK, Store
<1>2. d.id = stored + 1 /\ d.target = c.target /\ d \in Capture
  <2>1. stored + 1 \in Nat
    BY <1>1
  <2>2. /\ d = [target |-> c.target, id |-> stored + 1, window |-> c.window, image |-> c.image,
               named |-> c.named, records |-> c.records, complete |-> c.complete,
               off |-> c.off, silent |-> c.silent, since |-> c.since]
        /\ d \in Capture
    BY <2>1, Stamped, Zenon
  <2> HIDE DEF d
  <2> QED BY <2>2
<1>3. history' = [history EXCEPT ![Slot] = d]
  BY DEF Store, Slot
<1> HIDE DEF d
<1>4. history'[Slot] = d /\ \A s \in Slots \ {Slot} : history'[s] = history[s]
  BY <1>1, <1>3 DEF TypeOK
<1>5. \A s \in Slots : history[s] # NoCapture => history[s].id \in 1..stored
  BY DEF RingInv
<1>6. \A s, t \in Slots :
        history[s] # NoCapture /\ history[t] # NoCapture /\ history[s].id = history[t].id => s = t
  BY DEF RingInv
<1>7. \A s \in Slots : history'[s] # NoCapture => history'[s].id \in 1..stored'
  <2> TAKE s \in Slots
  <2>1. CASE s = Slot
    BY <2>1, <1>1, <1>2, <1>4
  <2>2. CASE s # Slot
    BY <2>2, <1>1, <1>4, <1>5
  <2> QED BY <2>1, <2>2
<1>8. ASSUME NEW s \in Slots, NEW t \in Slots, history'[s] # NoCapture, history'[t] # NoCapture,
             history'[s].id = history'[t].id
      PROVE  s = t
  <2>1. CASE s = Slot /\ t # Slot
    BY <2>1, <1>8, <1>1, <1>2, <1>4, <1>5
  <2>2. CASE s # Slot /\ t = Slot
    BY <2>2, <1>8, <1>1, <1>2, <1>4, <1>5
  <2>3. CASE s # Slot /\ t # Slot
    BY <2>3, <1>8, <1>4, <1>6
  <2> QED BY <2>1, <2>2, <2>3
<1>9. heap' = {history'[s].id : s \in WindowSlots'}
  <2> DEFINE freed == IF history[Slot] = NoCapture THEN {} ELSE {history[Slot].id}
             new == IF c.target = "window" THEN {stored + 1} ELSE {}
  <2>1. heap' = (heap \ freed) \cup new /\ heap = {history[s].id : s \in WindowSlots}
    BY DEF Store, RingInv, Slot
  <2>2. \A s \in WindowSlots : s \in Slots /\ history[s] # NoCapture
    BY CaptureIsSome DEF WindowSlots
  <2>3. WindowSlots' = (WindowSlots \ {Slot}) \cup (IF c.target = "window" THEN {Slot} ELSE {})
    BY <1>1, <1>2, <1>4 DEF WindowSlots
  <2>4. ASSUME NEW n \in heap' PROVE \E s \in WindowSlots' : n = history'[s].id
    <3>1. CASE n \in new
      BY <3>1, <2>3, <1>2, <1>4
    <3>2. CASE n \in heap \ freed
      <4>1. PICK s \in WindowSlots : n = history[s].id
        BY <3>2, <2>1
      <4>2. s # Slot
        BY <3>2, <4>1, <2>2
      <4> QED BY <4>1, <4>2, <2>2, <2>3, <1>4
    <3> QED BY <2>1, <2>4, <3>1, <3>2
  <2>5. ASSUME NEW s \in WindowSlots' PROVE history'[s].id \in heap'
    <3>1. CASE s = Slot
      <4>1. c.target = "window"
        BY <3>1, <2>3, <2>5
      <4> QED BY <3>1, <4>1, <2>1, <1>2, <1>4
    <3>2. CASE s # Slot
      <4>1. s \in WindowSlots /\ s \in Slots /\ history[s] # NoCapture
        BY <3>2, <2>2, <2>3, <2>5
      <4>2. history[s].id \notin freed
        BY <3>2, <4>1, <1>1, <1>6
      <4> QED BY <4>1, <4>2, <3>2, <2>1, <1>4
    <3> QED BY <3>1, <3>2
  <2> QED BY <2>4, <2>5
<1> QED BY <1>7, <1>8, <1>9

LEMMA RingNext == TypeOK /\ RingInv /\ [Next]_vars => RingInv'
<1> SUFFICES ASSUME TypeOK, RingInv, [Next]_vars PROVE RingInv'
  OBVIOUS
<1>1. ASSUME UNCHANGED ringVars, UNCHANGED prev \/ prev' = NoCapture,
             pc' \in {"idle", "report", "ended"} \/ pc \notin {"idle", "report", "ended"}
      PROVE  RingInv'
  BY <1>1 DEF RingInv, WindowSlots, ringVars
<1>2. CASE WindowChanges
  BY <1>2 DEF WindowChanges, RingInv, WindowSlots, ringVars
<1>4. CASE TreeChanges
  BY <1>4 DEF TreeChanges, RingInv, WindowSlots, ringVars, callVars
<1>5. CASE Screenshot
  <2>1. pc' = "idle"
    BY <1>5 DEF Screenshot
  <2> QED BY <1>5, <2>1, DesktopCaptureType, StoreOwned DEF Screenshot, RingInv
<1>6. CASE Observe
  <2>1. PICK p \in Retained \cup {NoCapture}, o \in BOOLEAN : Begin(p, o)
    BY <1>6 DEF Observe
  <2>2. UNCHANGED ringVars /\ prev' = p
    BY <2>1 DEF Begin
  <2>3. prev' # NoCapture => \E s \in WindowSlots : prev' = history[s]
    BY <2>1, <2>2 DEF Begin, Retained, WindowSlots
  <2>4. WindowSlots' = WindowSlots /\ history' = history /\ heap' = heap /\ stored' = stored
    BY <2>2 DEF WindowSlots, ringVars
  <2>5. prev' # NoCapture => \E s \in WindowSlots' : prev' = history'[s]
    BY <2>3, <2>4
  <2> QED BY <2>4, <2>5 DEF RingInv
<1>7. CASE Fail
  BY <1>7, <1>1 DEF Fail
<1>8. CASE Resolve
  BY <1>8, <1>1 DEF Resolve, Goto
<1>10. CASE TakeImage
  BY <1>10, <1>1 DEF TakeImage, Goto
<1>11. CASE CountChildren
  BY <1>11, <1>1 DEF CountChildren, Goto
<1>12. CASE Visit
  BY <1>12, <1>1 DEF Visit, Goto
<1>13. CASE VisitFails
  BY <1>13, <1>1 DEF VisitFails, Goto
<1>14. CASE StatesUnread
  BY <1>14, <1>1 DEF StatesUnread, Goto
<1>15. CASE ResolveAgain
  BY <1>15, <1>1 DEF ResolveAgain, Goto
<1>17. CASE Compare
  BY <1>17, <1>1 DEF Compare, Goto
<1>18. CASE Register
  <2>1. pc' = "report"
    BY <1>18 DEF Register
  <2>2. CASE stable
    <3>1. Observed \in Capture /\ Store(Observed)
      BY <1>18, <2>2, WindowCaptureType DEF Register, Observed
    <3> QED BY <2>1, <3>1, StoreOwned DEF RingInv
  <2>3. CASE ~stable
    BY <1>18, <2>1, <2>3, <1>1 DEF Register, callVars
  <2> QED BY <2>2, <2>3
<1>19. CASE Report
  BY <1>19, <1>1 DEF Report
<1>20. CASE Cleanup
  <2>1. \A s \in Slots : history'[s] = NoCapture
    BY <1>20 DEF Cleanup
  <2>2. WindowSlots' = {} /\ heap' = {} /\ pc' = "ended"
    BY <1>20, <2>1, CaptureIsSome DEF Cleanup, WindowSlots
  <2> QED BY <2>1, <2>2 DEF RingInv
<1>21. CASE UNCHANGED vars
  BY <1>21 DEF vars, ringVars, callVars, RingInv, WindowSlots
<1> QED BY <1>2, <1>4, <1>5, <1>6, <1>7, <1>8, <1>10, <1>11, <1>12, <1>13, <1>14, <1>15, <1>17,
           <1>18, <1>19, <1>20, <1>21 DEF Next

LEMMA RingOwned == TypeOK /\ RingInv => ProjectionsOwned
<1> HAVE TypeOK /\ RingInv
<1>1. {c.id : c \in {r \in Retained : r.target = "window"}} = {history[s].id : s \in WindowSlots}
  BY CaptureIsSome DEF Retained, WindowSlots
<1>2. pc = "diff" /\ prev # NoCapture => prev.id \in heap
  BY DEF RingInv
<1> QED BY <1>1, <1>2 DEF RingInv, ProjectionsOwned

\* Each retained window capture owns its projection, nothing else is allocated, and
\* none is compared after it was freed, however many captures were stored.
THEOREM RingOwnsProjections == Spec => []ProjectionsOwned
<1>1. Init => TypeOK /\ RingInv
  BY InitType, RingInit
<1>2. (TypeOK /\ RingInv) /\ [Next]_vars => (TypeOK /\ RingInv)'
  BY NextType, RingNext
<1>3. TypeOK /\ RingInv => ProjectionsOwned
  BY RingOwned
<1> QED BY <1>1, <1>2, <1>3, PTL DEF Spec

-----------------------------------------------------------------------------
(* The window that was looked at. *)

\* While the readings last they are of the window as it was resolved, or it has left that
\* state, or it has come back to it; once the readings stand, it was not seen in another
\* state unless it came back.  A row that was read is of a window that was listed.
WindowInv ==
  /\ pc \in {"resolve", "image"} => taken = {}
  /\ pc \in {"count", "walk"} => taken # {} /\ (desk = before => taken = {before} \/ returned)
  /\ pc \in {"diff", "store"} /\ stable =>
       (taken = {before} \/ returned) /\ image = before.size
  /\ \A row \in walk.records : row[1][1] \in walk.wins

LEMMA WindowInit == Init => WindowInv
BY DEF Init, NoWalk, WindowInv

\* A step of the walk that reads the node at place i lists its window.
LEMMA RowsListed ==
  ASSUME TypeOK, \A row \in walk.records : row[1][1] \in walk.wins
  PROVE  \A row \in VisitRecords : row[1][1] \in walk.wins \cup Wins(walk.next)
<1>1. CASE walk.next \in DOMAIN kids
  <2>1. \A row \in Read(walk.next) : row[1][1] = kids[walk.next].win
    BY DEF Read, Key
  <2>2. Wins(walk.next) = {kids[walk.next].win}
    BY <1>1 DEF Wins
  <2>3. \A row \in VisitRecords : row \in walk.records \/ row \in Read(walk.next)
    BY DEF VisitRecords
  <2> QED BY <2>1, <2>2, <2>3
<1>2. CASE walk.next \notin DOMAIN kids
  <2>1. VisitRecords = walk.records
    BY <1>2 DEF VisitRecords
  <2> QED BY <2>1
<1> QED BY <1>1, <1>2

\* Whatever changes meanwhile, the readings so far are of the window they say.
LEMMA WindowNext ==
  ASSUME TypeOK, WindowInv, [Next]_vars PROVE WindowInv'
<1>1. ASSUME UNCHANGED <<desk, before, image, stable, taken, returned, walk>>,
             pc' = pc \/ pc' \in {"idle", "ended", "report"}
      PROVE  WindowInv'
  BY <1>1 DEF WindowInv
<1>2. ASSUME Fresh, pc' \in {"idle", "resolve"} PROVE WindowInv'
  <2>1. taken' = {} /\ walk'.records = {}
    BY <1>2 DEF Fresh, NoWalk
  <2> QED BY <1>2, <2>1 DEF WindowInv
<1>3. CASE WindowChanges
  <2>1. /\ returned' = (returned \/ (desk # before /\ desk' = before))
        /\ UNCHANGED <<pc, before, image, stable, taken, walk>>
    BY <1>3 DEF WindowChanges
  <2>2. returned => returned'
    BY <2>1
  <2>3. desk # before /\ desk' = before => returned'
    BY <2>1
  <2>4. pc \in {"count", "walk"} /\ desk' = before => taken = {before} \/ returned'
    BY <2>2, <2>3 DEF WindowInv
  <2>5. pc \in {"diff", "store"} /\ stable => taken = {before} \/ returned'
    BY <2>2 DEF WindowInv
  <2> QED BY <2>1, <2>4, <2>5 DEF WindowInv
<1>4. CASE TreeChanges
  BY <1>4, <1>1 DEF TreeChanges, callVars
<1>5. CASE Screenshot
  BY <1>5, <1>1 DEF Screenshot, deskVars, callVars
<1>6. CASE Observe
  BY <1>6, <1>2 DEF Observe, Begin
<1>7. CASE Fail
  BY <1>7, <1>2 DEF Fail
<1>8. CASE Resolve
  <2>1. pc = "resolve" /\ pc' = "image" /\ UNCHANGED <<taken, walk>>
    BY <1>8 DEF Resolve, Goto
  <2> QED BY <2>1 DEF WindowInv
<1>9. CASE TakeImage
  <2>1. /\ pc = "image" /\ pc' = "count" /\ taken' = {desk}
        /\ UNCHANGED <<desk, before, walk>>
    BY <1>9 DEF TakeImage, Goto, deskVars
  <2> QED BY <2>1 DEF WindowInv
<1>10. ASSUME UNCHANGED <<desk, before, returned>>, pc \in {"count", "walk"}, pc' = "walk",
              taken' = taken \cup {desk} \/ taken' = taken,
              \A row \in walk'.records : row[1][1] \in walk'.wins
       PROVE  WindowInv'
  BY <1>10 DEF WindowInv
<1>11. CASE CountChildren
  <2>1. walk'.records = walk.records /\ walk'.wins = walk.wins
    BY <1>11, CountActs
  <2>2. \A row \in walk'.records : row[1][1] \in walk'.wins
    BY <2>1 DEF WindowInv
  <2> QED BY <1>11, <2>2, <1>10 DEF CountChildren, Goto, deskVars
<1>12. CASE Visit
  <2>1. walk'.records = VisitRecords /\ walk'.wins = walk.wins \cup Wins(walk.next)
    BY <1>12, VisitActs
  <2>2. \A row \in walk'.records : row[1][1] \in walk'.wins
    BY <2>1, RowsListed DEF WindowInv
  <2> QED BY <1>12, <2>2, <1>10 DEF Visit, Goto, deskVars
<1>13. CASE VisitFails
  <2>1. walk'.records = {}
    BY <1>13, CutActs
  <2> QED BY <1>13, <2>1, <1>10 DEF VisitFails, Goto, deskVars
<1>14. CASE StatesUnread
  <2>1. walk'.records = walk.records /\ walk'.wins = walk.wins \cup Wins(walk.next)
    BY <1>14, SkipActs
  <2>2. \A row \in walk'.records : row[1][1] \in walk'.wins
    BY <2>1 DEF WindowInv
  <2> QED BY <1>14, <2>2, <1>10 DEF StatesUnread, Goto, deskVars
<1>15. CASE ResolveAgain
  <2>1. /\ UNCHANGED <<desk, before, image, taken, returned, walk>> /\ pc = "walk" /\ pc' = "diff"
        /\ stable' => desk = before /\ image = before.size
    BY <1>15 DEF ResolveAgain, Goto, deskVars
  <2> QED BY <2>1 DEF WindowInv
<1>16. CASE Compare
  <2>1. /\ UNCHANGED <<desk, before, image, stable, taken, returned, walk>>
        /\ pc = "diff" /\ pc' = "store"
    BY <1>16 DEF Compare, Goto, deskVars
  <2> QED BY <2>1 DEF WindowInv
<1>17. CASE Register
  BY <1>17, <1>1 DEF Register, deskVars, callVars
<1>18. CASE Report
  BY <1>18, <1>2 DEF Report
<1>19. CASE Cleanup
  BY <1>19, <1>1 DEF Cleanup, deskVars, callVars
<1>20. CASE UNCHANGED vars
  BY <1>20, <1>1 DEF vars, deskVars, callVars
<1> QED BY <1>3, <1>4, <1>5, <1>6, <1>7, <1>8, <1>9, <1>11, <1>12, <1>13, <1>14, <1>15, <1>16,
           <1>17, <1>18, <1>19, <1>20 DEF Next

\* What a capture of a window owes: its image's size, one state of the window, and no node
\* of a namesake of the window it names.
Owed(c) ==
  c.target = "window" =>
    /\ c.image = c.window.size
    /\ taken = {c.window} \/ returned
    /\ c.named # 0 => \A row \in c.records : row[1][1] = c.named

\* A store adds one capture to the retained ones.
LEMMA StoreAdds ==
  ASSUME TypeOK, NEW c \in Capture, Store(c), NEW d \in Retained' \ Retained
  PROVE  /\ d.target = c.target /\ d.window = c.window /\ d.image = c.image
         /\ d.named = c.named /\ d.records = c.records
<1> DEFINE new == [c EXCEPT !.id = stored + 1]
<1>1. Slot \in Slots /\ stored + 1 \in Nat
  BY SlotType DEF TypeOK
<1>2. /\ new.target = c.target /\ new.window = c.window /\ new.image = c.image
      /\ new.named = c.named /\ new.records = c.records
  <2>1. new = [target |-> c.target, id |-> stored + 1, window |-> c.window, image |-> c.image,
               named |-> c.named, records |-> c.records, complete |-> c.complete,
               off |-> c.off, silent |-> c.silent, since |-> c.since]
    BY <1>1, Stamped, Zenon
  <2> HIDE DEF new
  <2> QED BY <2>1
<1>3. history' = [history EXCEPT ![Slot] = new]
  BY DEF Store, Slot
<1> HIDE DEF new
<1>4. history'[Slot] = new /\ \A s \in Slots \ {Slot} : history'[s] = history[s]
  BY <1>1, <1>3 DEF TypeOK
<1>5. PICK s \in Slots : d = history'[s] /\ d # NoCapture
  BY DEF Retained
<1>6. s = Slot
  BY <1>4, <1>5 DEF Retained
<1> QED BY <1>2, <1>4, <1>5, <1>6

\* What an observation stores keeps what it owes.
LEMMA ObservedOwes ==
  ASSUME TypeOK, WindowInv, pc = "store", stable
  PROVE  Owed(Observed)
<1>1. (taken = {before} \/ returned) /\ image = before.size
  BY DEF WindowInv
<1>2. ASSUME Named # 0, NEW row \in walk.records PROVE row[1][1] = Named
  <2>1. walk.wins = {Named}
    BY <1>2, NamedOne
  <2>2. row[1][1] \in walk.wins
    BY <1>2 DEF WindowInv
  <2> QED BY <2>1, <2>2
<1> QED BY <1>1, <1>2 DEF Owed, Observed

LEMMA CapturesOwe ==
  ASSUME TypeOK, WindowInv, Next, NEW c \in Retained' \ Retained
  PROVE  Owed(c)
<1>1. ASSUME UNCHANGED history PROVE FALSE
  BY <1>1 DEF Retained
<1>2. CASE Screenshot
  <2> DEFINE d == [target |-> "desktop", id |-> 0, window |-> desk, image |-> 0, named |-> 0,
                   records |-> {}, complete |-> FALSE, off |-> FALSE, silent |-> FALSE,
                   since |-> 0]
  <2>1. d \in Capture /\ Store(d) /\ d.target # "window"
    BY <1>2, DesktopCaptureType DEF Screenshot
  <2> HIDE DEF d
  <2> QED BY <2>1, StoreAdds DEF Owed
<1>3. CASE Register
  <2>1. stable
    BY <1>1, <1>3 DEF Register, ringVars
  <2>2. Observed \in Capture /\ Store(Observed) /\ pc = "store"
    BY <1>3, <2>1, WindowCaptureType DEF Register, Observed
  <2>3. Owed(Observed)
    BY <2>1, <2>2, ObservedOwes
  <2>4. /\ c.target = Observed.target /\ c.window = Observed.window /\ c.image = Observed.image
        /\ c.named = Observed.named /\ c.records = Observed.records
    BY <2>2, StoreAdds
  <2> HIDE DEF Observed
  <2> QED BY <2>3, <2>4 DEF Owed
<1>4. CASE Cleanup
  BY <1>4 DEF Cleanup, Retained
<1>5. CASE WindowChanges \/ TreeChanges \/ Observe \/ Fail \/ Report
  <2>1. UNCHANGED history
    BY <1>5 DEF WindowChanges, TreeChanges, Observe, Begin, Fail, Report, ringVars
  <2> QED BY <2>1, <1>1
<1>6. CASE Resolve \/ TakeImage \/ CountChildren \/ Visit \/ VisitFails \/ StatesUnread
           \/ ResolveAgain \/ Compare
  <2>1. UNCHANGED history
    BY <1>6 DEF Resolve, TakeImage, CountChildren, Visit, VisitFails, StatesUnread, ResolveAgain,
           Compare, Goto, ringVars
  <2> QED BY <2>1, <1>1
<1> QED BY <1>2, <1>3, <1>4, <1>5, <1>6 DEF Next

\* Whatever became of the window meanwhile: the image of a capture has the size the capture
\* records; image and nodes were read while the window had the identity, place and size
\* recorded, unless it left that state and came back; and a capture that names its
\* accessible window holds no node of another window with its title.
THEOREM CapturesOneWindow == Spec => CaptureIsOfOneWindow
<1> DEFINE Step == \A c \in Retained' \ Retained : c.target = "window" =>
                     /\ c.image = c.window.size
                     /\ taken = {c.window} \/ returned
                     /\ c.named # 0 => \A row \in c.records : row[1][1] = c.named
<1>1. Init => TypeOK /\ WindowInv
  BY InitType, WindowInit
<1>2. (TypeOK /\ WindowInv) /\ [Next]_vars => (TypeOK /\ WindowInv)'
  BY NextType, WindowNext
<1>3. TypeOK /\ WindowInv /\ [Next]_vars => [Step]_vars
  BY CapturesOwe DEF Owed
<1> QED BY <1>1, <1>2, <1>3, PTL DEF Spec, CaptureIsOfOneWindow, Step

-----------------------------------------------------------------------------
(* What a diff may say. *)

\* The records of the children before the n-th, as a walk of the present tree
\* would leave them.
Upto(n, o) ==
  {<<Key(i), kids[i].showing>> : i \in {j \in DOMAIN kids : j < n /\ (o \/ kids[j].showing)}}

Full(o) == Upto(Len(kids) + 1, o)

\* A capture of the present tree that lost nothing has all its records.
Current(c) ==
  /\ c.since <= edits
  /\ c.since = edits /\ c.complete /\ ~c.silent => c.records = Full(c.off)

\* The walk under way; it is only short of nodes if the window is not the one resolved.
WalkInv ==
  /\ prev # NoCapture => prev.since <= walk.since
  /\ walk.next <= walk.count + 1
  /\ pc # "walk" => walk.next = walk.count + 1
  /\ walk.since = edits /\ walk.complete /\ ~walk.silent =>
       /\ walk.records = Upto(walk.next, off)
       /\ walk.count = Len(kids) \/ (pc = "walk" /\ desk.ident # before.ident)

Walked == {"walk", "diff", "store"}

DiffInv ==
  /\ \A s \in Slots : history[s].target = "window" => Current(history[s])
  /\ prev # NoCapture => Current(prev)
  /\ pc \in {"resolve", "image", "count"} => walk = NoWalk
  /\ pc \in Walked => WalkInv
  /\ diff.comparable => pc \in {"store", "report"} /\ prev # NoCapture
  /\ DiffReportsChange

LEMMA DiffInit == Init => DiffInv
<1> HAVE Init
<1>1. \A s \in Slots : history[s].target = "none"
  BY CaptureIsSome DEF Init
<1>2. ~diff.comparable
  BY DEF Init, NoDiff
<1> QED BY <1>1, <1>2 DEF Init, DiffInv, DiffReportsChange, Walked

\* While the tree stays, so do the records a walk of it leaves.
LEMMA SameTree ==
  ASSUME kids' = kids
  PROVE  (\A n, o : Upto(n, o)' = Upto(n, o)) /\ \A o : Full(o)' = Full(o)
<1>1. \A i : Key(i)' = Key(i)
  BY DEF Key
<1>2. \A n, o : Upto(n, o)' = Upto(n, o)
  BY <1>1 DEF Upto
<1> QED BY <1>2 DEF Full

\* And what was recorded of it stays current.
LEMMA HistoryCurrent ==
  ASSUME DiffInv, UNCHANGED <<kids, edits, history>>
  PROVE  \A s \in Slots : history'[s].target = "window" => Current(history[s])'
<1>1. \A o : Full(o)' = Full(o)
  BY SameTree
<1> QED BY <1>1 DEF DiffInv, Current

LEMMA PrevCurrent ==
  ASSUME DiffInv, UNCHANGED <<kids, edits, prev>>
  PROVE  prev' # NoCapture => Current(prev)'
<1>1. \A o : Full(o)' = Full(o)
  BY SameTree
<1> QED BY <1>1 DEF DiffInv, Current

\* A walk that lost nothing has, at its end, all records of the tree.
LEMMA WalkedAll ==
  ASSUME TypeOK, DiffInv, pc \in {"diff", "store"},
         walk.since = edits, walk.complete, ~walk.silent
  PROVE  walk.records = Full(off)
<1>1. WalkInv
  BY DEF DiffInv, Walked
<1>2. walk.count = Len(kids) /\ walk.next = walk.count + 1
  BY <1>1 DEF WalkInv
<1>3. walk.records = Upto(walk.next, off)
  BY <1>1 DEF WalkInv
<1> QED BY <1>2, <1>3 DEF Full

\* A step that leaves the tree, the ring and the call's own records alone.
LEMMA DiffKept ==
  ASSUME TypeOK, DiffInv, UNCHANGED <<kids, edits, history, off, prev, walk, diff>>,
         diff.comparable => before'.ident = before.ident /\ pc' \in {"store", "report"},
         pc' \in {"resolve", "image", "count"} => pc \in {"resolve", "image", "count"},
         pc' \in Walked =>
           /\ pc \in Walked /\ desk'.ident = desk.ident /\ before' = before
           /\ pc' = pc \/ (pc # "walk" /\ pc' # "walk")
                \/ (walk.next = walk.count + 1 /\ desk.ident = before.ident)
  PROVE  DiffInv'
<1>1. \A s \in Slots : history'[s].target = "window" => Current(history[s])'
  BY HistoryCurrent
<1>2. prev' # NoCapture => Current(prev)'
  BY PrevCurrent
<1>3. ASSUME pc' \in Walked PROVE WalkInv'
  <2>1. WalkInv
    BY <1>3 DEF DiffInv
  <2>2. Upto(walk.next, off)' = Upto(walk.next, off)
    BY DEF Upto, Key
  <2>3. pc' # "walk" => walk.next = walk.count + 1
    BY <1>3, <2>1 DEF WalkInv
  <2>4. pc = "walk" /\ desk.ident # before.ident => pc' = "walk" /\ desk'.ident # before'.ident
    BY <1>3
  <2>5. walk.since = edits /\ walk.complete /\ ~walk.silent =>
          /\ walk.records = Upto(walk.next, off)
          /\ walk.count = Len(kids) \/ (pc' = "walk" /\ desk'.ident # before'.ident)
    BY <2>1, <2>4 DEF WalkInv
  <2> QED BY <2>1, <2>2, <2>3, <2>5 DEF WalkInv
<1>4. DiffReportsChange' /\ (diff'.comparable => pc' \in {"store", "report"} /\ prev' # NoCapture)
  <2>1. DiffReportsChange /\ (diff.comparable => prev # NoCapture)
    BY DEF DiffInv
  <2> QED BY <2>1 DEF DiffReportsChange
<1>5. pc' \in {"resolve", "image", "count"} => walk' = NoWalk
  BY DEF DiffInv
<1> QED BY <1>1, <1>2, <1>3, <1>4, <1>5 DEF DiffInv

\* A store keeps every retained record of the present tree complete.
LEMMA StoreCurrent ==
  ASSUME TypeOK, DiffInv, NEW c \in Capture, Store(c), UNCHANGED <<kids, edits>>,
         c.target = "window" => Current(c)
  PROVE  \A s \in Slots : history'[s].target = "window" => Current(history[s])'
<1> DEFINE d == [c EXCEPT !.id = stored + 1]
<1>1. Slot \in Slots /\ stored + 1 \in Nat
  BY SlotType DEF TypeOK
<1>2. d = [target |-> c.target, id |-> stored + 1, window |-> c.window, image |-> c.image,
           named |-> c.named, records |-> c.records, complete |-> c.complete,
           off |-> c.off, silent |-> c.silent, since |-> c.since]
  BY <1>1, Stamped, Zenon
<1>3. history' = [history EXCEPT ![Slot] = d]
  BY DEF Store, Slot
<1> HIDE DEF d
<1>4. history'[Slot] = d /\ \A s \in Slots \ {Slot} : history'[s] = history[s]
  BY <1>1, <1>3 DEF TypeOK
<1>5. \A o : Full(o)' = Full(o)
  BY DEF Full, Upto, Key
<1>6. d.target = "window" => d.since <= edits
        /\ (d.since = edits /\ d.complete /\ ~d.silent => d.records = Full(d.off))
  BY <1>2 DEF Current
<1> TAKE s \in Slots
<1>7. CASE s = Slot
  BY <1>7, <1>4, <1>5, <1>6 DEF Current
<1>8. CASE s # Slot
  BY <1>8, <1>4, <1>5 DEF Current, DiffInv
<1> QED BY <1>7, <1>8

\* The call starts or returns: nothing is compared.
LEMMA DiffFresh ==
  ASSUME TypeOK, DiffInv, Fresh, UNCHANGED <<kids, edits, history>>,
         prev' = NoCapture \/ Current(prev)',
         pc' \in {"idle", "resolve"}
  PROVE  DiffInv'
<1>1. \A s \in Slots : history'[s].target = "window" => Current(history[s])'
  BY HistoryCurrent
<1>2. walk' = NoWalk /\ ~diff'.comparable
  BY DEF Fresh, NoDiff
<1> QED BY <1>1, <1>2 DEF DiffInv, Walked, DiffReportsChange

\* A change of what a walk finds outdates every capture taken before it.
LEMMA DiffTreeChanges ==
  ASSUME TypeOK, DiffInv, edits' = edits + 1,
         UNCHANGED <<history, pc, off, prev, before, walk, diff>>
  PROVE  DiffInv'
<1>1. /\ edits' = edits + 1 /\ edits \in Nat
      /\ UNCHANGED <<history, pc, off, prev, before, walk, diff>>
  BY DEF TypeOK
<1>2. ASSUME NEW c, c.since \in Nat, Current(c)
      PROVE  c.since <= edits' /\ c.since # edits'
  BY <1>1, <1>2 DEF Current
<1>3. \A s \in Slots : history'[s].target = "window" => Current(history[s])'
  <2> SUFFICES ASSUME NEW s \in Slots, history[s].target = "window" PROVE Current(history[s])'
    BY <1>1
  <2>1. history[s].since \in Nat /\ Current(history[s])
    BY CaptureIsSome DEF TypeOK, Capture, DiffInv
  <2> QED BY <2>1, <1>1, <1>2 DEF Current
<1>4. ASSUME prev # NoCapture PROVE Current(prev)' /\ prev.since # edits'
  <2>1. prev.since \in Nat /\ Current(prev)
    BY <1>4 DEF TypeOK, Capture, DiffInv
  <2> QED BY <2>1, <1>1, <1>2 DEF Current
<1>5. ASSUME pc \in Walked PROVE WalkInv'
  <2>1. WalkInv /\ walk.since \in Nat /\ walk.since <= edits
    BY <1>5 DEF DiffInv, TypeOK, Walk
  <2> QED BY <2>1, <1>1 DEF WalkInv
<1>6. DiffReportsChange'
  <2>1. diff.comparable => prev # NoCapture /\ prev.window.ident = before.ident
    BY DEF DiffInv, DiffReportsChange
  <2> QED BY <2>1, <1>1, <1>4 DEF DiffReportsChange
<1> QED BY <1>1, <1>3, <1>4, <1>5, <1>6 DEF DiffInv

\* A fresh count starts a walk that has read nothing yet.
LEMMA DiffCount == ASSUME TypeOK, DiffInv, CountChildren PROVE DiffInv'
<1>1. /\ UNCHANGED <<desk, kids, edits, history, off, prev, diff, before>>
      /\ pc = "count" /\ pc' = "walk"
  BY DEF CountChildren, Goto, deskVars, ringVars
<1>2. PICK n \in Nat :
        /\ n = Len(kids) \/ desk.ident # before.ident
        /\ walk' = [next |-> walk.next, count |-> n, wins |-> walk.wins,
                    records |-> walk.records, complete |-> walk.complete,
                    silent |-> walk.silent, since |-> edits]
  BY CountActs
<1>3. walk = NoWalk
  BY <1>1 DEF DiffInv
<1>4. walk'.next = 1 /\ walk'.count = n /\ walk'.records = {} /\ walk'.since = edits
  BY <1>2, <1>3 DEF NoWalk
<1>5. Upto(1, off)' = {}
  BY <1>1, LenProperties DEF Upto, TypeOK
<1>6. \A s \in Slots : history'[s].target = "window" => Current(history[s])'
  BY <1>1, HistoryCurrent
<1>7. prev' # NoCapture => Current(prev)' /\ prev'.since <= edits
  <2>1. prev' # NoCapture => Current(prev)'
    BY <1>1, PrevCurrent
  <2>2. prev # NoCapture => prev.since <= edits
    BY DEF DiffInv, Current
  <2> QED BY <1>1, <2>1, <2>2
<1>8. ~diff'.comparable
  BY <1>1 DEF DiffInv
<1>9. WalkInv'
  <2>1. walk'.records = Upto(walk.next, off)'
    BY <1>4, <1>5 DEF Upto
  <2>2. walk'.next <= walk'.count + 1 /\ pc' = "walk"
    BY <1>1, <1>4
  <2>3. walk'.count = Len(kids') \/ desk'.ident # before'.ident
    BY <1>1, <1>2, <1>4
  <2>4. prev' # NoCapture => prev'.since <= walk'.since
    BY <1>4, <1>7
  <2> QED BY <2>1, <2>2, <2>3, <2>4 DEF WalkInv
<1> QED BY <1>1, <1>6, <1>7, <1>8, <1>9 DEF DiffInv, DiffReportsChange

\* The records so far, after the next node has been read.
LEMMA VisitUpto ==
  ASSUME TypeOK, walk.records = Upto(walk.next, off)
  PROVE  VisitRecords = Upto(walk.next + 1, off)
<1>1. DOMAIN kids \subseteq Nat /\ walk.next \in Nat
  BY LenProperties DEF TypeOK, Walk
<1>2. {j \in DOMAIN kids : j < walk.next + 1 /\ (off \/ kids[j].showing)}
      = {j \in DOMAIN kids : j < walk.next /\ (off \/ kids[j].showing)}
        \cup (IF walk.next \in DOMAIN kids /\ (off \/ kids[walk.next].showing)
              THEN {walk.next} ELSE {})
  BY <1>1
<1> QED BY <1>2 DEF Upto, VisitRecords, Read

\* Each step of the walk keeps the records those of the nodes passed.
LEMMA DiffWalk == ASSUME TypeOK, DiffInv, Visit \/ VisitFails \/ StatesUnread PROVE DiffInv'
<1>1. /\ UNCHANGED <<desk, kids, edits, history, off, prev, diff, before>>
      /\ pc = "walk" /\ pc' = "walk" /\ walk.next <= walk.count
  BY DEF Visit, VisitFails, StatesUnread, Goto, deskVars, ringVars
<1>2. /\ WalkInv /\ walk \in Walk /\ edits \in Nat
      /\ walk.next \in Nat /\ walk.count \in Nat /\ walk.next + 1 \in Nat /\ walk.count + 1 \in Nat
  BY <1>1 DEF DiffInv, TypeOK, Walk, Walked
<1>3. \A s \in Slots : history'[s].target = "window" => Current(history[s])'
  BY <1>1, HistoryCurrent
<1>4. prev' # NoCapture => Current(prev)'
  BY <1>1, PrevCurrent
<1>5. ~diff'.comparable
  BY <1>1 DEF DiffInv
<1>6. WalkInv'
  <2>1. CASE Visit
    <3>1. walk' = [next |-> walk.next + 1, count |-> walk.count,
                   wins |-> walk.wins \cup Wins(walk.next), records |-> VisitRecords,
                   complete |-> walk.complete, silent |-> walk.silent, since |-> walk.since]
      BY <2>1, VisitActs
    <3>2. /\ walk'.next = walk.next + 1 /\ walk'.count = walk.count
          /\ walk'.records = VisitRecords /\ walk'.complete = walk.complete
          /\ walk'.silent = walk.silent /\ walk'.since = walk.since
      BY <3>1
    <3>3. Upto(walk.next, off)' = Upto(walk.next + 1, off)
      BY <1>1, <3>2 DEF Upto, Key
    <3>4. walk.records = Upto(walk.next, off) => walk'.records = Upto(walk.next, off)'
      BY <3>2, <3>3, VisitUpto
    <3>5. walk'.next <= walk'.count + 1
      BY <1>1, <1>2, <3>2
    <3> QED BY <1>1, <1>2, <3>2, <3>4, <3>5 DEF WalkInv
  <2>2. CASE VisitFails
    <3>1. walk' = [next |-> walk.count + 1, count |-> walk.count, wins |-> walk.wins,
                   records |-> {}, complete |-> FALSE, silent |-> walk.silent,
                   since |-> walk.since]
      BY <2>2, CutActs
    <3> QED BY <1>1, <1>2, <3>1 DEF WalkInv
  <2>3. CASE StatesUnread
    <3>1. walk' = [next |-> walk.next + 1, count |-> walk.count,
                   wins |-> walk.wins \cup Wins(walk.next), records |-> walk.records,
                   complete |-> walk.complete, silent |-> TRUE, since |-> walk.since]
      BY <2>3, SkipActs
    <3> QED BY <1>1, <1>2, <3>1 DEF WalkInv
  <2> QED BY <2>1, <2>2, <2>3
<1> QED BY <1>1, <1>3, <1>4, <1>5, <1>6 DEF DiffInv, DiffReportsChange

\* What the comparison of two captures finds is a change of the tree.
LEMMA DiffCompare == ASSUME TypeOK, DiffInv, Compare PROVE DiffInv'
<1> DEFINE same == /\ prev # NoCapture /\ stable
                   /\ prev.window.ident = before.ident
                   /\ prev.complete /\ walk.complete
<1>1. /\ UNCHANGED <<desk, kids, edits, history, off, prev, walk, before>>
      /\ pc = "diff" /\ pc' = "store"
      /\ diff' = [comparable |-> same, changed |-> same /\ prev.records # walk.records]
  BY DEF Compare, Goto, deskVars, ringVars
<1>2. /\ diff'.comparable <=> same
      /\ diff'.changed <=> same /\ prev.records # walk.records
  BY <1>1
<1>3. \A s \in Slots : history'[s].target = "window" => Current(history[s])'
  BY <1>1, HistoryCurrent
<1>4. prev' # NoCapture => Current(prev)'
  BY <1>1, PrevCurrent
<1>5. WalkInv'
  <2>1. WalkInv
    BY <1>1 DEF DiffInv, Walked
  <2>2. Upto(walk.next, off)' = Upto(walk.next, off)
    BY <1>1 DEF Upto, Key
  <2> QED BY <1>1, <2>1, <2>2 DEF WalkInv
<1>6. ASSUME same, prev.since = edits, prev.off = off, ~prev.silent, ~walk.silent
      PROVE  prev.records = walk.records
  <2>1. prev.records = Full(off)
    BY <1>6 DEF DiffInv, Current
  <2>2. WalkInv /\ walk.since \in Nat /\ walk.since <= edits /\ edits \in Nat
    BY <1>1 DEF DiffInv, Walked, TypeOK, Walk
  <2>3. walk.since = edits
    BY <1>6, <2>2 DEF WalkInv
  <2> QED BY <1>1, <1>6, <2>1, <2>3, WalkedAll
<1>7. DiffReportsChange'
  BY <1>1, <1>2, <1>6 DEF DiffReportsChange
<1> QED BY <1>1, <1>2, <1>3, <1>4, <1>5, <1>7 DEF DiffInv, Walked

LEMMA DiffRegister == ASSUME TypeOK, DiffInv, Register PROVE DiffInv'
<1> DEFINE c == Observed
<1>1. /\ UNCHANGED <<kids, edits, off, prev, walk, before, diff>>
      /\ pc = "store" /\ pc' = "report" /\ (IF stable THEN Store(c) ELSE UNCHANGED ringVars)
  BY DEF Register, Observed, deskVars, callVars
<1>2. c \in Capture
  BY WindowCaptureType
<1>3. Current(c)
  <2>1. walk.since <= edits
    BY DEF TypeOK
  <2>2. walk.since = edits /\ walk.complete /\ ~walk.silent => walk.records = Full(off)
    BY <1>1, WalkedAll
  <2> QED BY <2>1, <2>2 DEF Current, Observed
<1> HIDE DEF c
<1>4. \A s \in Slots : history'[s].target = "window" => Current(history[s])'
  <2>1. CASE stable
    BY <2>1, <1>1, <1>2, <1>3, StoreCurrent
  <2>2. CASE ~stable
    <3>1. UNCHANGED <<kids, edits, history>>
      BY <2>2, <1>1 DEF ringVars
    <3> QED BY <3>1, HistoryCurrent
  <2> QED BY <2>1, <2>2
<1>5. prev' # NoCapture => Current(prev)'
  BY <1>1, PrevCurrent
<1>6. DiffReportsChange' /\ (diff'.comparable => prev' # NoCapture)
  BY <1>1 DEF DiffInv, DiffReportsChange
<1> QED BY <1>1, <1>4, <1>5, <1>6 DEF DiffInv, Walked

LEMMA DiffNext ==
  ASSUME TypeOK, DiffInv, [Next]_vars PROVE DiffInv'
<1>1. CASE WindowChanges
  <2>1. UNCHANGED <<kids, history, pc, off, prev, before, walk, diff>>
    BY <1>1 DEF WindowChanges, ringVars
  <2>2. edits' = edits + 1 \/ (edits' = edits /\ desk'.ident = desk.ident)
    BY <1>1 DEF WindowChanges, TypeOK, Place
  <2>3. CASE edits' = edits + 1
    BY <2>1, <2>3, DiffTreeChanges
  <2>4. CASE edits' = edits /\ desk'.ident = desk.ident
    <3>1. diff.comparable => pc \in {"store", "report"}
      BY DEF DiffInv
    <3> QED BY <2>1, <2>4, <3>1, DiffKept
  <2> QED BY <2>2, <2>3, <2>4
<1>3. CASE TreeChanges
  BY <1>3, DiffTreeChanges DEF TreeChanges, ringVars, callVars
<1>4. CASE Screenshot
  <2> DEFINE c == [target |-> "desktop", id |-> 0, window |-> desk, image |-> 0, named |-> 0,
                   records |-> {}, complete |-> FALSE, off |-> FALSE, silent |-> FALSE,
                   since |-> 0]
  <2>1. c \in Capture /\ c.target # "window" /\ Store(c)
    BY <1>4, DesktopCaptureType DEF Screenshot
  <2>2. UNCHANGED <<kids, edits, off, prev, walk, before, diff>> /\ pc = "idle" /\ pc' = "idle"
    BY <1>4 DEF Screenshot, deskVars, callVars
  <2> HIDE DEF c
  <2>3. \A s \in Slots : history'[s].target = "window" => Current(history[s])'
    BY <2>1, <2>2, StoreCurrent
  <2>4. prev' # NoCapture => Current(prev)'
    BY <2>2, PrevCurrent
  <2>5. ~diff'.comparable
    BY <2>2 DEF DiffInv
  <2> QED BY <2>2, <2>3, <2>4, <2>5 DEF DiffInv, Walked, DiffReportsChange
<1>5. CASE Observe
  <2>1. PICK p \in Retained \cup {NoCapture}, o \in BOOLEAN : Begin(p, o)
    BY <1>5 DEF Observe
  <2>2. UNCHANGED <<kids, edits, history>> /\ Fresh /\ prev' = p /\ pc' = "resolve"
    BY <2>1 DEF Begin, deskVars, ringVars
  <2>3. p # NoCapture => Current(p)
    BY <2>1 DEF Begin, Retained, DiffInv
  <2>4. prev' = NoCapture \/ Current(prev)'
    <3>1. \A b : Full(b)' = Full(b)
      BY <2>2, SameTree
    <3> QED BY <2>2, <2>3, <3>1 DEF Current
  <2> QED BY <2>2, <2>4, DiffFresh
<1>6. CASE Fail
  BY <1>6, DiffFresh DEF Fail, deskVars, ringVars
<1>7. CASE Resolve
  BY <1>7, DiffKept DEF Resolve, Goto, deskVars, ringVars, DiffInv, Walked
<1>9. CASE TakeImage
  BY <1>9, DiffKept DEF TakeImage, Goto, deskVars, ringVars, DiffInv, Walked
<1>10. CASE CountChildren
  BY <1>10, DiffCount
<1>11. CASE Visit \/ VisitFails \/ StatesUnread
  BY <1>11, DiffWalk
<1>12. CASE ResolveAgain
  <2>1. /\ UNCHANGED <<desk, kids, edits, history, off, prev, walk, diff, before>>
        /\ pc = "walk" /\ pc' = "diff" /\ walk.next > walk.count /\ desk.ident = before.ident
    BY <1>12 DEF ResolveAgain, Goto, deskVars, ringVars
  <2>2. WalkInv /\ ~diff.comparable
    BY <2>1 DEF DiffInv, Walked
  <2>3. walk.next = walk.count + 1
    BY <2>1, <2>2 DEF WalkInv, TypeOK, Walk
  <2> QED BY <2>1, <2>2, <2>3, DiffKept DEF Walked
<1>14. CASE Compare
  BY <1>14, DiffCompare
<1>15. CASE Register
  BY <1>15, DiffRegister
<1>16. CASE Report
  BY <1>16, DiffFresh DEF Report, deskVars, ringVars
<1>17. CASE Cleanup
  <2>1. /\ UNCHANGED <<kids, edits, off, prev, walk, before, diff>> /\ pc = "idle" /\ pc' = "ended"
        /\ \A s \in Slots : history'[s] = NoCapture
    BY <1>17 DEF Cleanup, deskVars, callVars
  <2>2. prev' # NoCapture => Current(prev)'
    BY <2>1, PrevCurrent
  <2>3. ~diff'.comparable
    BY <2>1 DEF DiffInv
  <2> QED BY <2>1, <2>2, <2>3, CaptureIsSome DEF DiffInv, Walked, DiffReportsChange
<1>18. CASE UNCHANGED vars
  BY <1>18, DiffKept DEF vars, deskVars, ringVars, callVars, DiffInv
<1> QED BY <1>1, <1>3, <1>4, <1>5, <1>6, <1>7, <1>9, <1>10, <1>11, <1>12, <1>14, <1>15, <1>16,
           <1>17, <1>18 DEF Next

\* Two complete observations of an unchanged tree with the same bounds differ in
\* nothing, whatever moved between any two of their readings and however many
\* captures were stored between them; a diff never crosses two targets.
THEOREM DiffInventsNothing == Spec => []DiffReportsChange
<1>1. Init => TypeOK /\ DiffInv
  BY InitType, DiffInit
<1>2. (TypeOK /\ DiffInv) /\ [Next]_vars => (TypeOK /\ DiffInv)'
  BY NextType, DiffNext
<1>3. DiffInv => DiffReportsChange
  BY DEF DiffInv
<1> QED BY <1>1, <1>2, <1>3, PTL DEF Spec
=============================================================================
