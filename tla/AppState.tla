------------------------------ MODULE AppState ------------------------------
(***************************************************************************)
(* Observing an application (tool_get_app_state in csrc/tools.c) and the   *)
(* captures it leaves behind (csrc/captures.c): the window is resolved,    *)
(* its image taken, its accessible tree walked, the window resolved again; *)
(* only if nothing moved meanwhile the observation becomes a capture, kept *)
(* in a small ring together with a heap copy of its semantic projection.   *)
(* The desktop changes between any two of these steps.                     *)
(***************************************************************************)
EXTENDS Naturals, FiniteSets, Sequences, SequencesExt

CONSTANTS
  HistorySize,   \* CAPTURE_HISTORY_SIZE
  MaxValue,      \* bound: identities, places and sizes of a window
  MaxCalls,      \* bound: tool calls
  MaxEvents      \* bound: tool calls, and changes of the desktop, which count twice

ASSUME HistoryAssumption == HistorySize \in Nat \ {0} /\ MaxValue \in Nat \ {0}

Slots == 1..HistorySize

NoCapture == [target |-> "none", id |-> 0]

VARIABLES
  desk,      \* the window: its identity (0: gone), place and size
  kids,      \* the accessible nodes of every window of its process that has its title,
             \* this one or a namesake: [win, id, showing]
  changes,   \* bound; makes what a change of the tree introduces fresh
  edits,     \* history: changes to what a walk finds
  history,   \* the ring: slot -> capture
  stored,    \* captures stored so far; the last one's id
  heap,      \* ids of the captures whose projection is allocated
  calls,
  pc,
  off,       \* includeOffscreen
  prev,      \* copy of the capture to compare with
  before,    \* the window when the observation began
  focus,     \* and whether it was known then which window had the focus
  image,     \* the image's source size
  walk,      \* [next, count, wins, records, complete, silent, since]
  stable,
  diff,      \* [comparable, changed]
  taken,     \* history: the states the window was in when image and tree were read
  returned   \* history: it has become again what it was when it was resolved

deskVars == <<desk, kids, changes, edits>>
ringVars == <<history, stored, heap>>
callVars == <<off, prev, before, focus, image, walk, stable, diff, taken, returned>>
vars == <<deskVars, ringVars, calls, pc, callVars>>

Nowhere == [ident |-> 0, place |-> 0, size |-> 0]
NoWalk == [next |-> 1, count |-> 0, wins |-> {}, records |-> {}, complete |-> TRUE,
           silent |-> FALSE, since |-> 0]
NoDiff == [comparable |-> FALSE, changed |-> FALSE]

Init ==
  /\ desk = [ident |-> 1, place |-> 1, size |-> 1]
  /\ kids \in {<<[win |-> 1, id |-> 1, showing |-> TRUE]>> \o others :
                others \in {<< >>, <<[win |-> 2, id |-> 2, showing |-> FALSE]>>}}
  /\ changes = 0 /\ edits = 0
  /\ history = [s \in Slots |-> NoCapture] /\ stored = 0 /\ heap = {}
  /\ calls = 0 /\ pc = "idle"
  /\ off = FALSE /\ prev = NoCapture /\ before = Nowhere /\ focus = FALSE /\ image = 0
  /\ walk = NoWalk /\ stable = FALSE /\ diff = NoDiff
  /\ taken = {} /\ returned = FALSE

-----------------------------------------------------------------------------
(* The desktop. *)

Changes == 2 * changes + calls + 1 < MaxEvents /\ changes' = changes + 1

\* The window is moved, resized, closed or replaced, and any of it may be undone later.
\* With the identity, what has the title in the process changes.
WindowChanges ==
  /\ Changes
  /\ \E f \in DOMAIN desk : \E v \in (IF f = "ident" THEN 0 ELSE 1)..MaxValue :
       /\ v # desk[f]
       /\ desk' = [desk EXCEPT ![f] = v]
       /\ edits' = IF f = "ident" THEN edits + 1 ELSE edits
  /\ returned' = (returned \/ (desk # before /\ desk' = before))
  /\ UNCHANGED <<kids, ringVars, calls, pc, off, prev, before, focus, image, walk, stable, diff,
                 taken>>

\* A node shows or hides, goes, or comes, in an open window or in one that opens.
TreeChanges ==
  /\ Changes /\ edits' = edits + 1
  /\ \/ \E i \in DOMAIN kids :
          \/ kids' = [kids EXCEPT ![i].showing = ~@]
          \/ kids' = RemoveAt(kids, i)
     \/ \E w \in {kids[i].win : i \in DOMAIN kids \cap {1}} \cup {changes + 3} :
          kids' = <<[win |-> w, id |-> changes + 3, showing |-> TRUE]>> \o kids
  /\ UNCHANGED <<desk, ringVars, calls, pc, callVars>>

-----------------------------------------------------------------------------
(* captures.c *)

\* Fault: the slot's former projection is not freed.
StoreLeaking(c) ==
  LET s == (stored % HistorySize) + 1 IN
  /\ stored' = stored + 1
  /\ history' = [history EXCEPT ![s] = [c EXCEPT !.id = stored + 1]]
  /\ heap' = heap \cup (IF c.target = "window" THEN {stored + 1} ELSE {})

\* store_capture: the next slot's former projection is freed, whoever has a copy of
\* its record.
Store(c) ==
  LET s == (stored % HistorySize) + 1 IN
  /\ stored' = stored + 1
  /\ history' = [history EXCEPT ![s] = [c EXCEPT !.id = stored + 1]]
  /\ heap' = (heap \ (IF history[s] = NoCapture THEN {} ELSE {history[s].id}))
             \cup (IF c.target = "window" THEN {stored + 1} ELSE {})

Calls == calls < MaxCalls /\ 2 * changes + calls < MaxEvents /\ calls' = calls + 1

Retained == {history[s] : s \in Slots} \ {NoCapture}

-----------------------------------------------------------------------------
(* screenshot of the whole desktop *)

Screenshot ==
  /\ Calls /\ pc = "idle"
  /\ Store([target |-> "desktop", id |-> 0, window |-> desk, image |-> 0, named |-> 0,
            records |-> {}, complete |-> FALSE, off |-> FALSE, silent |-> FALSE, since |-> 0])
  /\ UNCHANGED <<deskVars, pc, callVars>>

-----------------------------------------------------------------------------
(* get_app_state *)

Fresh ==
  /\ before' = Nowhere /\ focus' = FALSE /\ image' = 0
  /\ walk' = NoWalk /\ stable' = FALSE /\ diff' = NoDiff
  /\ taken' = {} /\ returned' = FALSE

\* captures_lookup of previousCaptureId: a retained, recent capture of a window; any
\* other is refused before anything is looked at.
Begin(p, o) ==
  /\ Calls /\ pc = "idle"
  /\ p = NoCapture \/ (p \in Retained /\ p.target = "window")
  /\ pc' = "resolve" /\ prev' = p /\ off' = o
  /\ Fresh
  /\ UNCHANGED <<deskVars, ringVars>>

\* Any error result: nothing of the call remains but what it stored.
Fail ==
  /\ pc \notin {"idle", "ended"}
  /\ pc' = "idle" /\ prev' = NoCapture /\ off' = FALSE
  /\ Fresh
  /\ UNCHANGED <<deskVars, ringVars, calls>>

Goto(p) == pc' = p /\ UNCHANGED <<deskVars, ringVars, calls, off, prev>>

\* resolve_app_state_target, and the focus, which anything may have at any time.
Resolve ==
  /\ pc = "resolve" /\ desk.ident # 0
  /\ before' = desk /\ focus' \in BOOLEAN
  /\ Goto("image")
  /\ UNCHANGED <<image, walk, stable, diff, taken, returned>>

\* capture_target_image: the raw frame, which has the window's size, or another program's
\* picture of it, which may include its decoration and have any.
TakeImage ==
  /\ pc = "image" /\ desk.ident # 0
  /\ image' \in 1..MaxValue
  /\ taken' = {desk}
  /\ Goto("count")
  /\ UNCHANGED <<before, focus, walk, stable, diff, returned>>

\* accessibility_tree_exact finds windows by their title and filter_semantic_process drops
\* those of other processes: namesakes stay, and the title may have gone with the identity.
\* A failed walk is no error.  (The nodes of all windows are counted at once.)
CountChildren ==
  /\ pc = "count"
  /\ \E n \in {Len(kids)} \cup (IF desk.ident = before.ident THEN {} ELSE {0}) :
       walk' = [walk EXCEPT !.count = n, !.since = edits]
  /\ taken' = taken \cup {desk}
  /\ Goto("walk")
  /\ UNCHANGED <<before, focus, image, stable, diff, returned>>

\* projection_record: the object, and its path inside its window.
Key(i) == <<kids[i].win, kids[i].id,
            Cardinality({j \in DOMAIN kids : j <= i /\ kids[j].win = kids[i].win})>>
Read(i) == {<<Key(i), kids[i].showing>>}
Wins(i) == IF i \in DOMAIN kids THEN {kids[i].win} ELSE {}

\* traverse_nodes: one node; nodes that do not show are left out unless asked for, their
\* window is listed all the same.
Visit ==
  /\ pc = "walk" /\ walk.next <= walk.count
  /\ walk' = [walk EXCEPT !.next = @ + 1, !.wins = @ \cup Wins(walk.next),
       !.records = IF walk.next \in DOMAIN kids /\ (off \/ kids[walk.next].showing)
                   THEN @ \cup Read(walk.next) ELSE @]
  /\ taken' = taken \cup {desk}
  /\ Goto("walk")
  /\ UNCHANGED <<before, focus, image, stable, diff, returned>>

\* A call fails and is counted, or a limit cuts the walk off: the projection is
\* incomplete, and nobody compares its records.
VisitFails ==
  /\ pc = "walk" /\ walk.next <= walk.count
  /\ walk' = [walk EXCEPT !.next = walk.count + 1, !.records = {}, !.complete = FALSE]
  /\ Goto("walk")
  /\ UNCHANGED <<before, focus, image, stable, diff, taken, returned>>

\* The state set of a node cannot be read: that is no error, it does not show.
StatesUnread ==
  /\ pc = "walk" /\ walk.next <= walk.count /\ ~off
  /\ walk' = [walk EXCEPT !.next = @ + 1, !.wins = @ \cup Wins(walk.next), !.silent = TRUE]
  /\ Goto("walk")
  /\ UNCHANGED <<before, focus, image, stable, diff, taken, returned>>

\* Fault: only the identity is compared after the walk.
ResolveAgainIdentity ==
  /\ pc = "walk" /\ walk.next > walk.count
  /\ desk.ident = before.ident
  /\ stable' \in {FALSE, image = before.size /\ focus}
  /\ Goto("diff")
  /\ UNCHANGED <<before, focus, image, walk, diff, taken, returned>>

\* The window is resolved again, gone or replaced is an error (Fail), and the focus is read
\* again, the same or not.  Only two readings are compared, and the image's size with the
\* first.
ResolveAgain ==
  /\ pc = "walk" /\ walk.next > walk.count
  /\ desk.ident = before.ident
  /\ stable' \in {FALSE, desk = before /\ image = before.size /\ focus}
  /\ Goto("diff")
  /\ UNCHANGED <<before, focus, image, walk, diff, taken, returned>>

\* Fault: a walk that lost calls is compared like a complete one.
CompareIncomplete ==
  /\ pc = "diff"
  /\ LET comparable == /\ prev # NoCapture /\ stable
                       /\ prev.window.ident = before.ident
     IN diff' = [comparable |-> comparable,
                 changed |-> comparable /\ prev.records # walk.records]
  /\ Goto("store")
  /\ UNCHANGED <<before, focus, image, walk, stable, taken, returned>>

\* semantic_state_diff: of the same target, and of two complete projections.
Compare ==
  /\ pc = "diff"
  /\ LET comparable == /\ prev # NoCapture /\ stable
                       /\ prev.window.ident = before.ident
                       /\ prev.complete /\ walk.complete
     IN diff' = [comparable |-> comparable,
                 changed |-> comparable /\ prev.records # walk.records]
  /\ Goto("store")
  /\ UNCHANGED <<before, focus, image, walk, stable, taken, returned>>

\* capture_window_identity: the accessible window, if just one was found.
Named == IF \E w \in walk.wins : walk.wins = {w} THEN CHOOSE w \in walk.wins : TRUE ELSE 0

Register ==
  /\ pc = "store"
  /\ IF stable
     THEN Store([target |-> "window", id |-> 0, window |-> before, image |-> image,
                 named |-> Named, records |-> walk.records, complete |-> walk.complete, off |-> off,
                 silent |-> walk.silent, since |-> walk.since])
     ELSE UNCHANGED ringVars
  /\ pc' = "report"
  /\ UNCHANGED <<deskVars, calls, callVars>>

Report ==
  /\ pc = "report"
  /\ pc' = "idle" /\ prev' = NoCapture /\ off' = FALSE
  /\ Fresh
  /\ UNCHANGED <<deskVars, ringVars, calls>>

\* captures_cleanup, when the server ends.
Cleanup ==
  /\ pc = "idle" /\ pc' = "ended"
  /\ history' = [s \in Slots |-> NoCapture] /\ stored' = 0 /\ heap' = {}
  /\ UNCHANGED <<deskVars, calls, callVars>>

Observe == \E p \in Retained \cup {NoCapture}, o \in BOOLEAN : Begin(p, o)

Next ==
  \/ WindowChanges \/ TreeChanges
  \/ Screenshot \/ Observe \/ Fail
  \/ Resolve \/ TakeImage \/ CountChildren
  \/ Visit \/ VisitFails \/ StatesUnread
  \/ ResolveAgain \/ Compare \/ Register \/ Report \/ Cleanup

Spec == Init /\ [][Next]_vars

-----------------------------------------------------------------------------
(* Properties *)

Row == (Nat \X Nat \X Nat) \X BOOLEAN
Child == [win : Nat, id : Nat, showing : BOOLEAN]
Place == [ident : Nat, place : Nat, size : Nat]
Walk == [next : Nat, count : Nat, wins : SUBSET Nat, records : SUBSET Row, complete : BOOLEAN,
         silent : BOOLEAN, since : Nat]
Capture == [target : {"window", "desktop"}, id : Nat, window : Place, image : Nat, named : Nat,
            records : SUBSET Row, complete : BOOLEAN, off : BOOLEAN, silent : BOOLEAN,
            since : Nat]

\* Ranges; nothing was walked after the last change.
TypeOK ==
  /\ changes \in Nat /\ edits \in Nat /\ stored \in Nat /\ calls \in Nat
  /\ desk \in Place
  /\ kids \in Seq(Child)
  /\ history \in [Slots -> Capture \cup {NoCapture}]
  /\ pc \in {"idle", "resolve", "image", "count", "walk", "diff", "store", "report", "ended"}
  /\ off \in BOOLEAN /\ prev \in Capture \cup {NoCapture}
  /\ before \in Place /\ focus \in BOOLEAN /\ image \in Nat
  /\ walk \in Walk /\ walk.since <= edits
  /\ stable \in BOOLEAN /\ diff \in [comparable : BOOLEAN, changed : BOOLEAN]
  /\ taken \subseteq Place /\ returned \in BOOLEAN

\* The ring owns the projections: each retained window capture has its own, no other
\* is allocated, and a comparison never reads one that a store has freed.
ProjectionsOwned ==
  /\ heap = {c.id : c \in {r \in Retained : r.target = "window"}}
  /\ pc = "diff" /\ prev # NoCapture => prev.id \in heap

\* A capture is of one state of the window.  Its image has the size the capture records;
\* the image and every node were read while the window had the identity, place and size
\* recorded, unless it left them and came back, which two readings do not tell; and a
\* capture that names its accessible window holds no node of a namesake.
CaptureIsOfOneWindow ==
  [][\A c \in Retained' \ Retained : c.target = "window" =>
       /\ c.image = c.window.size
       /\ taken = {c.window} \/ returned
       /\ c.named # 0 => \A row \in c.records : row[1][1] = c.named]_vars

\* In an unchanged tree two observations with the same bounds that lost no call
\* differ in nothing; a diff is never made across two targets.
DiffReportsChange ==
  diff.comparable =>
    /\ prev.window.ident = before.ident
    /\ /\ prev.since = edits /\ prev.off = off /\ ~prev.silent /\ ~walk.silent
       => ~diff.changed
=============================================================================
