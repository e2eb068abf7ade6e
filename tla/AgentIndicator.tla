--------------------------- MODULE AgentIndicator ---------------------------
(***************************************************************************)
(* The on-screen agent cursors: the client's table of the cursors it owns  *)
(* (csrc/indicator.c), the cursors the GNOME Shell extension shows, and    *)
(* the D-Bus calls between them, one at a time and each given up on after  *)
(* a second.  A call that was given up on is still executed by the Shell.  *)
(***************************************************************************)
EXTENDS Naturals, FiniteSets, Sequences, SequencesExt

CONSTANTS
  Cursor,      \* cursor ids
  Spot,        \* stage positions
  Limit,       \* OWNED_CURSOR_LIMIT
  MaxPolls,    \* status calls the settle loop makes
  NoCursor,
  MaxFaults    \* bound: Shell restarts and lost bus connections

ASSUME IndicatorAssumption == Limit \in Nat /\ MaxPolls \in Nat /\ MaxFaults \in Nat

VARIABLES
  up,         \* the extension owns its bus name
  cursors,    \* cursors the Shell shows: id -> [owner, at, idle]
  inbox,      \* calls, and notices of dead connections, the Shell has not handled
  conn,       \* the client's live connection, 0 when it has none
  conns,      \* connections it opened so far
  faults,
  owned,      \* the client's table
  op,         \* the operation under way: [cursor, at]
  phase,      \* the call it is at; "off" between operations
  answer,     \* of that call
  polls,
  outcome,    \* of the last operation: [ok, issued, unknown]
  uncertain,  \* history: cursors whose last outcome was reported as unknown
  stood       \* history: since the operation began, op.cursor stood idle at op.at

shellVars == <<up, cursors, inbox, conn, conns, faults>>
clientVars == <<owned, op, phase, polls, outcome, uncertain>>
indicatorVars == <<shellVars, clientVars, answer, stood>>

NoOutcome == [ok |-> FALSE, issued |-> FALSE, unknown |-> FALSE]

IndicatorInit ==
  /\ up \in BOOLEAN
  /\ cursors = [c \in Cursor |-> NoCursor]
  /\ inbox = <<>>
  /\ conn = 0 /\ conns = 0 /\ faults = 0
  /\ owned = {}
  /\ op \in [cursor : Cursor, at : Spot]
  /\ phase = "off" /\ answer = "unsent" /\ polls = 0
  /\ outcome = NoOutcome
  /\ uncertain = {} /\ stood = FALSE

StandsIn(shown, o) ==
  /\ shown[o.cursor] # NoCursor
  /\ shown[o.cursor].at = o.at /\ shown[o.cursor].idle

-----------------------------------------------------------------------------
(* The Shell extension: it handles what the bus delivers, in order. *)

MayChange(m) == cursors[m.cursor] # NoCursor /\ cursors[m.cursor].owner = m.from

\* ShowCursorAsync, MoveCursorStyledAsync, HideCursorAsync, _removeOwner: the
\* cursors after a message, and the Boolean returned.
Placed(m, idle) == [cursors EXCEPT ![m.cursor] = [owner |-> m.from, at |-> m.at, idle |-> idle]]

Effect(m) ==
  CASE m.call = "show" ->
         IF cursors[m.cursor] = NoCursor \/ MayChange(m) THEN <<Placed(m, TRUE), TRUE>>
         ELSE <<cursors, FALSE>>
    [] m.call = "move" ->
         IF MayChange(m) THEN <<Placed(m, FALSE), TRUE>> ELSE <<cursors, FALSE>>
    [] m.call = "hide" ->
         IF MayChange(m) THEN <<[cursors EXCEPT ![m.cursor] = NoCursor], TRUE>>
         ELSE <<cursors, FALSE>>
    [] m.call = "status" -> <<cursors, StandsIn(cursors, m)>>
    [] m.call = "gone" ->
         <<[c \in Cursor |-> IF cursors[c] # NoCursor /\ cursors[c].owner = m.from
                             THEN NoCursor ELSE cursors[c]], FALSE>>

Stood(shown) == stood' = (stood \/ StandsIn(shown, op))

Serve ==
  /\ up /\ inbox # <<>>
  /\ LET m == Head(inbox) IN
       /\ cursors' = Effect(m)[1]
       /\ answer' = IF m.live THEN (IF Effect(m)[2] THEN "true" ELSE "false") ELSE answer
       /\ Stood(cursors')
  /\ inbox' = Tail(inbox)
  /\ UNCHANGED <<up, conn, conns, faults, clientVars>>

\* The 180 ms animation of a moved cursor is over.
AnimationEnds ==
  \E c \in Cursor :
    /\ cursors[c] # NoCursor /\ ~cursors[c].idle
    /\ cursors' = [cursors EXCEPT ![c].idle = TRUE]
    /\ Stood(cursors')
    /\ UNCHANGED <<up, inbox, conn, conns, faults, clientVars, answer>>

\* The extension is disabled or the Shell dies: the call under way fails, or
\* its outcome stays unknown.
ShellStops ==
  /\ up /\ faults < MaxFaults /\ faults' = faults + 1
  /\ up' = FALSE
  /\ cursors' = [c \in Cursor |-> NoCursor]
  /\ inbox' = <<>>
  /\ IF answer = "pending" THEN answer' \in {"failed", "late"} ELSE answer' = answer
  /\ UNCHANGED <<conn, conns, clientVars, stood>>

ShellStarts ==
  /\ ~up /\ faults < MaxFaults /\ faults' = faults + 1
  /\ up' = TRUE
  /\ UNCHANGED <<cursors, inbox, conn, conns, clientVars, answer, stood>>

\* Nobody waits for the calls in the inbox any more.
Orphaned == [i \in DOMAIN inbox |-> [inbox[i] EXCEPT !.live = FALSE]]

\* The bus tells the Shell that the client's connection is gone.
Notice(from) ==
  [call |-> "gone", cursor |-> op.cursor, at |-> op.at, from |-> from, live |-> FALSE]

Disconnected ==
  /\ conn' = 0
  /\ inbox' = IF up /\ conn # 0 THEN Append(Orphaned, Notice(conn)) ELSE Orphaned

BusDrops ==
  /\ conn # 0 /\ faults < MaxFaults /\ faults' = faults + 1
  /\ Disconnected
  /\ IF answer = "pending" THEN answer' \in {"failed", "late"} ELSE answer' = answer
  /\ UNCHANGED <<up, cursors, conns, clientVars, stood>>

Desktop == Serve \/ AnimationEnds \/ ShellStops \/ ShellStarts \/ BusDrops

-----------------------------------------------------------------------------
(* The client's calls. *)

Mutates == {"show", "move", "hide"}

\* The call each phase makes.
Call == [check |-> "status", move |-> "move", reshow |-> "show", create |-> "show",
         settle |-> "status", hide |-> "hide"]

\* get_connection and call_method: the connection is opened again if it was lost;
\* without the extension the bus refuses the call.
Ask ==
  /\ phase # "off" /\ answer = "unsent"
  /\ conns' = IF conn = 0 THEN conns + 1 ELSE conns
  /\ conn' = IF conn = 0 THEN conns' ELSE conn
  /\ IF up
     THEN /\ inbox' = Append(inbox, [call |-> Call[phase], cursor |-> op.cursor, at |-> op.at,
                                     from |-> conn', live |-> TRUE])
          /\ answer' = "pending"
     ELSE inbox' = inbox /\ answer' = "failed"
  /\ outcome' = [outcome EXCEPT !.issued = @ \/ Call[phase] \in Mutates]
  /\ UNCHANGED <<up, cursors, faults, owned, op, phase, polls, uncertain, stood>>

\* There is no session bus to connect to.
AskNobody ==
  /\ phase # "off" /\ answer = "unsent" /\ conn = 0
  /\ answer' = "failed"
  /\ outcome' = [outcome EXCEPT !.issued = @ /\ Call[phase] \notin Mutates]
  /\ UNCHANGED <<shellVars, owned, op, phase, polls, uncertain, stood>>

\* INDICATOR_TIMEOUT_MS pass without a reply.
AnswerIsLate ==
  /\ answer \in {"pending", "true", "false"}
  /\ answer' = "late"
  /\ inbox' = Orphaned
  /\ UNCHANGED <<up, cursors, conn, conns, faults, clientVars, stood>>

Errors == {"failed", "late"}

Proceed(p) ==
  /\ phase' = p /\ answer' = "unsent"
  /\ UNCHANGED <<shellVars, op, stood>>

\* The operation returns; what is known of the cursor from now on.
Done(ok, unknown) ==
  /\ Proceed("off") /\ polls' = 0
  /\ outcome' = [outcome EXCEPT !.ok = ok, !.unknown = unknown]
  /\ uncertain' = IF unknown THEN uncertain \cup {op.cursor} ELSE uncertain \ {op.cursor}

-----------------------------------------------------------------------------
(* agent_cursor_move *)

BeginCursor(c, at, p) ==
  /\ phase = "off"
  /\ phase' = p /\ answer' = "unsent" /\ polls' = 0
  /\ op' = [cursor |-> c, at |-> at]
  /\ stood' = StandsIn(cursors, op')
  /\ outcome' = NoOutcome
  /\ UNCHANGED <<shellVars, owned, uncertain>>

BeginMove(c, at) == BeginCursor(c, at, "check")

\* The status call fails, the layout is not one full-stage monitor, the point is off
\* the stage, or the table is full.
CheckFails ==
  /\ phase = "check" /\ answer \in Errors \cup {"true", "false"}
  /\ Proceed("off")
  /\ UNCHANGED <<owned, polls, outcome, uncertain>>

Checked ==
  /\ phase = "check" /\ answer \in {"true", "false"}
  /\ \/ op.cursor \in owned /\ Proceed("move")
     \/ op.cursor \notin owned /\ Cardinality(owned) < Limit /\ Proceed("create")
  /\ UNCHANGED <<owned, polls, outcome, uncertain>>

\* A known FALSE means the Shell lost the cursor: it is shown again.
Moved ==
  /\ phase = "move" /\ answer \in {"true", "false"}
  /\ Proceed(IF answer = "true" THEN "settle" ELSE "reshow")
  /\ UNCHANGED <<owned, polls, outcome, uncertain>>

\* Fault: a cursor whose Show succeeded is not entered in the table.
ShownUnregistered ==
  /\ phase \in {"reshow", "create"} /\ answer = "true"
  /\ Proceed("settle")
  /\ UNCHANGED <<owned, polls, outcome, uncertain>>

Shown ==
  /\ phase \in {"reshow", "create"} /\ answer = "true"
  /\ Proceed("settle")
  /\ owned' = owned \cup {op.cursor}
  /\ UNCHANGED <<polls, outcome, uncertain>>

\* An error, or ShowCursor was rejected; a new slot is given back.
MoveFails ==
  /\ phase \in {"move", "reshow", "create"}
  /\ answer \in Errors \cup (IF phase = "move" THEN {} ELSE {"false"})
  /\ Done(FALSE, answer = "late")
  /\ UNCHANGED owned

Settled ==
  /\ phase = "settle" /\ answer = "true"
  /\ Done(TRUE, FALSE)
  /\ UNCHANGED owned

NotSettled ==
  /\ phase = "settle" /\ answer = "false" /\ polls < MaxPolls
  /\ polls' = polls + 1
  /\ Proceed("settle")
  /\ UNCHANGED <<owned, outcome, uncertain>>

SettleFails ==
  /\ phase = "settle"
  /\ answer \in Errors \/ (answer = "false" /\ polls = MaxPolls)
  /\ Done(FALSE, TRUE)
  /\ UNCHANGED owned

-----------------------------------------------------------------------------
(* agent_cursor_hide (indicator_hide_owned) and indicator_cleanup *)

\* A cursor that is not in the table is hidden without a call.
BeginHide(c) ==
  IF c \in owned THEN BeginCursor(c, op.at, "hide")
  ELSE /\ phase = "off"
       /\ outcome' = [NoOutcome EXCEPT !.ok = TRUE]
       /\ UNCHANGED <<shellVars, owned, op, phase, answer, polls, uncertain, stood>>

Hidden ==
  /\ phase = "hide" /\ answer \in {"true", "false"}
  /\ Done(TRUE, FALSE)
  /\ owned' = owned \ {op.cursor}

HideFails ==
  /\ phase = "hide" /\ answer \in Errors
  /\ Done(FALSE, answer = "late")
  /\ UNCHANGED owned

\* At exit the connection is closed; the Shell does the rest.
Cleanup ==
  /\ phase = "off"
  /\ Disconnected
  /\ owned' = {}
  /\ UNCHANGED <<up, cursors, conns, faults, op, phase, answer, polls, outcome, uncertain, stood>>

Client ==
  \/ Ask \/ AskNobody \/ AnswerIsLate
  \/ CheckFails \/ Checked \/ Moved \/ Shown \/ MoveFails
  \/ Settled \/ NotSettled \/ SettleFails \/ Hidden \/ HideFails

-----------------------------------------------------------------------------
(* Properties *)

\* Ranges; the Shell holds at most one call that somebody waits for.
IndicatorTypeOK ==
  /\ cursors \in [Cursor -> [owner : 1..conns, at : Spot, idle : BOOLEAN] \cup {NoCursor}]
  /\ conn \in 0..conns /\ owned \subseteq Cursor /\ Cardinality(owned) <= Limit
  /\ phase \in DOMAIN Call \cup {"off"}
  /\ answer \in {"unsent", "pending", "true", "false"} \cup Errors
  /\ Cardinality({i \in DOMAIN inbox : inbox[i].live}) <= 1
  /\ (\E i \in DOMAIN inbox : inbox[i].live) <=> answer = "pending"

\* No cursor is on the screen without an owner who can move or hide it: it is in
\* the client's table, its outcome was reported as unknown, or the Shell is about
\* to learn that its connection is gone.
NoStrayCursor ==
  \A c \in Cursor : cursors[c] # NoCursor =>
    IF cursors[c].owner = conn
    THEN c \in owned \cup uncertain \/ (phase # "off" /\ op.cursor = c)
    ELSE \E i \in DOMAIN inbox : inbox[i].call = "gone" /\ inbox[i].from = cursors[c].owner
=============================================================================
