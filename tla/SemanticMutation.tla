-------------------------- MODULE SemanticMutation --------------------------
(***************************************************************************)
(* The agent tools that mutate an application (csrc/tools.c): the element  *)
(* of a captured window is located again, the agent cursor moves to it,    *)
(* the window is checked once more, and the mutation is dispatched by the  *)
(* element's role and name.  Composes the verified action and the owned    *)
(* indicator; one tool runs at a time, the desktop moves on meanwhile.     *)
(***************************************************************************)
EXTENDS SemanticAction, AgentIndicator

CONSTANTS
  MaxCalls     \* bound: tool calls

ASSUME MutationAssumption == MaxCalls \in Nat

VARIABLES
  tool,    \* where the tool under way is
  calls,
  window,  \* "captured"; changed "early", or "late": after its last check
  layout   \* where the located element has its centre, and if that has changed since it
           \* was located (history): [at, moved]

mutationVars == <<actionVars, indicatorVars, tool, calls, window, layout>>

MutationInit ==
  /\ ActionInit /\ IndicatorInit
  /\ tool = "none" /\ calls = 0 /\ window = "captured"
  /\ layout \in [at : Spot, moved : {FALSE}]

\* Nothing is called after the one action of a behaviour.
Begins(t) ==
  /\ tool = "none" /\ tool' = t
  /\ calls < MaxCalls /\ calls' = calls + 1
  /\ pc = "ready"

\* A tool returns: an error or a report.
ReturnsFrom(t) == tool = t /\ tool' = "none" /\ UNCHANGED <<calls, window, layout>>

-----------------------------------------------------------------------------
(* The desktop. *)

\* The captured window is moved, resized, retitled, closed or replaced.
WindowChanges ==
  /\ window = "captured"
  /\ window' = IF tool \in {"names", "act"} THEN "late" ELSE "early"
  /\ UNCHANGED <<actionVars, indicatorVars, tool, calls, layout>>

\* The application lays the element out elsewhere inside its window.
Relayout ==
  /\ changes < MaxChanges /\ changes' = changes + 1
  /\ \E at \in Spot \ {layout.at} : layout' = [at |-> at, moved |-> TRUE]
  /\ UNCHANGED <<kids, late, request, executed, edited, callVars, indicatorVars, tool, calls,
                 window>>

\* Applications and the Shell move on whether a tool runs or not.
ApplicationActs == Application /\ UNCHANGED <<indicatorVars, tool, calls, window, layout>>
ShellActs == Desktop /\ UNCHANGED <<actionVars, tool, calls, window, layout>>

Environment == WindowChanges \/ Relayout \/ ApplicationActs \/ ShellActs

-----------------------------------------------------------------------------
(* The tools of their own: agent_cursor_move, agent_cursor_hide and the     *)
(* accessibility action by a caller's selector.                             *)

CallMove == \E c \in Cursor, at \in Spot :
  Begins("cursor") /\ window = "captured" /\ BeginMove(c, at)
  /\ UNCHANGED <<actionVars, window, layout>>

CallHide == \E c \in Cursor :
  Begins("cursor") /\ BeginHide(c) /\ UNCHANGED <<actionVars, window, layout>>

CallAction == \E k \in {"set", "range", "invoke"} :
  /\ calls = 0 /\ Begins("action") /\ BeginAction(k, "locator")
  /\ UNCHANGED <<indicatorVars, window, layout>>

CursorReturns == ReturnsFrom("cursor") /\ phase = "off" /\ UNCHANGED <<actionVars, indicatorVars>>
ActionReturns == ReturnsFrom("action") /\ pc = "done" /\ UNCHANGED <<actionVars, indicatorVars>>

-----------------------------------------------------------------------------
(* tool_agent_semantic_mutation *)

CallMutation ==
  /\ Begins("locate") /\ window = "captured"
  /\ UNCHANGED <<actionVars, indicatorVars, window, layout>>

\* The fresh tree lacks the locator, its action, its bounds or a known transform.
NotLocated == ReturnsFrom("locate") /\ UNCHANGED <<actionVars, indicatorVars>>

\* The caller's locator names an element with its role at its path; from now on it is known
\* by the name it has, and indicated where its bounds are.
Locate == \E c \in Cursor :
  /\ tool = "locate" /\ tool' = "move"
  /\ Locator \in DOMAIN kids /\ kids[Locator].id = Locator /\ kids[Locator].name = "target"
  /\ BeginMove(c, layout.at)
  /\ layout' = [layout EXCEPT !.moved = FALSE]
  /\ UNCHANGED <<actionVars, calls, window>>

\* The move's own check of the window, or the move, failed: its result is returned.
MoveRefused ==
  /\ ReturnsFrom("move")
  /\ \/ phase = "off" /\ ~outcome.ok /\ UNCHANGED indicatorVars
     \/ /\ phase = "check" /\ answer = "unsent" /\ window # "captured"
        /\ phase' = "off"
        /\ UNCHANGED <<shellVars, owned, op, answer, polls, outcome, uncertain, stood>>
  /\ UNCHANGED actionVars

\* Fault: the window is not looked at again after the cursor arrived.
RevalidateSkipped ==
  /\ tool = "move" /\ phase = "off" /\ outcome.ok
  /\ tool' = "names"
  /\ UNCHANGED <<actionVars, indicatorVars, calls, window, layout>>

\* capture_window_still_valid, again.
Revalidate ==
  /\ tool = "move" /\ phase = "off" /\ outcome.ok
  /\ window = "captured"
  /\ tool' = "names"
  /\ UNCHANGED <<actionVars, indicatorVars, calls, window, layout>>

WindowLost ==
  /\ tool = "move" /\ phase = "off" /\ outcome.ok
  /\ window # "captured"
  /\ tool' = "cursor"
  /\ BeginHide(op.cursor)
  /\ UNCHANGED <<actionVars, calls, window, layout>>

\* The element has no name, or its locator no scope names.
Nameless == ReturnsFrom("names") /\ UNCHANGED <<actionVars, indicatorVars>>

Dispatch == \E k \in {"set", "range", "invoke"} :
  /\ tool = "names" /\ tool' = "act"
  /\ BeginAction(k, "name")
  /\ UNCHANGED <<indicatorVars, calls, window, layout>>

Report == ReturnsFrom("act") /\ pc = "done" /\ UNCHANGED <<actionVars, indicatorVars>>

Tools ==
  \/ CallMove \/ CallHide \/ CallAction \/ CallMutation

Server ==
  \/ ActionStep /\ UNCHANGED <<indicatorVars, tool, calls, window, layout>>
  \/ Client /\ UNCHANGED <<actionVars, tool, calls, window, layout>>
  \/ CursorReturns \/ ActionReturns
  \/ NotLocated \/ Locate \/ MoveRefused \/ Revalidate \/ WindowLost
  \/ Nameless \/ Dispatch \/ Report

\* mcp_run has returned, between two calls: the connection is closed.
Exit ==
  /\ tool = "none" /\ tool' = "exited"
  /\ Cleanup
  /\ UNCHANGED <<actionVars, calls, window, layout>>

Late == DeadlinePasses /\ UNCHANGED <<indicatorVars, tool, calls, window, layout>>

MutationNext == Tools \/ Server \/ Environment \/ Late \/ Exit

Spec == MutationInit /\ [][MutationNext]_mutationVars

-----------------------------------------------------------------------------
(* Properties *)

\* An element is mutated only after the agent cursor stood in this very call where the
\* located element was, in a window that had not changed since the capture.  If the element
\* was not laid out again since, the cursor stood on it.
IndicatedFirst ==
  [][sent' # sent /\ selector = "name" =>
       /\ stood /\ window # "early"
       /\ op.at = layout.at \/ layout.moved]_mutationVars

\* What is mutated is what was bound first, and it is the element of the caller's locator: by
\* a locator always; by role and name, which another element may come to bear, if in at
\* least one of the three walks no index moved and the located element kept its name.
NothingElseMutated ==
  sent # 0 =>
    /\ sent = target.bound
    /\ selector = "locator" \/ target.sure => sent = Locator
=============================================================================
