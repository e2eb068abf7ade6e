------------------------ MODULE MC_SemanticMutation ------------------------
(***************************************************************************)
(* Instance for TLC: cursors are interchangeable, and so are positions.    *)
(***************************************************************************)
EXTENDS SemanticMutation, TLC

Symmetry == Permutations(Cursor) \cup Permutations(Spot)

\* A step of the desktop that the tool under way cannot tell from the same step taken later
\* is taken later: the window changes before its last check, the element is laid out again
\* before the request, the elements change while an action reads them or a request is under
\* way.  What the Shell does once an action has begun, it also does after a tool that
\* returned just before.  A second call goes like a first one, from what the first left on
\* the screen: of its actions one kind, on a quiet desktop, is enough.
SeenEnvironment ==
  \/ tool = "move" /\ WindowChanges
  \/ pc = "perform" /\ Relayout
  \/ (pc \in TargetPhase \cup VerifyPhase \/ request # NoRequest) /\ calls = 1 /\ ApplicationActs
  \/ pc = "ready" /\ ShellActs

SeenNext ==
  \/ Tools \/ SeenEnvironment \/ Late \/ Exit
  \/ Server /\ (calls = 2 => kind' = "set")

SeenSpec == MutationInit /\ [][SeenNext]_mutationVars
=============================================================================
