-------------------------- MODULE IsolatedSession --------------------------
(***************************************************************************)
(* Requests a deskpal server forwards to its private children              *)
(* (csrc/sessions.c): starting a session, the request/response exchange    *)
(* over two pipes, deadlines, sessions that break and sessions that close. *)
(* What a session does to the control lease is the matter of ControlLease. *)
(*                                                                         *)
(* The server has one thread.  A child and what it starts share the output *)
(* pipe: besides answers, stray lines may appear in it at any time.        *)
(***************************************************************************)
EXTENDS Naturals, Sequences, Functions

CONSTANTS
  MaxSlots,     \* MAX_ISOLATED_SESSIONS
  MaxSessions,  \* bound: sessions ever started
  MaxRequests,  \* bound: requests sent within one session
  MaxStray      \* bound: stray lines of one child

ASSUME BoundsAssumption == {MaxSlots, MaxSessions, MaxRequests, MaxStray} \subseteq Nat

Slot == 1..MaxSlots
SessionId == 1..MaxSessions   \* "xvfb-N"
NoSession == 0

VARIABLES
  nextId,    \* g_next_session_id
  id,        \* session->id, NoSession when the slot is free
  broken,    \* session->broken
  sent,      \* session->next_request_id
  child,     \* the child's process: none, running, exited (not reaped)
  busy,      \* the request the child works on
  toChild,   \* request pipe
  fromChild, \* response pipe
  stray,     \* stray lines the child's group wrote
  pc, slot, step,  \* what the server does, in which slot, for which request
  large,     \* the request does not fit into an empty pipe
  asked,     \* the session the running call is meant for
  handed     \* history: the ids returned by launch_isolated_app

slotVars  == <<nextId, id, broken, sent>>
childVars == <<child, busy, toChild, fromChild, stray>>
callVars  == <<slot, step, large, asked, handed>>
vars == <<slotVars, childVars, callVars, pc>>

\* A request carries its number, a notification and "no request" carry 0.
NoRequest == 0

\* by: the session whose child wrote the line; number: the request it answers.
\* "isError" is a tool's own failure, "error" a JSON-RPC error.
Response ==
  [kind : {"result", "isError", "error"}, number : 1..MaxRequests, by : SessionId]
  \cup [kind : {"stray"}, number : {NoRequest}, by : SessionId]

Phase == {"idle", "send", "read", "ok", "failed", "notify", "stop",
          "cleanup", "ended"}

-----------------------------------------------------------------------------
Init ==
  /\ nextId = 1
  /\ id = [k \in Slot |-> NoSession]
  /\ broken = [k \in Slot |-> FALSE]
  /\ sent = [k \in Slot |-> 0]
  /\ child = [k \in Slot |-> "none"]
  /\ busy = [k \in Slot |-> NoRequest]
  /\ toChild = [k \in Slot |-> <<>>]
  /\ fromChild = [k \in Slot |-> <<>>]
  /\ stray = [k \in Slot |-> 0]
  /\ pc = "idle"
  /\ slot \in Slot
  /\ step = "forward"
  /\ large = FALSE
  /\ asked = NoSession
  /\ handed = <<>>

Goto(p) == pc' = p /\ UNCHANGED callVars

-----------------------------------------------------------------------------
(* Calls *)

\* Fault: a session is named after its slot.
NameOfSlot(k) == k

NewSessionId(k) == nextId

\* start_session: the first free slot, fork, and the initialize request.
StartSession(k) ==
  /\ pc = "idle"
  /\ nextId <= MaxSessions
  /\ id[k] = NoSession
  /\ \A j \in 1..(k - 1) : id[j] # NoSession
  /\ id' = [id EXCEPT ![k] = NewSessionId(k)]
  /\ nextId' = nextId + 1
  /\ child' = [child EXCEPT ![k] = "running"]
  /\ pc' = "send"
  /\ slot' = k /\ step' = "initialize" /\ large' = FALSE
  /\ asked' = NewSessionId(k)
  /\ UNCHANGED <<broken, sent, busy, toChild, fromChild, stray, handed>>

\* sessions_forward_tool: any tool with a sessionId.
ForwardTool(k, l) ==
  /\ pc = "idle"
  /\ id[k] # NoSession
  /\ sent[k] < MaxRequests
  /\ pc' = "send"
  /\ slot' = k /\ step' = "forward" /\ large' = l
  /\ asked' = id[k]
  /\ UNCHANGED <<slotVars, childVars, handed>>

CloseSession(k) ==
  /\ pc = "idle"
  /\ id[k] # NoSession
  /\ pc' = "stop"
  /\ slot' = k
  /\ UNCHANGED <<slotVars, childVars, step, large, asked, handed>>

-----------------------------------------------------------------------------
(* child_rpc *)

\* A request larger than the pipe is only written while the child reads.
SendRequest ==
  /\ pc = "send"
  /\ ~broken[slot] /\ child[slot] = "running"
  /\ sent[slot] < MaxRequests
  /\ large => busy[slot] = NoRequest /\ toChild[slot] = <<>>
  /\ sent' = [sent EXCEPT ![slot] = @ + 1]
  /\ toChild' = [toChild EXCEPT ![slot] = Append(@, sent[slot] + 1)]
  /\ Goto("read")
  /\ UNCHANGED <<nextId, id, broken, child, busy, fromChild, stray>>

BreakSession ==
  /\ broken' = [broken EXCEPT ![slot] = TRUE]
  /\ Goto("failed")
  /\ UNCHANGED <<nextId, id, sent>>

\* The session is broken, waitid finds the child gone, or the write gets EPIPE.
SendFails ==
  /\ pc = "send"
  /\ broken[slot] \/ child[slot] = "exited"
  /\ BreakSession
  /\ UNCHANGED childVars

\* Fault: the id of the response is not compared.
AnswersAnything(line) == line.kind \in {"result", "isError", "stray"}

\* A result that carries the number of this request.
Answers(line) ==
  /\ line.kind \in {"result", "isError"}
  /\ line.number = sent[slot]

\* One line was read, and nothing behind its newline.
ReadAnswer ==
  /\ pc = "read"
  /\ fromChild[slot] # <<>>
  /\ Answers(Head(fromChild[slot]))
  /\ fromChild' = [fromChild EXCEPT ![slot] = Tail(@)]
  /\ Goto(IF Head(fromChild[slot]).kind = "isError" /\ step = "launch_app"
          THEN "failed" ELSE "ok")
  /\ UNCHANGED <<slotVars, child, busy, toChild, stray>>

\* A JSON-RPC error for this request: the session stays usable.
ReadRpcError ==
  /\ pc = "read"
  /\ fromChild[slot] # <<>>
  /\ Head(fromChild[slot]).kind = "error"
  /\ Head(fromChild[slot]).number = sent[slot]
  /\ fromChild' = [fromChild EXCEPT ![slot] = Tail(@)]
  /\ Goto("failed")
  /\ UNCHANGED <<slotVars, child, busy, toChild, stray>>

\* Invalid JSON, no id or the id of another request.
ReadMismatch ==
  /\ pc = "read"
  /\ fromChild[slot] # <<>>
  /\ Head(fromChild[slot]).number # sent[slot]
  /\ fromChild' = [fromChild EXCEPT ![slot] = Tail(@)]
  /\ BreakSession
  /\ UNCHANGED <<child, busy, toChild, stray>>

\* The same read() returned output behind the newline.
ReadExtra ==
  /\ pc = "read"
  /\ Len(fromChild[slot]) >= 2
  /\ fromChild' = [fromChild EXCEPT ![slot] = <<>>]
  /\ BreakSession
  /\ UNCHANGED <<child, busy, toChild, stray>>

ReadEof ==
  /\ pc = "read"
  /\ child[slot] = "exited" /\ fromChild[slot] = <<>>
  /\ BreakSession
  /\ UNCHANGED childVars

\* Fault: without a deadline the answer is waited for.
ReadWaitsForExit ==
  /\ pc = "read"
  /\ child[slot] = "exited"
  /\ BreakSession
  /\ UNCHANGED childVars

\* The deadline passes, at any moment and however much is on its way.
ReadTimesOut ==
  /\ pc = "read"
  /\ BreakSession
  /\ UNCHANGED childVars

-----------------------------------------------------------------------------
(* What the callers of child_rpc do with its result *)

\* start_session got the answer to initialize.
Initialized ==
  /\ pc = "ok" /\ step = "initialize"
  /\ Goto("notify")
  /\ UNCHANGED <<slotVars, childVars>>

\* notifications/initialized, then tool_launch_isolated_app's launch_app.  The
\* pipe may still be open although the child itself is gone.
Notify ==
  /\ pc = "notify"
  /\ toChild' = [toChild EXCEPT ![slot] = Append(@, NoRequest)]
  /\ pc' = "send"
  /\ step' = "launch_app"
  /\ UNCHANGED <<slotVars, child, busy, fromChild, stray, slot, large, asked, handed>>

NotifyFails ==
  /\ pc = "notify"
  /\ child[slot] = "exited"
  /\ BreakSession
  /\ UNCHANGED childVars

\* The session's id reaches the client.
Launched ==
  /\ pc = "ok" /\ step = "launch_app"
  /\ handed' = Append(handed, id[slot])
  /\ pc' = "idle"
  /\ UNCHANGED <<slotVars, childVars, slot, step, large, asked>>

\* The child's result is returned as it is.
Forwarded ==
  /\ pc = "ok" /\ step = "forward"
  /\ Goto("idle")
  /\ UNCHANGED <<slotVars, childVars>>

\* A session that could not be started is given up.
StartFailed ==
  /\ pc = "failed" /\ step # "forward"
  /\ Goto("stop")
  /\ UNCHANGED <<slotVars, childVars>>

\* Fault: a broken session stays in its slot.
ForwardFailedKeeping ==
  /\ pc = "failed" /\ step = "forward"
  /\ Goto("idle")
  /\ UNCHANGED <<slotVars, childVars>>

ForwardFailed ==
  /\ pc = "failed" /\ step = "forward"
  /\ Goto(IF broken[slot] THEN "stop" ELSE "idle")
  /\ UNCHANGED <<slotVars, childVars>>

\* Pipes closed, the process group killed, the child reaped, the slot cleared.
ClearSlot(k) ==
  /\ id' = [id EXCEPT ![k] = NoSession]
  /\ broken' = [broken EXCEPT ![k] = FALSE]
  /\ sent' = [sent EXCEPT ![k] = 0]
  /\ child' = [child EXCEPT ![k] = "none"]
  /\ busy' = [busy EXCEPT ![k] = NoRequest]
  /\ toChild' = [toChild EXCEPT ![k] = <<>>]
  /\ fromChild' = [fromChild EXCEPT ![k] = <<>>]
  /\ stray' = [stray EXCEPT ![k] = 0]
  /\ UNCHANGED nextId

StopSession ==
  /\ pc = "stop"
  /\ ClearSlot(slot)
  /\ Goto("idle")

\* The server's own input ended.
InputEnds ==
  /\ pc = "idle"
  /\ Goto("cleanup")
  /\ UNCHANGED <<slotVars, childVars>>

\* sessions_cleanup_all
CleanupSession(k) ==
  /\ pc = "cleanup"
  /\ id[k] # NoSession
  /\ \A j \in 1..(k - 1) : id[j] = NoSession
  /\ ClearSlot(k)
  /\ Goto("cleanup")

CleanupEnds ==
  /\ pc = "cleanup"
  /\ \A k \in Slot : id[k] = NoSession
  /\ Goto("ended")
  /\ UNCHANGED <<slotVars, childVars>>

-----------------------------------------------------------------------------
(* The child: mcp_run in its own process *)

ChildReads(k) ==
  /\ child[k] = "running"
  /\ busy[k] = NoRequest
  /\ toChild[k] # <<>>
  /\ busy' = [busy EXCEPT ![k] = Head(toChild[k])]
  /\ toChild' = [toChild EXCEPT ![k] = Tail(@)]
  /\ UNCHANGED <<slotVars, child, fromChild, stray, callVars, pc>>

ChildAnswers(k, kind) ==
  /\ child[k] = "running"
  /\ busy[k] # NoRequest
  /\ fromChild' = [fromChild EXCEPT ![k] =
                     Append(@, [kind |-> kind, number |-> busy[k], by |-> id[k]])]
  /\ busy' = [busy EXCEPT ![k] = NoRequest]
  /\ UNCHANGED <<slotVars, child, toChild, stray, callVars, pc>>

\* Something else that has the pipe as its standard output.
StrayLine(k) ==
  /\ child[k] = "running"
  /\ stray[k] < MaxStray
  /\ stray' = [stray EXCEPT ![k] = @ + 1]
  /\ fromChild' = [fromChild EXCEPT ![k] =
                     Append(@, [kind |-> "stray", number |-> NoRequest, by |-> id[k]])]
  /\ UNCHANGED <<slotVars, child, busy, toChild, callVars, pc>>

ChildExits(k) ==
  /\ child[k] = "running"
  /\ child' = [child EXCEPT ![k] = "exited"]
  /\ busy' = [busy EXCEPT ![k] = NoRequest]
  /\ UNCHANGED <<slotVars, toChild, fromChild, stray, callVars, pc>>

-----------------------------------------------------------------------------
RpcStep ==
  \/ SendRequest \/ SendFails
  \/ ReadAnswer \/ ReadRpcError \/ ReadMismatch \/ ReadExtra \/ ReadEof

CallerStep ==
  \/ Initialized \/ Notify \/ NotifyFails \/ Launched
  \/ Forwarded \/ StartFailed \/ ForwardFailed \/ StopSession
  \/ CleanupEnds \/ \E k \in Slot : CleanupSession(k)

Next ==
  \/ RpcStep \/ ReadTimesOut \/ CallerStep \/ InputEnds
  \/ \E k \in Slot :
       \/ StartSession(k) \/ CloseSession(k)
       \/ \E l \in BOOLEAN : ForwardTool(k, l)
       \/ ChildReads(k) \/ StrayLine(k) \/ ChildExits(k)
       \/ \E kind \in {"result", "isError", "error"} : ChildAnswers(k, kind)

Spec == Init /\ [][Next]_vars

(* The server runs and its deadlines pass; a living child returns to its main *)
(* loop and reads.  No child need ever answer or exit.                        *)
Fairness ==
  /\ WF_vars(RpcStep \/ CallerStep)
  /\ WF_vars(ReadTimesOut)
  /\ \A k \in Slot : WF_vars(ChildReads(k))

FairSpec == Spec /\ Fairness

-----------------------------------------------------------------------------
(* Properties *)

\* Ranges, and a slot without a session has nothing left of the last one.
TypeOK ==
  /\ nextId \in 1..(MaxSessions + 1)
  /\ id \in [Slot -> SessionId \cup {NoSession}]
  /\ broken \in [Slot -> BOOLEAN]
  /\ sent \in [Slot -> 0..MaxRequests]
  /\ child \in [Slot -> {"none", "running", "exited"}]
  /\ busy \in [Slot -> 0..MaxRequests]
  /\ stray \in [Slot -> 0..MaxStray]
  /\ \A k \in Slot :
       /\ Range(toChild[k]) \subseteq 0..MaxRequests
       /\ Range(fromChild[k]) \subseteq Response
       /\ id[k] = NoSession =>
            /\ child[k] = "none" /\ ~broken[k] /\ sent[k] = 0
            /\ toChild[k] = <<>> /\ fromChild[k] = <<>>
  /\ pc \in Phase /\ slot \in Slot
  /\ step \in {"initialize", "launch_app", "forward"}
  /\ large \in BOOLEAN
  /\ asked \in SessionId \cup {NoSession}
  /\ Range(handed) \subseteq SessionId

\* What is taken for the result of a call was written by the child of the session
\* the call was meant for, in answer to the request the call sent: a late answer
\* or a stray line never passes for one.
ResultIsOwn ==
  [][pc = "read" /\ pc' = "ok" =>
       LET line == Head(fromChild[slot])
       IN  /\ line.by = asked
           /\ line.number = sent[slot]]_vars

\* Between calls every session is in step: it is not broken, its child owes no
\* answer and none is on its way.  A session after an exchange that went wrong is
\* never kept.
SessionsInStep ==
  pc = "idle" =>
    \A k \in Slot :
      /\ ~broken[k]
      /\ busy[k] = NoRequest
      /\ \A n \in Range(toChild[k]) : n = NoRequest
      /\ \A line \in Range(fromChild[k]) : line.kind = "stray"

\* A client's session id means one session for ever: no id is handed out twice,
\* so that a call with the id of a closed session cannot reach another desktop.
IdsHandedOnce ==
  \A i, j \in DOMAIN handed : handed[i] = handed[j] => i = j

\* Every call returns, and clean-up ends, whatever the children do or fail to do.
CallsReturn == pc # "idle" ~> pc \in {"idle", "ended"}
=============================================================================
