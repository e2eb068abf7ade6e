---------------------------- MODULE McpTransport ----------------------------
(***************************************************************************)
(* The input side of a deskpal server (csrc/mcp_transport.c) and the main  *)
(* loop that is its only user (mcp_run, mcp_request_cancelled in           *)
(* csrc/mcp.c).  The loop is synchronous: while a tool runs, the only      *)
(* input that is looked at is what the tool polls for cancellation, and    *)
(* every other line met on the way is queued for the loop.                 *)
(*                                                                         *)
(* A line is its index in the history of lines the host wrote.  The pipe   *)
(* and the read buffer hold units: a line's body, then a newline.          *)
(***************************************************************************)
EXTENDS Naturals, Sequences, Functions

CONSTANTS
  Id,          \* request ids of tools/call
  NoId,        \* g_active_request_id is NULL
  MaxLines,    \* bound: lines one host writes
  QueueLimit   \* MCP_QUEUED_LINE_LIMIT

ASSUME NoIdAssumption == NoId \notin Id
ASSUME LimitsAssumption == MaxLines \in Nat /\ QueueLimit \in Nat

\* "call": tools/call; "cancel": notifications/cancelled; "other": any line that
\* is answered at once, parse errors included; "silent": an empty line or another
\* notification; "bad": a line the transport itself rejects (a NUL byte in it).
Message == [kind : {"call", "cancel"}, id : Id]
           \cup [kind : {"other", "silent", "bad"}, id : {NoId}]

NL == 0
Line == 1..MaxLines
Unit == Line \cup {NL}

VARIABLES
  lines,      \* every message written so far
  torn,       \* the last one still lacks its newline
  closed,     \* the host closed its end, or died
  pipe,       \* units written and not read
  buffer,     \* transport->buffer
  queued,     \* transport->queued
  eof, failed,
  pc,         \* where mcp_run is
  current,    \* the line it serves
  served,     \* history: the lines mcp_run was handed
  answered,   \* history: the lines it answered
  active,     \* g_active_request_id
  cancelled, disconnected,  \* g_active_request_cancelled, _disconnected
  lost,       \* g_input_transport_failed
  rc          \* what mcp_run returned

hostVars == <<lines, torn, closed>>
inputVars == <<pipe, buffer, queued, eof, failed>>
callVars == <<active, cancelled, disconnected>>
loopVars == <<pc, current, served, answered, lost, rc>>
vars == <<hostVars, inputVars, callVars, loopVars>>

Phase == {"next", "serve", "call", "poll", "reply", "ended"}

-----------------------------------------------------------------------------
Init ==
  /\ lines = <<>> /\ torn = FALSE /\ closed = FALSE
  /\ pipe = <<>> /\ buffer = <<>> /\ queued = <<>>
  /\ eof = FALSE /\ failed = FALSE
  /\ pc = "next" /\ current = NL
  /\ served = <<>> /\ answered = <<>>
  /\ active = NoId /\ cancelled = FALSE /\ disconnected = FALSE
  /\ lost = FALSE
  /\ rc = "running"

-----------------------------------------------------------------------------
(* The host: request ids are fresh, and only what was asked is cancelled *)

HostWrites(m) ==
  /\ ~closed /\ ~torn
  /\ Len(lines) < MaxLines
  /\ m.kind = "call" => \A i \in DOMAIN lines :
       ~(lines[i].kind = "call" /\ lines[i].id = m.id)
  /\ m.kind = "cancel" => \E i \in DOMAIN lines :
       lines[i].kind = "call" /\ lines[i].id = m.id
  /\ lines' = Append(lines, m)
  /\ pipe' = Append(pipe, Len(lines) + 1)
  /\ torn' = TRUE
  /\ UNCHANGED <<closed, buffer, queued, eof, failed, callVars, loopVars>>

HostEndsLine ==
  /\ ~closed /\ torn
  /\ pipe' = Append(pipe, NL)
  /\ torn' = FALSE
  /\ UNCHANGED <<lines, closed, buffer, queued, eof, failed, callVars, loopVars>>

HostCloses ==
  /\ ~closed
  /\ closed' = TRUE
  /\ UNCHANGED <<lines, torn, inputVars, callVars, loopVars>>

-----------------------------------------------------------------------------
(* read_more and extract_line *)

\* read() returned what the pipe held, or a part of it.
ReadSome ==
  /\ ~eof /\ ~failed
  /\ \E n \in 1..Len(pipe) :
       /\ buffer' = buffer \o SubSeq(pipe, 1, n)
       /\ pipe' = SubSeq(pipe, n + 1, Len(pipe))
  /\ UNCHANGED <<queued, eof, failed>>

ReadEof ==
  /\ ~eof /\ ~failed
  /\ closed /\ pipe = <<>>
  /\ eof' = TRUE
  /\ UNCHANGED <<pipe, buffer, queued, failed>>

\* poll() or read() failed, or the line outgrew MCP_INPUT_LIMIT: at any moment,
\* and for good.
ReadFails ==
  /\ failed' = TRUE
  /\ UNCHANGED <<pipe, buffer, queued, eof>>

WholeLine == Len(buffer) >= 2

\* The unterminated last line counts once the input ended.
FinalLine == eof /\ Len(buffer) = 1

Rejected == lines[Head(buffer)].kind = "bad"

RestOfBuffer == IF WholeLine THEN Tail(Tail(buffer)) ELSE <<>>

-----------------------------------------------------------------------------
(* mcp_input_transport_next, called by mcp_run *)

Serve(i) ==
  /\ current' = i
  /\ served' = Append(served, i)
  /\ pc' = "serve"
  /\ UNCHANGED <<answered, lost, rc>>

\* mcp_run leaves its loop.
Leave(code) ==
  /\ pc' = "ended"
  /\ rc' = IF lost THEN "failed" ELSE code
  /\ UNCHANGED <<current, served, answered, lost>>

NextQueued ==
  /\ pc = "next"
  /\ queued # <<>>
  /\ queued' = Tail(queued)
  /\ Serve(Head(queued))
  /\ UNCHANGED <<hostVars, callVars, pipe, buffer, eof, failed>>

\* Fault: the buffer is looked at before the queue.
NextLineFirst ==
  /\ pc = "next"
  /\ WholeLine \/ FinalLine
  /\ ~Rejected
  /\ buffer' = RestOfBuffer
  /\ Serve(Head(buffer))
  /\ UNCHANGED <<hostVars, callVars, pipe, queued, eof, failed>>

NextLine ==
  /\ pc = "next"
  /\ queued = <<>>
  /\ WholeLine \/ FinalLine
  /\ ~Rejected
  /\ buffer' = RestOfBuffer
  /\ Serve(Head(buffer))
  /\ UNCHANGED <<hostVars, callVars, pipe, queued, eof, failed>>

NextRejects ==
  /\ pc = "next"
  /\ queued = <<>>
  /\ WholeLine \/ FinalLine
  /\ Rejected
  /\ failed' = TRUE
  /\ Leave("failed")
  /\ UNCHANGED <<hostVars, callVars, pipe, buffer, queued, eof>>

\* Fault: the unterminated last line is forgotten.
NextEndsAtEof ==
  /\ pc = "next"
  /\ queued = <<>> /\ ~WholeLine
  /\ eof
  /\ Leave("clean")
  /\ UNCHANGED <<hostVars, callVars, inputVars>>

NextEnds ==
  /\ pc = "next"
  /\ queued = <<>> /\ ~WholeLine /\ ~FinalLine
  /\ eof
  /\ Leave("clean")
  /\ UNCHANGED <<hostVars, callVars, inputVars>>

NextReads ==
  /\ pc = "next"
  /\ queued = <<>> /\ ~WholeLine
  /\ ReadSome \/ ReadEof
  /\ UNCHANGED <<hostVars, callVars, loopVars>>

NextReadFails ==
  /\ pc = "next"
  /\ queued = <<>> /\ ~WholeLine /\ ~eof
  /\ ReadFails
  /\ Leave("failed")
  /\ UNCHANGED <<hostVars, callVars>>

-----------------------------------------------------------------------------
(* mcp_run *)

\* Nothing to answer: empty lines and notifications, a late cancellation too.
ServeSilent ==
  /\ pc = "serve"
  /\ lines[current].kind \in {"silent", "cancel"}
  /\ pc' = "next"
  /\ UNCHANGED <<hostVars, inputVars, callVars, current, served, answered, lost, rc>>

ServeOther ==
  /\ pc = "serve"
  /\ lines[current].kind = "other"
  /\ pc' = "reply"
  /\ UNCHANGED <<hostVars, inputVars, callVars, current, served, answered, lost, rc>>

\* Fault: the flags of the previous call are not reset.
ServeCallKeepingFlags ==
  /\ pc = "serve"
  /\ lines[current].kind = "call"
  /\ active' = lines[current].id
  /\ pc' = "call"
  /\ UNCHANGED <<hostVars, inputVars, current, served, answered, lost, rc,
                 cancelled, disconnected>>

ServeCall ==
  /\ pc = "serve"
  /\ lines[current].kind = "call"
  /\ active' = lines[current].id
  /\ cancelled' = FALSE
  /\ disconnected' = FALSE
  /\ pc' = "call"
  /\ UNCHANGED <<hostVars, inputVars, current, served, answered, lost, rc>>

\* The handler returned, whatever it had waited for.
CallFinishes ==
  /\ pc = "call"
  /\ active' = NoId
  /\ pc' = "reply"
  /\ UNCHANGED <<hostVars, inputVars, cancelled, disconnected, current, served,
                 answered, lost, rc>>

Reply ==
  /\ pc = "reply"
  /\ answered' = Append(answered, current)
  /\ pc' = "next"
  /\ UNCHANGED <<hostVars, inputVars, callVars, current, served, lost, rc>>

\* The host no longer reads: SIGPIPE is ignored and the write fails.
ReplyFails ==
  /\ pc = "reply"
  /\ closed
  /\ Leave("failed")
  /\ UNCHANGED <<hostVars, inputVars, callVars>>

-----------------------------------------------------------------------------
(* mcp_request_cancelled, from inside a handler that waits *)

CallPolls ==
  /\ pc = "call"
  /\ pc' = "poll"
  /\ UNCHANGED <<hostVars, inputVars, callVars, current, served, answered, lost, rc>>

\* A waiting handler gives up as soon as the poll tells it so.
PollReturns ==
  IF cancelled' \/ disconnected'
  THEN pc' = "reply" /\ active' = NoId
  ELSE pc' = "call" /\ UNCHANGED active

\* The transport reports an error: mcp_request_cancelled takes it for a
\* disconnected host.
PollFails ==
  /\ lost' = TRUE
  /\ disconnected' = TRUE
  /\ pc' = "reply" /\ active' = NoId
  /\ UNCHANGED <<cancelled, current, served, answered, rc>>

\* Fault: ids are compared as if they never matched.
IsCancelForNobody(i) == FALSE

\* is_cancel_for
IsCancelFor(i) == lines[i].kind = "cancel" /\ lines[i].id = active

\* Any cancellation is consumed; only the active request's has an effect.
PollCancel ==
  /\ pc = "poll"
  /\ WholeLine
  /\ lines[Head(buffer)].kind = "cancel"
  /\ cancelled' = (cancelled \/ IsCancelFor(Head(buffer)))
  /\ buffer' = RestOfBuffer
  /\ UNCHANGED <<hostVars, pipe, queued, eof, failed, active, disconnected,
                 loopVars>>

PollQueues ==
  /\ pc = "poll"
  /\ WholeLine
  /\ ~Rejected /\ lines[Head(buffer)].kind # "cancel"
  /\ Len(queued) < QueueLimit
  /\ queued' = Append(queued, Head(buffer))
  /\ buffer' = RestOfBuffer
  /\ UNCHANGED <<hostVars, pipe, eof, failed, callVars, loopVars>>

\* Fault: a line that does not fit is dropped and nobody is told.
PollOverflowsSilently ==
  /\ pc = "poll"
  /\ WholeLine
  /\ ~Rejected /\ lines[Head(buffer)].kind # "cancel"
  /\ Len(queued) >= QueueLimit
  /\ buffer' = RestOfBuffer
  /\ UNCHANGED <<hostVars, pipe, queued, eof, failed, callVars, loopVars>>

\* The line that does not fit is freed, and the transport failed.
PollOverflows ==
  /\ pc = "poll"
  /\ WholeLine
  /\ ~Rejected /\ lines[Head(buffer)].kind # "cancel"
  /\ Len(queued) >= QueueLimit
  /\ buffer' = RestOfBuffer
  /\ failed' = TRUE
  /\ PollFails
  /\ UNCHANGED <<hostVars, pipe, queued, eof>>

PollRejects ==
  /\ pc = "poll"
  /\ WholeLine
  /\ Rejected
  /\ failed' = TRUE
  /\ PollFails
  /\ UNCHANGED <<hostVars, pipe, buffer, queued, eof>>

PollReads ==
  /\ pc = "poll"
  /\ ~WholeLine
  /\ ReadSome
  /\ UNCHANGED <<hostVars, callVars, loopVars>>

PollReadFails ==
  /\ pc = "poll"
  /\ ~WholeLine
  /\ ~eof \/ failed
  /\ ReadFails
  /\ PollFails
  /\ UNCHANGED hostVars

\* Fault: the end of the input is noticed and not reported.
PollEndsUnreported ==
  /\ pc = "poll"
  /\ ~WholeLine /\ ~failed
  /\ pipe = <<>>
  /\ eof' = closed
  /\ UNCHANGED <<cancelled, disconnected>>
  /\ PollReturns
  /\ UNCHANGED <<hostVars, pipe, buffer, queued, failed, current, served,
                 answered, lost, rc>>

\* Nothing to read: the pipe is empty, the host has closed it, or had before.
PollEnds ==
  /\ pc = "poll"
  /\ ~WholeLine /\ ~failed
  /\ pipe = <<>>
  /\ eof' = closed
  /\ disconnected' = (disconnected \/ closed)
  /\ UNCHANGED cancelled
  /\ PollReturns
  /\ UNCHANGED <<hostVars, pipe, buffer, queued, failed, current, served,
                 answered, lost, rc>>

-----------------------------------------------------------------------------
HostStep == (\E m \in Message : HostWrites(m)) \/ HostEndsLine \/ HostCloses

NextStep ==
  \/ NextQueued \/ NextLine \/ NextRejects \/ NextEnds \/ NextReads

ServeStep == ServeSilent \/ ServeOther \/ ServeCall \/ Reply

PollStep ==
  \/ CallPolls \/ PollCancel \/ PollQueues \/ PollOverflows \/ PollRejects
  \/ PollReads \/ PollEnds

Next ==
  \/ HostStep
  \/ NextStep \/ NextReadFails
  \/ ServeStep \/ ReplyFails \/ CallFinishes
  \/ PollStep \/ PollReadFails

Spec == Init /\ [][Next]_vars

(* The loop runs and a waiting handler keeps polling.  No handler need ever   *)
(* finish by itself, no host need ever write or close, no read need ever fail *)
(* unless the transport failed before.                                        *)
Fairness ==
  WF_vars(\/ NextStep \/ ServeStep \/ PollStep
          \/ failed /\ (NextReadFails \/ PollReadFails))

FairSpec == Spec /\ Fairness

-----------------------------------------------------------------------------
(* Properties *)

\* Variables are in their ranges, a request id is active exactly while its call
\* runs, and the queue never outgrows its array.
TypeOK ==
  /\ lines \in Seq(Message) /\ Len(lines) <= MaxLines
  /\ Range(pipe) \cup Range(buffer) \subseteq Unit
  /\ Range(queued) \cup Range(served) \cup Range(answered) \subseteq Line
  /\ Len(queued) <= QueueLimit
  /\ {torn, closed, eof, failed, cancelled, disconnected, lost} \subseteq BOOLEAN
  /\ pc \in Phase /\ current \in Unit
  /\ active \in Id \cup {NoId}
  /\ active # NoId <=> pc \in {"call", "poll"}
  /\ rc \in {"running", "clean", "failed"}

\* The lines of a sequence of units, and of one of line numbers, ascend.
Ascending(units) ==
  \A i, j \in DOMAIN units :
    i < j /\ units[i] # NL /\ units[j] # NL => units[i] < units[j]

InWork == served \o queued \o buffer \o pipe

\* The queue, the read buffer and the pipe are one first-in-first-out channel:
\* lines reach mcp_run in the order they were written and never twice, although
\* some were queued by a poll inside an earlier call.
LinesInOrder == Ascending(InWork)

\* A line disappears on its way only if it is a cancellation, or if the transport
\* is known to have failed.
NothingLostUnnoticed ==
  \A i \in DOMAIN lines :
    i \in Range(InWork) \/ lines[i].kind = "cancel" \/ failed

Answerable(i) == lines[i].kind \in {"call", "other"}

\* A server that ends without an error has answered every request its host wrote,
\* once and in order, the unterminated last line and the queue included.
CleanEndAnswersAll ==
  rc = "clean" =>
    /\ Range(answered) = {i \in DOMAIN lines : Answerable(i)}
    /\ Ascending(answered)

\* A waiting call is interrupted only by its own cancellation, a host that is gone
\* or a failed transport: what ended one call never reaches the next.
InterruptedForCause ==
  [][pc = "poll" /\ pc' = "reply" =>
       \/ closed \/ failed'
       \/ \E i \in DOMAIN lines :
            lines[i].kind = "cancel" /\ lines[i].id = active]_vars

\* Line i is on its way to the server and complete.
Pending(i) ==
  /\ i \in Range(buffer) \cup Range(pipe)
  /\ i < Len(lines) \/ ~torn

\* A cancellation written while its call is running ends the call, however many
\* other lines precede it and without waiting for the tool's deadline.
CancelEndsCall ==
  \A c \in Id :
    /\ active = c
    /\ \E i \in DOMAIN lines : Pending(i) /\ lines[i] = [kind |-> "cancel", id |-> c]
    ~> active # c

\* Once the host is gone the server ends: neither a waiting call nor a queue of
\* them can keep it, and the lease with it.
HostGoneEnds == closed ~> pc = "ended"

\* docs/semantic-events.md:63-65: a handler consumes "only a matching
\* notifications/cancelled message".
OnlyMatchingConsumed ==
  [][\A i \in Range(buffer) \ {NL} :
       pc = "poll" /\ ~(lines[i].kind = "cancel" /\ lines[i].id = active)
         => i \in Range(buffer') \cup Range(queued')]_vars
=============================================================================
