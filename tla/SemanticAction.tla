--------------------------- MODULE SemanticAction ---------------------------
(***************************************************************************)
(* One verified AT-SPI mutation (accessibility_action in                   *)
(* csrc/accessibility.c): the element and the element that shows the       *)
(* postcondition are searched, bound to live objects, re-resolved twice,   *)
(* and the mutation is sent at most once; then the postcondition is        *)
(* polled until the deadline.                                              *)
(*                                                                         *)
(* Every search reads the number of children and then each child by its    *)
(* index, while the application and its user rearrange, rename and edit    *)
(* them.  A request that the client gave up on may still be executed.      *)
(***************************************************************************)
EXTENDS Naturals, FiniteSets, Sequences

CONSTANTS
  Nodes,       \* bound: elements in the window at a time
  Texts,       \* what a user may type
  Goal,        \* the text asked for, or shown once an invoked action took effect
  NoRequest,
  MaxChanges   \* bound: changes the application and the user make

\* What walks tell elements apart by: an element has the role and name of the target, or
\* those of the element that shows what an invoked action did.
Names == {"target", "label"}
Modes == {"ready", "disabled", "protected"}

ASSUME NodesAssumption == Nodes \in Nat \ {0}
ASSUME TextsAssumption == Goal \in Texts
ASSUME NoRequestAssumption == NoRequest \notin [to : Nat, text : Texts \X BOOLEAN]

\* A text, and whether it is the result of replacing a range in it.
Text == Texts \X BOOLEAN
Plain(t) == <<t, FALSE>>
Ranged(text) == <<text[1], TRUE>>

\* The caller's complete locator: the bus name, object path and process of object 1, and its
\* path, which was that of the first child.
Locator == 1

VARIABLES
  kids,      \* the elements of the window, in the order of their indices
  changes,   \* bound on the environment; also makes object identities fresh
  late,      \* the deadline has passed
  request,   \* the mutation under way in the application
  reply,     \* its answer, while the client waits for one
  kind,      \* "set" (text, value, selection, focus), "range" or "invoke"
  selector,  \* "name" (role and name) or "locator"
  pc,
  search,    \* the walk: [next, count, match, hits, failed, steady]; steady is history: since
             \* the count no index moved, and object 1 was there and had the target's name
  target,    \* [bound, match, sure]; sure is history: a walk that bound it was steady
  shown, source, result,
  sent,      \* history: where the request was sent, or 0
  executed,  \* history: how often the application executed it
  edited     \* history: when the user last wrote into the target

appVars == <<kids, changes, late, request, executed, edited>>
callVars == <<kind, selector, pc, search, target, shown, source, result, reply, sent>>
actionVars == <<appVars, callVars>>

Lives(id) == \E i \in DOMAIN kids : kids[i].id = id
Ob(id) == kids[CHOOSE i \in DOMAIN kids : kids[i].id = id]

NoSearch == [next |-> 0, count |-> 0, match |-> 0, hits |-> 0, failed |-> "no", steady |-> FALSE]
NoResult == [success |-> FALSE, issued |-> FALSE, applied |-> FALSE, unknown |-> FALSE]

-----------------------------------------------------------------------------
(* The accessible tree is the environment's. *)

\* As captured: object 1 is the first child.
ActionInit ==
  /\ \E n \in 1..Nodes, t \in Texts : \E names \in [1..n -> Names] :
       /\ names[1] = "target"
       /\ kids = [i \in 1..n |->
                    [id |-> i, name |-> names[i], mode |-> "ready", text |-> Plain(t)]]
  /\ changes = 0 /\ late = FALSE
  /\ request = NoRequest /\ reply = "none"
  /\ kind = "set" /\ selector = "name" /\ pc = "ready"
  /\ search = NoSearch
  /\ target = [bound |-> 0, match |-> 0, sure |-> FALSE] /\ shown = 0 /\ source = Plain(Goal)
  /\ result = NoResult
  /\ sent = 0 /\ executed = 0 /\ edited = "never"

\* The walk is over: all children read, two matches, or a call that failed.
Ended == search.next > search.count \/ search.hits > 1 \/ search.failed # "no"

Changes(new) ==
  /\ changes < MaxChanges /\ changes' = changes + 1
  /\ kids' = new
  /\ UNCHANGED <<late, request, executed, kind, selector, pc, target, shown, source, result,
                 reply, sent>>

Disturbs == search' = [search EXCEPT !.steady = @ /\ Ended]

Newcomers == {[id |-> Nodes + 1 + changes, name |-> n, mode |-> "ready", text |-> Plain(t)] :
                n \in Names, t \in Texts}

\* Elements go, move, or are replaced; one may come.  What follows them gets other indices.
Restructure ==
  \E n \in 0..Nodes : \E new \in [1..n -> {kids[i] : i \in DOMAIN kids} \cup Newcomers] :
    /\ \A i, j \in 1..n : new[i].id = new[j].id => i = j
    /\ Changes(new) /\ Disturbs
    /\ edited' = edited

\* A living element gets another name or role.
Rename ==
  \E i \in DOMAIN kids : \E n \in Names \ {kids[i].name} :
    /\ Changes([kids EXCEPT ![i].name = n])
    /\ IF kids[i].id = Locator THEN Disturbs ELSE search' = search
    /\ edited' = edited

\* An element is disabled, hidden, enabled again, or becomes a password field.
SetMode ==
  \E i \in DOMAIN kids : \E m \in Modes \ {kids[i].mode} :
    /\ Changes([kids EXCEPT ![i].mode = m])
    /\ search' = search /\ edited' = edited

UserEdits ==
  \E i \in DOMAIN kids : \E t \in Text \ {kids[i].text} :
    /\ Changes([kids EXCEPT ![i].text = t])
    /\ search' = search
    /\ edited' = IF kids[i].id # target.match THEN edited
                 ELSE IF pc \in {"verify", "target2", "verify2", "target3"} THEN "early"
                 ELSE "late"

\* The application takes the request off the bus and executes it; it answers even
\* if nobody waits any more.  An invoked action changes some element, or none.
Execute ==
  /\ request # NoRequest /\ Lives(request.to)
  /\ \/ /\ kind # "invoke"
        /\ \E i \in DOMAIN kids :
             kids[i].id = request.to /\ kids' = [kids EXCEPT ![i].text = request.text]
     \/ kind = "invoke" /\ kids' = kids
     \/ kind = "invoke" /\ \E i \in DOMAIN kids : kids' = [kids EXCEPT ![i].text = Plain(Goal)]
  /\ executed' = executed + 1
  /\ request' = NoRequest
  /\ reply' = IF pc = "reply" THEN "applied" ELSE reply
  /\ UNCHANGED <<changes, late, edited, kind, selector, pc, search, target, shown, source,
                 result, sent>>

\* It refuses (the call returns FALSE) or fails (a D-Bus error).
Decline ==
  /\ request # NoRequest
  /\ request' = NoRequest
  /\ \E answer \in {"refused", "error"} : reply' = IF pc = "reply" THEN answer ELSE reply
  /\ UNCHANGED <<kids, changes, late, edited, executed, kind, selector, pc, search, target,
                 shown, source, result, sent>>

DeadlinePasses ==
  /\ pc \notin {"ready", "done"} /\ ~late
  /\ late' = TRUE
  /\ UNCHANGED <<kids, changes, request, executed, edited, callVars>>

Application == Restructure \/ Rename \/ SetMode \/ UserEdits \/ Execute \/ Decline

-----------------------------------------------------------------------------
(* Searching: resolve_selector and search_selector_nodes. *)

TargetPhase == {"target", "target2", "target3"}
VerifyPhase == {"verify", "verify2", "verify3", "post"}

\* What follows each phase that neither fails nor ends the call.
After == [target |-> "verify", verify |-> "target2", target2 |-> "verify2",
          verify2 |-> "target3", target3 |-> "verify3", verify3 |-> "perform"]

\* An invoked action is verified by an element of its own, others by their target.
Wanted == IF pc \in VerifyPhase /\ kind = "invoke" THEN "label" ELSE "target"

Goto(phase) == pc' = phase /\ search' = NoSearch

\* selector_matches: a locator also compares the path walked and the live identity.
Matches(i) ==
  /\ kids[i].name = Wanted
  /\ selector = "locator" /\ Wanted = "target" => i = Locator /\ kids[i].id = Locator

\* The number of children is read, once.
CountKids ==
  /\ pc \in TargetPhase \cup VerifyPhase
  /\ search.next = 0 /\ ~Ended /\ ~late
  /\ search' = [NoSearch EXCEPT !.next = 1, !.count = Len(kids),
                                !.steady = \E i \in DOMAIN kids :
                                             kids[i].id = Locator /\ kids[i].name = "target"]
  /\ UNCHANGED <<appVars, kind, selector, pc, target, shown, source, result, reply, sent>>

\* The child that now has the next index is read.  The walk ends once two match.
Visit ==
  /\ pc \in TargetPhase \cup VerifyPhase
  /\ search.next \in DOMAIN kids /\ ~Ended /\ ~late
  /\ search' = IF Matches(search.next)
               THEN [search EXCEPT !.next = @ + 1, !.hits = @ + 1,
                                   !.match = IF search.hits = 0 THEN kids[search.next].id ELSE @]
               ELSE [search EXCEPT !.next = @ + 1]
  /\ UNCHANGED <<appVars, kind, selector, pc, target, shown, source, result, reply, sent>>

\* A call fails, or the walk is cut off (limits, an index nobody has, the deadline).
VisitFails ==
  /\ pc \in TargetPhase \cup VerifyPhase
  /\ ~Ended
  /\ \E why \in {"error", "cut"} :
       search' = [NoSearch EXCEPT !.failed = why, !.hits = search.hits, !.match = search.match]
  /\ UNCHANGED <<appVars, kind, selector, pc, target, shown, source, result, reply, sent>>

Unique == Ended /\ search.failed = "no" /\ search.hits = 1
Found == search.match

-----------------------------------------------------------------------------
(* The call, up to the mutation. *)

BeginAction(k, s) ==
  /\ pc = "ready"
  /\ kind' = k /\ selector' = s
  /\ Goto("target")
  /\ UNCHANGED <<appVars, target, shown, source, result, reply, sent>>

Expected == IF kind = "range" THEN Ranged(source) ELSE Plain(Goal)

\* node_is_protected, node_state and the operation's own precondition.
Fit(id) == Lives(id) /\ Ob(id).mode = "ready"

\* evaluate_verification
Readable(id) == Lives(id) /\ Ob(id).mode # "protected"
Satisfied(id) == Ob(id).text = Expected

\* The call returns; what it searched is forgotten.
Finish(res) ==
  /\ pc' = "done" /\ result' = res
  /\ search' = NoSearch
  /\ UNCHANGED <<appVars, kind, selector, target, shown, source, reply, sent>>

\* Every early return before the mutation: no match, several, an incomplete walk,
\* an unfit or replaced element, an AT-SPI call that fails or comes too late.
Refuse ==
  /\ pc \in TargetPhase \cup {"verify", "verify2", "verify3"}
  /\ Ended
  /\ Finish(result)

\* The element is bound; a range is computed from its present text.
BindTarget ==
  /\ pc = "target" /\ Unique /\ ~late /\ Fit(Found)
  /\ target' = [bound |-> Found, match |-> Found, sure |-> search.steady]
  /\ source' = Ob(Found).text
  /\ Goto("verify")
  /\ UNCHANGED <<appVars, kind, selector, shown, result, reply, sent>>

\* Re-resolution: still the same object, still fit.
TargetAgain ==
  /\ pc = "target2" /\ Unique /\ ~late /\ Fit(Found)
  /\ Found = target.bound
  /\ target' = [target EXCEPT !.match = Found, !.sure = @ \/ search.steady]
  /\ Goto("verify2")
  /\ UNCHANGED <<appVars, kind, selector, shown, source, result, reply, sent>>

\* Fault: the fresh object is not compared with the bound one.
TargetAtDispatchUnbound ==
  /\ pc = "target3" /\ Unique /\ ~late /\ Fit(Found)
  /\ kind = "range" => Ob(Found).text = source
  /\ target' = [target EXCEPT !.match = Found, !.sure = @ \/ search.steady]
  /\ Goto("verify3")
  /\ UNCHANGED <<appVars, kind, selector, shown, source, result, reply, sent>>

\* Fault: the range is computed from a text that is not read again.
TargetAtDispatchUnread ==
  /\ pc = "target3" /\ Unique /\ ~late /\ Fit(Found)
  /\ Found = target.bound
  /\ target' = [target EXCEPT !.match = Found, !.sure = @ \/ search.steady]
  /\ Goto("verify3")
  /\ UNCHANGED <<appVars, kind, selector, shown, source, result, reply, sent>>

\* Before dispatch the range's source text is compared too.
TargetAtDispatch ==
  /\ pc = "target3" /\ Unique /\ ~late /\ Fit(Found)
  /\ Found = target.bound
  /\ kind = "range" => Ob(Found).text = source
  /\ target' = [target EXCEPT !.match = Found, !.sure = @ \/ search.steady]
  /\ Goto("verify3")
  /\ UNCHANGED <<appVars, kind, selector, shown, source, result, reply, sent>>

VerifyFound ==
  /\ pc \in {"verify", "verify2", "verify3"} /\ Unique /\ ~late /\ Readable(Found)
  /\ pc = "verify" \/ Found = shown

\* The postcondition holds already: a verified no-op.
AlreadySatisfied ==
  /\ VerifyFound /\ Satisfied(Found)
  /\ Finish([result EXCEPT !.success = TRUE])

NotYetSatisfied ==
  /\ VerifyFound /\ ~Satisfied(Found)
  /\ shown' = Found
  /\ Goto(After[pc])
  /\ UNCHANGED <<appVars, kind, selector, target, source, result, reply, sent>>

-----------------------------------------------------------------------------
(* The mutation and its verification. *)

\* perform_*: prepare_atspi_call fails, or the object lacks the interface.
NotIssued ==
  /\ pc = "perform"
  /\ Finish(result)

Issue ==
  /\ pc = "perform" /\ ~late
  /\ request' = [to |-> target.match, text |-> Expected]
  /\ sent' = target.match
  /\ pc' = "reply"
  /\ UNCHANGED <<kids, changes, late, executed, edited, kind, selector, search, target, shown,
                 source, result, reply>>

Answered(res) ==
  /\ result' = [res EXCEPT !.issued = TRUE]
  /\ reply' = "none"
  /\ Goto("post")
  /\ UNCHANGED <<appVars, kind, selector, target, shown, source, sent>>

Receive ==
  /\ pc = "reply" /\ reply # "none"
  /\ Answered([result EXCEPT !.applied = (reply = "applied"), !.unknown = (reply = "error")])

\* Fault: a call without a reply counts as not executed.
CallTimesOutDenied ==
  /\ pc = "reply" /\ reply = "none"
  /\ Answered(result)

\* The reply did not come within the call's or the query's time.
CallTimesOut ==
  /\ pc = "reply" /\ reply = "none"
  /\ Answered([result EXCEPT !.unknown = TRUE])

\* Fault: whatever matches by role and name verifies the postcondition.
PostVerifiedAnywhere ==
  /\ pc = "post" /\ Unique /\ ~late
  /\ Readable(Found) /\ Satisfied(Found)
  /\ Finish([result EXCEPT !.success = TRUE])

PostVerified ==
  /\ pc = "post" /\ Unique /\ ~late
  /\ Found = shown /\ Readable(Found) /\ Satisfied(Found)
  /\ Finish([result EXCEPT !.success = TRUE])

\* Nothing found, a failed call, or not satisfied yet: after 10 ms the walk starts over.
PostAgain ==
  /\ pc = "post" /\ Ended /\ ~late
  /\ \/ search.failed = "error" /\ (search.hits = 0 \/ Found = shown)
     \/ search.failed = "no" /\ search.hits = 0
     \/ Unique /\ Found = shown /\ Readable(Found) /\ ~Satisfied(Found)
  /\ Goto("post")
  /\ UNCHANGED <<appVars, kind, selector, target, shown, source, result, reply, sent>>

\* Ambiguous, replaced, unreadable, cut off, or too late.
PostGivesUp ==
  /\ pc = "post" /\ Ended
  /\ \/ late \/ search.failed = "cut" \/ search.hits > 1
     \/ Unique /\ (Found # shown \/ ~Readable(Found))
     \/ search.failed = "error" /\ search.hits = 1 /\ Found # shown
  /\ Finish(result)

ActionStep ==
  \/ CountKids \/ Visit \/ VisitFails \/ Refuse
  \/ BindTarget \/ TargetAgain \/ TargetAtDispatch
  \/ AlreadySatisfied \/ NotYetSatisfied
  \/ NotIssued \/ Issue \/ Receive \/ CallTimesOut
  \/ PostVerified \/ PostAgain \/ PostGivesUp

-----------------------------------------------------------------------------
(* Properties *)

Element == [id : Nat, name : Names, mode : Modes, text : Text]

\* Ranges; at most one request is under way, and only after one was sent.
ActionTypeOK ==
  /\ kids \in Seq(Element)
  /\ pc \in TargetPhase \cup VerifyPhase \cup {"ready", "perform", "reply", "done"}
  /\ reply \in {"none", "applied", "refused", "error"}
  /\ kind \in {"set", "range", "invoke"} /\ selector \in {"name", "locator"}
  /\ DOMAIN result = DOMAIN NoResult /\ \A f \in DOMAIN result : result[f] \in BOOLEAN
  /\ request # NoRequest => sent # 0 /\ request.to = sent

\* What is reported of the mutation is true, however late the application acts: a
\* call that reports "not issued" never causes one, a refused one was not executed,
\* an applied one was, and none is ever executed twice.
OutcomeIsHonest ==
  /\ executed <= 1
  /\ pc = "done" =>
       /\ ~result.issued => sent = 0 /\ executed = 0
       /\ result.issued /\ ~result.unknown => executed = IF result.applied THEN 1 ELSE 0

\* Success is reported only while the postcondition is on the object that the call
\* bound before it mutated anything, never on one that took its place.
SuccessIsObserved ==
  [][result'.success /\ ~result.success =>
       LET id == IF shown = 0 THEN Found ELSE shown
       IN Lives(id) /\ Ob(id).text = Expected]_actionVars

\* A text range never overwrites what the user wrote between the reading of the
\* text and the check before dispatch ("text_source_changed").
EarlierEditsKept ==
  [][executed' # executed /\ kind = "range" =>
       Ob(request.to).text = source \/ edited = "late"]_actionVars
=============================================================================
