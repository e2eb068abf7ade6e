----------------------- MODULE SemanticMutation_proofs -----------------------
(***************************************************************************)
(* What SemanticMutation promises, for any number of nodes, cursors,       *)
(* changes, faults and calls: first what an action does and reports, then  *)
(* what the agent cursor promises to the tools that act on elements, for   *)
(* any number of Shell restarts and lost connections.                      *)
(***************************************************************************)
EXTENDS SemanticMutation, FiniteSetTheorems, SequenceTheorems, TLAPS

-----------------------------------------------------------------------------
(* The composition, seen from the action. *)

BeginStep == \E k \in {"set", "range", "invoke"}, s \in {"name", "locator"} : BeginAction(k, s)

\* What changes in the application is none of the elements.
Aside ==
  /\ changes' = changes + 1
  /\ UNCHANGED <<kids, late, request, executed, edited, callVars>>

ActionNext == ActionStep \/ Application \/ DeadlinePasses \/ BeginStep \/ Aside

\* Every step of the composition is one of the action, or leaves it alone.
LEMMA StepOfAction == [MutationNext]_mutationVars => ActionNext \/ UNCHANGED actionVars
<1> SUFFICES ASSUME [MutationNext]_mutationVars PROVE ActionNext \/ UNCHANGED actionVars
  OBVIOUS
<1>1. CASE Tools
  BY <1>1 DEF Tools, CallMove, CallHide, CallAction, CallMutation, ActionNext, BeginStep
<1>2. CASE Server
  BY <1>2 DEF Server, CursorReturns, ActionReturns, NotLocated, Locate, MoveRefused, Revalidate,
              WindowLost, Nameless, Dispatch, Report, ActionNext, BeginStep
<1>3. CASE Environment
  BY <1>3 DEF Environment, WindowChanges, Relayout, ApplicationActs, ShellActs, ActionNext, Aside
<1>4. CASE Late
  BY <1>4 DEF Late, ActionNext
<1>5. CASE Exit
  BY <1>5 DEF Exit
<1>6. CASE UNCHANGED mutationVars
  BY <1>6 DEF mutationVars
<1> QED BY <1>1, <1>2, <1>3, <1>4, <1>5, <1>6 DEF MutationNext

-----------------------------------------------------------------------------
(* The outcome. *)

Results == [success : BOOLEAN, issued : BOOLEAN, applied : BOOLEAN, unknown : BOOLEAN]

\* An update of one field leaves the others: of any record with these fields, and of a
\* result.
LEMMA Field_success ==
  ASSUME NEW B, NEW r \in [success : B, issued : B, applied : B, unknown : B], NEW x
  PROVE  [r EXCEPT !.success = x]
         = [success |-> x, issued |-> r.issued, applied |-> r.applied, unknown |-> r.unknown]
OBVIOUS

LEMMA Field_issued ==
  ASSUME NEW B, NEW r \in [success : B, issued : B, applied : B, unknown : B], NEW x
  PROVE  [r EXCEPT !.issued = x]
         = [success |-> r.success, issued |-> x, applied |-> r.applied, unknown |-> r.unknown]
OBVIOUS

LEMMA Field_applied ==
  ASSUME NEW B, NEW r \in [success : B, issued : B, applied : B, unknown : B], NEW x
  PROVE  [r EXCEPT !.applied = x]
         = [success |-> r.success, issued |-> r.issued, applied |-> x, unknown |-> r.unknown]
OBVIOUS

LEMMA Field_unknown ==
  ASSUME NEW B, NEW r \in [success : B, issued : B, applied : B, unknown : B], NEW x
  PROVE  [r EXCEPT !.unknown = x]
         = [success |-> r.success, issued |-> r.issued, applied |-> r.applied, unknown |-> x]
OBVIOUS

LEMMA ResultSucceeds ==
  ASSUME NEW r \in Results
  PROVE  [r EXCEPT !.success = TRUE]
         = [success |-> TRUE, issued |-> r.issued, applied |-> r.applied, unknown |-> r.unknown]
BY Field_success DEF Results

LEMMA ResultIssued ==
  ASSUME NEW r \in Results
  PROVE  [r EXCEPT !.issued = TRUE]
         = [success |-> r.success, issued |-> TRUE, applied |-> r.applied, unknown |-> r.unknown]
BY Field_issued DEF Results

LEMMA ResultUnknown ==
  ASSUME NEW r \in Results, NEW u \in BOOLEAN
  PROVE  [r EXCEPT !.unknown = u]
         = [success |-> r.success, issued |-> r.issued, applied |-> r.applied, unknown |-> u]
BY Field_unknown DEF Results

LEMMA ResultApplied ==
  ASSUME NEW r \in Results, NEW a \in BOOLEAN
  PROVE  [r EXCEPT !.applied = a]
         = [success |-> r.success, issued |-> r.issued, applied |-> a, unknown |-> r.unknown]
BY Field_applied DEF Results

\* The phases before the mutation is sent.
Early == {"ready", "target", "verify", "target2", "verify2", "target3", "verify3", "perform"}

\* The request is under way, was executed or was not; which of them holds follows from
\* the answer while one is awaited, and from the outcome afterwards.
HonestInv ==
  /\ pc \in Early \cup {"reply", "post", "done"}
  /\ executed \in {0, 1} /\ result \in Results
  /\ reply \in {"none", "applied", "refused", "error"}
  /\ request # NoRequest => executed = 0
  /\ pc # "reply" => reply = "none"
  /\ pc \in Early => sent = 0 /\ request = NoRequest /\ executed = 0 /\ ~result.issued
  /\ reply # "none" =>
       request = NoRequest /\ executed = (IF reply = "applied" THEN 1 ELSE 0)
  /\ pc \in {"post", "done"} =>
       /\ ~result.issued => sent = 0 /\ request = NoRequest /\ executed = 0
       /\ result.issued /\ ~result.unknown =>
            request = NoRequest /\ executed = (IF result.applied THEN 1 ELSE 0)

\* Nothing was sent yet.
LEMMA HonestInit == MutationInit => HonestInv
BY DEF MutationInit, ActionInit, HonestInv, Early, NoResult, Results

\* The call ends early, or goes on to another phase, without a word to the application.
LEMMA HonestGoes ==
  ASSUME HonestInv, UNCHANGED <<request, executed, reply, sent, result>>,
         \/ pc' = pc
         \/ pc \in Early /\ pc' \in Early \cup {"done"}
         \/ pc = "post" /\ pc' \in {"post", "done"}
  PROVE  HonestInv'
BY DEF HonestInv, Early

LEMMA HonestSucceeds ==
  ASSUME HonestInv, UNCHANGED <<request, executed, reply, sent>>,
         result' = [result EXCEPT !.success = TRUE],
         pc \in Early \cup {"post"}, pc' = "done"
  PROVE  HonestInv'
<1>1. result \in Results
  BY DEF HonestInv
<1>2. result' = [success |-> TRUE, issued |-> result.issued, applied |-> result.applied,
                 unknown |-> result.unknown]
  BY <1>1, ResultSucceeds, Zenon
<1>3. /\ result' \in Results /\ result'.issued = result.issued
      /\ result'.applied = result.applied /\ result'.unknown = result.unknown
  BY <1>1, <1>2 DEF Results
<1> QED BY <1>3 DEF HonestInv, Early

\* A reply, or none in time: the outcome says what is known of the request.
LEMMA HonestAnswered ==
  ASSUME HonestInv, Receive \/ CallTimesOut
  PROVE  HonestInv' /\ result'.success = result.success
<1>1. result \in Results /\ pc = "reply"
  BY DEF HonestInv, Receive, CallTimesOut
<1>2. UNCHANGED <<request, executed, sent>> /\ reply' = "none" /\ pc' = "post"
  BY DEF Receive, CallTimesOut, Answered, Goto, appVars
<1>3. CASE Receive
  <2> DEFINE r == [result EXCEPT !.applied = (reply = "applied")]
             q == [r EXCEPT !.unknown = (reply = "error")]
  <2>1. r = [success |-> result.success, issued |-> result.issued,
             applied |-> (reply = "applied"), unknown |-> result.unknown]
    BY <1>1, ResultApplied, Zenon
  <2>2. r \in Results
    BY <1>1, <2>1 DEF Results
  <2> HIDE DEF r
  <2>3. q = [success |-> r.success, issued |-> r.issued, applied |-> r.applied,
             unknown |-> (reply = "error")]
    BY <2>2, ResultUnknown, Zenon
  <2> HIDE DEF q
  <2>4. /\ q \in Results /\ q.applied = (reply = "applied") /\ q.unknown = (reply = "error")
        /\ q.success = result.success
    <3>1. /\ r.success \in BOOLEAN /\ r.issued \in BOOLEAN /\ r.applied \in BOOLEAN
      BY <2>2 DEF Results
    <3>2. (reply = "error") \in BOOLEAN
      OBVIOUS
    <3>3. q \in Results
      BY <2>3, <3>1, <3>2 DEF Results
    <3>4. /\ q.success = r.success /\ q.applied = r.applied /\ q.unknown = (reply = "error")
      BY <2>3
    <3>5. r.success = result.success /\ r.applied = (reply = "applied")
      BY <2>1
    <3> QED BY <3>3, <3>4, <3>5, Zenon
  <2>5. result' = [q EXCEPT !.issued = TRUE]
    BY <1>3 DEF Receive, Answered, r, q
  <2>6. result' = [success |-> q.success, issued |-> TRUE, applied |-> q.applied,
                   unknown |-> q.unknown]
    BY <2>4, <2>5, ResultIssued, Zenon
  <2>7. /\ result' \in Results /\ result'.issued
        /\ result'.applied = (reply = "applied") /\ result'.unknown = (reply = "error")
        /\ result'.success = result.success
    BY <2>1, <2>3, <2>4, <2>6 DEF Results
  <2>8. reply # "none"
    BY <1>3 DEF Receive
  <2> QED BY <1>1, <1>2, <2>7, <2>8 DEF HonestInv, Early
<1>4. CASE CallTimesOut
  <2> DEFINE q == [result EXCEPT !.unknown = TRUE]
  <2>1. q = [success |-> result.success, issued |-> result.issued, applied |-> result.applied,
             unknown |-> TRUE]
    BY <1>1, ResultUnknown, Zenon
  <2>2. q \in Results /\ q.unknown /\ q.success = result.success
    BY <1>1, <2>1 DEF Results
  <2>3. result' = [q EXCEPT !.issued = TRUE]
    BY <1>4 DEF CallTimesOut, Answered
  <2> HIDE DEF q
  <2>4. result' = [success |-> q.success, issued |-> TRUE, applied |-> q.applied,
                   unknown |-> q.unknown]
    BY <2>2, <2>3, ResultIssued, Zenon
  <2>5. /\ result' \in Results /\ result'.issued /\ result'.unknown
        /\ result'.success = result.success
    BY <2>2, <2>4 DEF Results
  <2> QED BY <1>1, <1>2, <2>5 DEF HonestInv, Early
<1> QED BY <1>3, <1>4

\* The outcome stays honest whatever steps.
LEMMA HonestNext == HonestInv /\ [MutationNext]_mutationVars => HonestInv'
<1> SUFFICES ASSUME HonestInv, [MutationNext]_mutationVars PROVE HonestInv'
  OBVIOUS
<1> USE DEF appVars
<1>1. CASE UNCHANGED actionVars
  BY <1>1, HonestGoes DEF actionVars, callVars
<1>2. CASE BeginStep
  BY <1>2, HonestGoes DEF BeginStep, BeginAction, Goto, Early
<1>3. CASE DeadlinePasses \/ Aside
  BY <1>3, HonestGoes DEF DeadlinePasses, Aside, callVars
<1>4. CASE Restructure \/ Rename \/ SetMode \/ UserEdits
  BY <1>4, HonestGoes DEF Restructure, Rename, SetMode, UserEdits, Changes
<1>5. CASE Execute
  <2>1. /\ UNCHANGED <<sent, result, pc>> /\ request # NoRequest /\ request' = NoRequest
        /\ executed' = executed + 1 /\ reply' = IF pc = "reply" THEN "applied" ELSE reply
    BY <1>5 DEF Execute
  <2> QED BY <2>1 DEF HonestInv, Early
<1>6. CASE Decline
  <2>1. /\ UNCHANGED <<sent, result, pc, executed>> /\ request # NoRequest /\ request' = NoRequest
        /\ \E r \in {"refused", "error"} : reply' = IF pc = "reply" THEN r ELSE reply
    BY <1>6 DEF Decline
  <2> QED BY <2>1 DEF HonestInv, Early
<1>7. CASE CountKids \/ Visit \/ VisitFails
  BY <1>7, HonestGoes DEF CountKids, Visit, VisitFails
<1>8. CASE Refuse \/ NotIssued
  BY <1>8, HonestGoes DEF Refuse, NotIssued, Finish, Early, TargetPhase
<1>9. CASE BindTarget \/ TargetAgain \/ TargetAtDispatch
  BY <1>9, HonestGoes DEF BindTarget, TargetAgain, TargetAtDispatch, Goto, Early
<1>10. CASE AlreadySatisfied
  BY <1>10, HonestSucceeds DEF AlreadySatisfied, VerifyFound, Finish, Early
<1>11. CASE NotYetSatisfied
  BY <1>11, HonestGoes DEF NotYetSatisfied, VerifyFound, After, Goto, Early
<1>12. CASE Issue
  <2>1. /\ UNCHANGED <<executed, result, reply>> /\ pc = "perform" /\ pc' = "reply"
    BY <1>12 DEF Issue
  <2> QED BY <2>1 DEF HonestInv, Early
<1>13. CASE Receive \/ CallTimesOut
  BY <1>13, HonestAnswered
<1>14. CASE PostVerified
  BY <1>14, HonestSucceeds DEF PostVerified, Finish
<1>15. CASE PostAgain \/ PostGivesUp
  BY <1>15, HonestGoes DEF PostAgain, PostGivesUp, Goto, Finish
<1> QED BY <1>1, <1>2, <1>3, <1>4, <1>5, <1>6, <1>7, <1>8, <1>9, <1>10, <1>11, <1>12, <1>13,
           <1>14, <1>15, StepOfAction DEF ActionNext, ActionStep, Application

\* The outcome reported of a mutation is true, however late the application acts and
\* whatever happens around the call; nothing is executed twice.
THEOREM HonestOutcome == Spec => []OutcomeIsHonest
<1>1. MutationInit => HonestInv
  BY HonestInit
<1>2. HonestInv /\ [MutationNext]_mutationVars => HonestInv'
  BY HonestNext
<1>3. HonestInv => OutcomeIsHonest
  BY DEF HonestInv, OutcomeIsHonest
<1> QED BY <1>1, <1>2, <1>3, PTL DEF Spec

-----------------------------------------------------------------------------
(* The elements. *)

\* What is written into an element is a text.
TextInv == source \in Text /\ (request # NoRequest => request.text \in Text)

\* The next object the toolkit creates.
Fresh == Nodes + 1 + changes

\* Object identities are never used again.
KidsInv ==
  /\ changes \in Nat
  /\ kids \in Seq(Element)
  /\ \A i \in DOMAIN kids : 0 < kids[i].id /\ kids[i].id < Fresh
  /\ \A i, j \in DOMAIN kids : kids[i].id = kids[j].id => i = j

LEMMA SumGrows ==
  ASSUME NEW n \in Nat, NEW a \in Nat, NEW b \in Nat, a <= b
  PROVE  n + 1 + a \in Nat /\ n + 1 + b \in Nat /\ n + 1 + a <= n + 1 + b
OBVIOUS

LEMMA FreshGrows ==
  ASSUME changes \in Nat, changes' \in Nat, changes <= changes'
  PROVE  Fresh \in Nat /\ Fresh' \in Nat /\ Fresh <= Fresh'
<1>1. Fresh = Nodes + 1 + changes /\ Fresh' = Nodes + 1 + changes'
  BY DEF Fresh
<1>2. Nodes \in Nat
  BY NodesAssumption
<1>3. /\ Nodes + 1 + changes \in Nat /\ Nodes + 1 + changes' \in Nat
      /\ Nodes + 1 + changes <= Nodes + 1 + changes'
  BY <1>2, SumGrows
<1> QED BY <1>1, <1>3, Zenon

LEMMA ElementName ==
  ASSUME NEW S, NEW N, NEW T, NEW U,
         NEW r \in [id : S, name : N, mode : T, text : U], NEW x \in N
  PROVE  /\ [r EXCEPT !.name = x] = [id |-> r.id, name |-> x, mode |-> r.mode, text |-> r.text]
         /\ [r EXCEPT !.name = x] \in [id : S, name : N, mode : T, text : U]
<1>1. [r EXCEPT !.name = x] = [id |-> r.id, name |-> x, mode |-> r.mode, text |-> r.text]
  OBVIOUS
<1> QED BY <1>1

LEMMA ElementMode ==
  ASSUME NEW S, NEW N, NEW T, NEW U,
         NEW r \in [id : S, name : N, mode : T, text : U], NEW x \in T
  PROVE  /\ [r EXCEPT !.mode = x] = [id |-> r.id, name |-> r.name, mode |-> x, text |-> r.text]
         /\ [r EXCEPT !.mode = x] \in [id : S, name : N, mode : T, text : U]
<1>1. [r EXCEPT !.mode = x] = [id |-> r.id, name |-> r.name, mode |-> x, text |-> r.text]
  OBVIOUS
<1> QED BY <1>1

LEMMA ElementText ==
  ASSUME NEW S, NEW N, NEW T, NEW U,
         NEW r \in [id : S, name : N, mode : T, text : U], NEW x \in U
  PROVE  /\ [r EXCEPT !.text = x] = [id |-> r.id, name |-> r.name, mode |-> r.mode, text |-> x]
         /\ [r EXCEPT !.text = x] \in [id : S, name : N, mode : T, text : U]
<1>1. [r EXCEPT !.text = x] = [id |-> r.id, name |-> r.name, mode |-> r.mode, text |-> x]
  OBVIOUS
<1> QED BY <1>1

LEMMA SeqParts ==
  ASSUME NEW S, NEW s \in Seq(S)
  PROVE  Len(s) \in Nat /\ DOMAIN s = 1..Len(s) /\ \A i \in DOMAIN s : s[i] \in S
OBVIOUS

LEMMA FunctionSeq ==
  ASSUME NEW S, NEW n \in Nat, NEW s \in [1..n -> S]
  PROVE  s \in Seq(S) /\ Len(s) = n /\ DOMAIN s = 1..n
OBVIOUS

\* The elements one by one.
LEMMA KidsParts ==
  ASSUME KidsInv
  PROVE  /\ Len(kids) \in Nat /\ DOMAIN kids = 1..Len(kids)
         /\ \A i \in DOMAIN kids : kids[i] \in Element /\ kids[i].id \in Nat /\ i \in Nat
         /\ Fresh \in Nat /\ changes \in Nat /\ Nodes \in Nat /\ Locator < Fresh
<1>1. Len(kids) \in Nat /\ DOMAIN kids = 1..Len(kids) /\ \A i \in DOMAIN kids : kids[i] \in Element
  BY SeqParts DEF KidsInv
<1>2. \A i \in DOMAIN kids : kids[i].id \in Nat /\ i \in Nat
  BY <1>1 DEF Element
<1> QED BY <1>1, <1>2, NodesAssumption DEF KidsInv, Fresh, Locator

LEMMA ObOf ==
  ASSUME NEW id, Lives(id)
  PROVE  \E i \in DOMAIN kids : kids[i].id = id /\ Ob(id) = kids[i]
BY DEF Lives, Ob

LEMMA PlainText == /\ \A t \in Texts : Plain(t) \in Text
                   /\ \A x \in Text : Ranged(x) \in Text
BY DEF Plain, Ranged, Text

LEMMA KidsInit == MutationInit => KidsInv
<1> SUFFICES ASSUME MutationInit PROVE KidsInv
  OBVIOUS
<1>1. PICK n \in 1..Nodes, t \in Texts : \E names \in [1..n -> Names] :
        /\ names[1] = "target"
        /\ kids = [i \in 1..n |->
                     [id |-> i, name |-> names[i], mode |-> "ready", text |-> Plain(t)]]
  BY DEF MutationInit, ActionInit
<1>2. PICK names \in [1..n -> Names] :
        kids = [i \in 1..n |->
                  [id |-> i, name |-> names[i], mode |-> "ready", text |-> Plain(t)]]
  BY <1>1
<1>3. n \in Nat /\ n < Nodes + 1 /\ Nodes \in Nat /\ changes = 0
  BY <1>1, NodesAssumption DEF MutationInit, ActionInit
<1>4. ASSUME NEW i \in 1..n PROVE kids[i] \in Element /\ kids[i].id = i
  <2>1. kids[i] = [id |-> i, name |-> names[i], mode |-> "ready", text |-> Plain(t)]
    BY <1>2
  <2>2. Plain(t) \in Text /\ names[i] \in Names /\ i \in Nat
    BY <1>1, <1>2, <1>3, PlainText
  <2> QED BY <2>1, <2>2 DEF Element, Modes
<1>5. kids \in [1..n -> Element]
  BY <1>2, <1>4
<1>6. kids \in Seq(Element) /\ DOMAIN kids = 1..n
  BY <1>3, <1>5, FunctionSeq
<1>7. \A i \in DOMAIN kids : 0 < kids[i].id /\ kids[i].id < Fresh
  BY <1>3, <1>4, <1>6 DEF Fresh
<1>8. \A i, j \in DOMAIN kids : kids[i].id = kids[j].id => i = j
  BY <1>4, <1>6
<1> QED BY <1>3, <1>6, <1>7, <1>8 DEF KidsInv

\* One element changes, and stays the object it is.
OneChanges(i, o) ==
  /\ kids' = [kids EXCEPT ![i] = o] /\ o.id = kids[i].id
  /\ changes' \in {changes, changes + 1}

LEMMA KidsOne ==
  ASSUME KidsInv, NEW i \in DOMAIN kids, NEW o \in Element, OneChanges(i, o)
  PROVE  /\ KidsInv' /\ DOMAIN kids' = DOMAIN kids /\ Len(kids') = Len(kids)
         /\ kids'[i] = o /\ \A j \in DOMAIN kids : j # i => kids'[j] = kids[j]
         /\ \A j \in DOMAIN kids : kids'[j].id = kids[j].id
<1>1. /\ Len(kids) \in Nat /\ DOMAIN kids = 1..Len(kids)
      /\ \A j \in DOMAIN kids : kids[j].id \in Nat
      /\ changes \in Nat /\ Nodes \in Nat
  BY KidsParts
<1>2. kids \in Seq(Element) /\ i \in 1..Len(kids)
  BY <1>1 DEF KidsInv
<1>3. /\ kids' \in Seq(Element) /\ Len(kids') = Len(kids)
      /\ \A j \in 1..Len(kids) : kids'[j] = IF j = i THEN o ELSE kids[j]
  BY <1>2, ExceptSeq DEF OneChanges
<1>4. DOMAIN kids' = DOMAIN kids
  BY <1>1, <1>3, SeqParts
<1>5. kids'[i] = o /\ \A j \in DOMAIN kids : j # i => kids'[j] = kids[j]
  BY <1>1, <1>3
<1>6. \A j \in DOMAIN kids : kids'[j].id = kids[j].id
  BY <1>5 DEF OneChanges
<1>7. changes' \in Nat /\ changes <= changes'
  BY <1>1 DEF OneChanges
<1>8. Fresh \in Nat /\ Fresh' \in Nat /\ Fresh <= Fresh'
  BY <1>1, <1>7, FreshGrows
<1>9. \A j \in DOMAIN kids' : 0 < kids'[j].id /\ kids'[j].id < Fresh'
  BY <1>1, <1>4, <1>6, <1>8 DEF KidsInv
<1>10. \A j, k \in DOMAIN kids' : kids'[j].id = kids'[k].id => j = k
  BY <1>4, <1>6 DEF KidsInv
<1> QED BY <1>3, <1>4, <1>5, <1>6, <1>7, <1>9, <1>10 DEF KidsInv

LEMMA ModeStep ==
  ASSUME KidsInv, SetMode
  PROVE  /\ \E i \in DOMAIN kids : \E o \in Element :
              OneChanges(i, o) /\ o.name = kids[i].name /\ o.text = kids[i].text
         /\ search' = search /\ edited' = edited
<1>1. PICK i \in DOMAIN kids : \E m \in Modes \ {kids[i].mode} :
        Changes([kids EXCEPT ![i].mode = m]) /\ search' = search /\ edited' = edited
  BY DEF SetMode
<1>2. PICK m \in Modes : Changes([kids EXCEPT ![i].mode = m])
  BY <1>1
<1> DEFINE o == [kids[i] EXCEPT !.mode = m]
<1>3. kids[i] \in [id : Nat, name : Names, mode : Modes, text : Text]
  BY KidsParts DEF Element
<1>4. /\ o = [id |-> kids[i].id, name |-> kids[i].name, mode |-> m, text |-> kids[i].text]
      /\ o \in [id : Nat, name : Names, mode : Modes, text : Text]
  BY <1>3, ElementMode
<1>5. kids' = [kids EXCEPT ![i] = o] /\ changes' = changes + 1
  BY <1>2 DEF Changes
<1> HIDE DEF o
<1>6. o \in Element /\ o.id = kids[i].id /\ o.name = kids[i].name /\ o.text = kids[i].text
  BY <1>4 DEF Element
<1> QED BY <1>1, <1>5, <1>6 DEF OneChanges

LEMMA RenameStep ==
  ASSUME KidsInv, Rename
  PROVE  /\ \E i \in DOMAIN kids : \E o \in Element :
              /\ OneChanges(i, o) /\ o.text = kids[i].text
              /\ kids[i].id = Locator => Disturbs
              /\ kids[i].id # Locator => search' = search
         /\ edited' = edited
<1>1. PICK i \in DOMAIN kids : \E n \in Names \ {kids[i].name} :
        /\ Changes([kids EXCEPT ![i].name = n])
        /\ IF kids[i].id = Locator THEN Disturbs ELSE search' = search
        /\ edited' = edited
  BY DEF Rename
<1>2. PICK n \in Names : Changes([kids EXCEPT ![i].name = n])
  BY <1>1
<1> DEFINE o == [kids[i] EXCEPT !.name = n]
<1>3. kids[i] \in [id : Nat, name : Names, mode : Modes, text : Text]
  BY KidsParts DEF Element
<1>4. /\ o = [id |-> kids[i].id, name |-> n, mode |-> kids[i].mode, text |-> kids[i].text]
      /\ o \in [id : Nat, name : Names, mode : Modes, text : Text]
  BY <1>3, ElementName
<1>5. kids' = [kids EXCEPT ![i] = o] /\ changes' = changes + 1
  BY <1>2 DEF Changes
<1> HIDE DEF o
<1>6. o \in Element /\ o.id = kids[i].id /\ o.text = kids[i].text
  BY <1>4 DEF Element
<1>7. /\ kids[i].id = Locator => Disturbs
      /\ kids[i].id # Locator => search' = search
  BY <1>1
<1> QED BY <1>1, <1>5, <1>6, <1>7 DEF OneChanges

\* A text is written into an element.
LEMMA TextStep ==
  ASSUME KidsInv, NEW i \in DOMAIN kids, NEW t \in Text, kids' = [kids EXCEPT ![i].text = t],
         changes' \in {changes, changes + 1}
  PROVE  \E o \in Element : OneChanges(i, o) /\ o.name = kids[i].name /\ o.text = t
<1> DEFINE o == [kids[i] EXCEPT !.text = t]
<1>1. kids[i] \in [id : Nat, name : Names, mode : Modes, text : Text]
  BY KidsParts DEF Element
<1>2. /\ o = [id |-> kids[i].id, name |-> kids[i].name, mode |-> kids[i].mode, text |-> t]
      /\ o \in [id : Nat, name : Names, mode : Modes, text : Text]
  BY <1>1, ElementText
<1>3. kids' = [kids EXCEPT ![i] = o]
  OBVIOUS
<1> HIDE DEF o
<1>4. o \in Element /\ o.id = kids[i].id /\ o.name = kids[i].name /\ o.text = t
  BY <1>2 DEF Element
<1> QED BY <1>3, <1>4 DEF OneChanges

LEMMA UserStep ==
  ASSUME KidsInv, UserEdits
  PROVE  /\ \E i \in DOMAIN kids : \E o \in Element :
              /\ OneChanges(i, o) /\ o.name = kids[i].name
              /\ edited' = IF kids[i].id # target.match THEN edited
                           ELSE IF pc \in {"verify", "target2", "verify2", "target3"} THEN "early"
                           ELSE "late"
         /\ search' = search /\ changes' = changes + 1
<1>1. PICK i \in DOMAIN kids : \E t \in Text \ {kids[i].text} :
        /\ Changes([kids EXCEPT ![i].text = t])
        /\ search' = search
        /\ edited' = IF kids[i].id # target.match THEN edited
                     ELSE IF pc \in {"verify", "target2", "verify2", "target3"} THEN "early"
                     ELSE "late"
  BY DEF UserEdits
<1>2. PICK t \in Text : Changes([kids EXCEPT ![i].text = t])
  BY <1>1
<1>3. kids' = [kids EXCEPT ![i].text = t] /\ changes' = changes + 1
  BY <1>2 DEF Changes
<1>4. PICK o \in Element : OneChanges(i, o) /\ o.name = kids[i].name
  BY <1>3, TextStep
<1> QED BY <1>1, <1>3, <1>4

\* The application writes into one element, or into none.
LEMMA ExecuteStep ==
  ASSUME KidsInv, TextInv, Execute
  PROVE  /\ \/ kids' = kids
            \/ \E i \in DOMAIN kids : \E o \in Element : OneChanges(i, o) /\ o.name = kids[i].name
         /\ search' = search /\ changes' = changes /\ edited' = edited
<1>1. /\ search' = search /\ changes' = changes /\ edited' = edited
      /\ request # NoRequest
  BY DEF Execute
<1>2. request.text \in Text /\ Plain(Goal) \in Text
  BY <1>1, PlainText, TextsAssumption DEF TextInv
<1>3. kids' = kids \/ \E i \in DOMAIN kids : \E t \in Text : kids' = [kids EXCEPT ![i].text = t]
  BY <1>2 DEF Execute
<1>4. ASSUME NEW i \in DOMAIN kids, NEW t \in Text, kids' = [kids EXCEPT ![i].text = t]
      PROVE  \E o \in Element : OneChanges(i, o) /\ o.name = kids[i].name
  BY <1>1, <1>4, TextStep
<1> QED BY <1>1, <1>3, <1>4

\* Whatever is in the window afterwards was there before, or is new.
LEMMA RestructureStep ==
  ASSUME KidsInv, Restructure
  PROVE  /\ KidsInv' /\ Disturbs /\ edited' = edited /\ changes' = changes + 1
         /\ \A j \in DOMAIN kids' :
              (\E i \in DOMAIN kids : kids'[j] = kids[i]) \/ kids'[j].id = Fresh
<1> DEFINE Old == {kids[i] : i \in DOMAIN kids}
<1>1. PICK n \in 0..Nodes : \E new \in [1..n -> Old \cup Newcomers] :
        /\ \A i, j \in 1..n : new[i].id = new[j].id => i = j
        /\ Changes(new) /\ Disturbs
        /\ edited' = edited
  BY DEF Restructure
<1>2. PICK new \in [1..n -> Old \cup Newcomers] :
        /\ \A i, j \in 1..n : new[i].id = new[j].id => i = j
        /\ Changes(new) /\ Disturbs
        /\ edited' = edited
  BY <1>1
<1>3. kids' = new /\ changes' = changes + 1
  BY <1>2 DEF Changes
<1>4. /\ Fresh \in Nat /\ changes \in Nat /\ Nodes \in Nat /\ n \in Nat
      /\ \A i \in DOMAIN kids : kids[i] \in Element /\ kids[i].id \in Nat
  BY <1>1, KidsParts
<1>5. Fresh' = Fresh + 1 /\ 0 < Fresh
  BY <1>3, <1>4 DEF Fresh
<1>6. ASSUME NEW o \in Newcomers PROVE o \in Element /\ o.id = Fresh
  <2>1. PICK m \in Names, t \in Texts :
          o = [id |-> Nodes + 1 + changes, name |-> m, mode |-> "ready", text |-> Plain(t)]
    BY DEF Newcomers
  <2>2. Plain(t) \in Text /\ Nodes + 1 + changes \in Nat
    BY <1>4, PlainText
  <2> QED BY <2>1, <2>2 DEF Element, Modes, Fresh
<1>7. ASSUME NEW o \in Old PROVE o \in Element /\ 0 < o.id /\ o.id < Fresh /\ o.id \in Nat
  BY <1>4 DEF KidsInv
<1>8. ASSUME NEW j \in 1..n
      PROVE  /\ kids'[j] \in Element /\ 0 < kids'[j].id /\ kids'[j].id < Fresh'
             /\ (\E i \in DOMAIN kids : kids'[j] = kids[i]) \/ kids'[j].id = Fresh
  <2>1. kids'[j] \in Old \cup Newcomers
    BY <1>3
  <2>2. CASE kids'[j] \in Newcomers
    BY <1>4, <1>5, <1>6, <2>2
  <2>3. CASE kids'[j] \in Old
    <3>1. \E i \in DOMAIN kids : kids'[j] = kids[i]
      BY <2>3
    <3>2. /\ kids'[j] \in Element /\ 0 < kids'[j].id /\ kids'[j].id < Fresh
          /\ kids'[j].id \in Nat
      BY <1>7, <2>3
    <3> QED BY <1>4, <1>5, <3>1, <3>2
  <2> QED BY <2>1, <2>2, <2>3
<1>9. kids' \in [1..n -> Element]
  BY <1>3, <1>8
<1>10. kids' \in Seq(Element) /\ DOMAIN kids' = 1..n
  BY <1>4, <1>9, FunctionSeq
<1>11. \A i, j \in DOMAIN kids' : kids'[i].id = kids'[j].id => i = j
  BY <1>2, <1>3, <1>10
<1>12. KidsInv'
  BY <1>3, <1>4, <1>8, <1>10, <1>11 DEF KidsInv
<1> QED BY <1>2, <1>3, <1>8, <1>10, <1>12

\* Everything but the application leaves the elements alone.
KidsKept == kids' = kids /\ changes' \in {changes, changes + 1}

LEMMA KidsSame == ASSUME KidsInv, KidsKept PROVE KidsInv'
<1>1. /\ changes \in Nat /\ changes' \in Nat /\ Nodes \in Nat /\ changes <= changes'
      /\ \A i \in DOMAIN kids : kids[i].id \in Nat
  BY KidsParts DEF KidsKept
<1>2. Fresh \in Nat /\ Fresh' \in Nat /\ Fresh <= Fresh'
  BY <1>1, FreshGrows
<1>3. \A i \in DOMAIN kids : 0 < kids[i].id /\ kids[i].id < Fresh'
  BY <1>1, <1>2 DEF KidsInv
<1> QED BY <1>1, <1>3 DEF KidsInv, KidsKept

LEMMA ServerKeepsKids ==
  ASSUME KidsInv,
         UNCHANGED actionVars \/ BeginStep \/ DeadlinePasses \/ Decline \/ Aside \/ ActionStep
  PROVE  KidsKept
<1>1. CASE UNCHANGED actionVars \/ BeginStep \/ DeadlinePasses \/ Decline \/ Aside
  BY <1>1 DEF actionVars, appVars, BeginStep, BeginAction, DeadlinePasses, Decline, Aside, KidsKept
<1>2. CASE ActionStep
  BY <1>2 DEF ActionStep, CountKids, Visit, VisitFails, Refuse, BindTarget, TargetAgain,
     TargetAtDispatch, AlreadySatisfied, NotYetSatisfied, NotIssued, Issue, Receive,
     CallTimesOut, PostVerified, PostAgain, PostGivesUp, Finish, Answered, appVars, KidsKept
<1> QED BY <1>1, <1>2

LEMMA KidsNext == ASSUME KidsInv, TextInv, [MutationNext]_mutationVars PROVE KidsInv'
<1>1. CASE Restructure
  BY <1>1, RestructureStep
<1>2. CASE Rename
  BY <1>2, RenameStep, KidsOne
<1>3. CASE SetMode
  BY <1>3, ModeStep, KidsOne
<1>4. CASE UserEdits
  BY <1>4, UserStep, KidsOne
<1>5. CASE Execute
  BY <1>5, ExecuteStep, KidsOne, KidsSame DEF KidsKept
<1>6. CASE UNCHANGED actionVars \/ BeginStep \/ DeadlinePasses \/ Decline \/ Aside \/ ActionStep
  BY <1>6, ServerKeepsKids, KidsSame
<1> QED BY <1>1, <1>2, <1>3, <1>4, <1>5, <1>6, StepOfAction DEF ActionNext, Application

\* What is written comes from an element or from the caller, hence is a text.
LEMMA TextNext == ASSUME KidsInv, TextInv, HonestInv, [MutationNext]_mutationVars PROVE TextInv'
<1> USE DEF appVars, callVars
<1>1. CASE BindTarget
  <2>1. UNCHANGED request /\ Lives(Found) /\ source' = Ob(Found).text
    BY <1>1 DEF BindTarget, Fit
  <2>2. PICK i \in DOMAIN kids : Ob(Found) = kids[i]
    BY <2>1, ObOf
  <2>3. kids[i] \in Element
    BY KidsParts
  <2>4. source' \in Text
    BY <2>1, <2>2, <2>3 DEF Element
  <2> QED BY <2>1, <2>4 DEF TextInv
<1>2. CASE Issue
  <2>1. UNCHANGED source /\ request'.text = Expected
    BY <1>2 DEF Issue
  <2>2. Expected \in Text
    BY TextsAssumption, PlainText DEF Expected, TextInv
  <2> QED BY <2>1, <2>2 DEF TextInv
<1>3. ASSUME UNCHANGED source, request' = request \/ request' = NoRequest PROVE TextInv'
  BY <1>3 DEF TextInv
<1>4. CASE UNCHANGED actionVars \/ BeginStep \/ DeadlinePasses \/ Application \/ Aside
  BY <1>3, <1>4 DEF actionVars, BeginStep, BeginAction, DeadlinePasses, Aside, Application,
     Restructure, Rename, SetMode, UserEdits, Changes, Execute, Decline
<1>5. CASE ActionStep /\ ~BindTarget /\ ~Issue
  BY <1>3, <1>5 DEF ActionStep, CountKids, Visit, VisitFails, Refuse, TargetAgain,
     TargetAtDispatch, AlreadySatisfied, NotYetSatisfied, NotIssued, Receive,
     CallTimesOut, PostVerified, PostAgain, PostGivesUp, Finish, Answered
<1> QED BY <1>1, <1>2, <1>4, <1>5, StepOfAction DEF ActionNext

-----------------------------------------------------------------------------
(* The walk. *)

Flags == BOOLEAN
Failures == {"no", "error", "cut"}
Walks == [next : Nat, count : Nat, match : Nat, hits : Nat, failed : Failures, steady : Flags]

\* An update of some fields leaves the others.
LEMMA Walk_next ==
  ASSUME NEW r \in Walks, NEW x
  PROVE  [r EXCEPT !.next = x]
         = [next |-> x, count |-> r.count, match |-> r.match, hits |-> r.hits,
            failed |-> r.failed, steady |-> r.steady]
BY DEF Walks

LEMMA Walk_count ==
  ASSUME NEW r \in Walks, NEW x
  PROVE  [r EXCEPT !.count = x]
         = [next |-> r.next, count |-> x, match |-> r.match, hits |-> r.hits,
            failed |-> r.failed, steady |-> r.steady]
BY DEF Walks

LEMMA Walk_match ==
  ASSUME NEW r \in Walks, NEW x
  PROVE  [r EXCEPT !.match = x]
         = [next |-> r.next, count |-> r.count, match |-> x, hits |-> r.hits,
            failed |-> r.failed, steady |-> r.steady]
BY DEF Walks

LEMMA Walk_hits ==
  ASSUME NEW r \in Walks, NEW x
  PROVE  [r EXCEPT !.hits = x]
         = [next |-> r.next, count |-> r.count, match |-> r.match, hits |-> x,
            failed |-> r.failed, steady |-> r.steady]
BY DEF Walks

LEMMA Walk_failed ==
  ASSUME NEW r \in Walks, NEW x
  PROVE  [r EXCEPT !.failed = x]
         = [next |-> r.next, count |-> r.count, match |-> r.match, hits |-> r.hits,
            failed |-> x, steady |-> r.steady]
BY DEF Walks

LEMMA Walk_steady ==
  ASSUME NEW r \in Walks, NEW x
  PROVE  [r EXCEPT !.steady = x]
         = [next |-> r.next, count |-> r.count, match |-> r.match, hits |-> r.hits,
            failed |-> r.failed, steady |-> x]
BY DEF Walks

LEMMA Walk_counted ==
  ASSUME NEW x \in Nat, NEW y \in Flags
  PROVE  [NoSearch EXCEPT !.next = 1, !.count = x, !.steady = y]
         = [next |-> 1, count |-> x, match |-> 0, hits |-> 0, failed |-> "no", steady |-> y]
<1> DEFINE r == NoSearch
           t == [r EXCEPT !.next = 1]
           u == [t EXCEPT !.count = x]
<1>1. [r EXCEPT !.next = 1, !.count = x, !.steady = y] = [u EXCEPT !.steady = y]
  OBVIOUS
<1>2. r = [next |-> 0, count |-> 0, match |-> 0, hits |-> 0, failed |-> "no", steady |-> FALSE]
  BY DEF NoSearch
<1> HIDE DEF r
<1>3. r \in Walks
  BY <1>2 DEF Walks, Failures, Flags
<1>4. t = [next |-> 1, count |-> r.count, match |-> r.match, hits |-> r.hits,
           failed |-> r.failed, steady |-> r.steady]
  BY <1>3, Walk_next, Zenon
<1> HIDE DEF t
<1>5. t \in Walks
  BY <1>3, <1>4 DEF Walks
<1>6. u = [next |-> t.next, count |-> x, match |-> t.match, hits |-> t.hits,
           failed |-> t.failed, steady |-> t.steady]
  BY <1>5, Walk_count, Zenon
<1> HIDE DEF u
<1>7. u \in Walks
  BY <1>5, <1>6 DEF Walks
<1>8. [u EXCEPT !.steady = y]
      = [next |-> u.next, count |-> u.count, match |-> u.match, hits |-> u.hits,
         failed |-> u.failed, steady |-> y]
  BY <1>7, Walk_steady, Zenon
<1>9. [u EXCEPT !.steady = y]
      = [next |-> 1, count |-> x, match |-> 0, hits |-> 0, failed |-> "no", steady |-> y]
  BY <1>2, <1>4, <1>6, <1>8
<1> QED BY <1>1, <1>9, Zenon DEF r

LEMMA NoSearchWalks ==
  /\ NoSearch \in Walks /\ NoSearch.hits = 0 /\ NoSearch.failed = "no" /\ ~NoSearch.steady
  /\ NoSearch.next = 0 /\ NoSearch.count = 0
BY DEF NoSearch, Walks, Failures, Flags

\* The located element is at index i, and was found if the walk is past it.
LocatedAt(i) ==
  /\ kids[i].id = Locator /\ kids[i].name = "target"
  /\ search.count = Len(kids)
  /\ i < search.next => search.hits = 1 /\ search.match = Locator

\* A walk that nothing disturbed finds the located element, or it and another.
Steady ==
  IF Ended THEN search.hits = 1 => search.match = Locator
  ELSE \E i \in DOMAIN kids : LocatedAt(i)

\* By a locator nothing else is found, by name nothing else if nothing disturbs the walk.
SearchInv ==
  /\ search \in Walks
  /\ search.hits > 0 => search.match # 0
  /\ pc \in TargetPhase =>
       /\ selector = "locator" /\ search.hits > 0 => search.match = Locator
       /\ selector # "locator" /\ search.steady /\ search.failed = "no" => Steady

LEMMA SearchInit == MutationInit => SearchInv
BY NoSearchWalks DEF MutationInit, ActionInit, SearchInv, TargetPhase

\* No walk is under way.
LEMMA SearchNone == ASSUME search' = NoSearch PROVE SearchInv'
BY NoSearchWalks DEF SearchInv

\* The walk goes on among the same objects, and object 1 keeps its name.
SameObjects ==
  /\ DOMAIN kids' = DOMAIN kids /\ Len(kids') = Len(kids)
  /\ \A i \in DOMAIN kids : kids'[i].id = kids[i].id
  /\ \A i \in DOMAIN kids : kids[i].id = Locator => kids'[i].name = kids[i].name

LEMMA SearchSame ==
  ASSUME SearchInv, SameObjects, UNCHANGED <<search, selector>>,
         pc' \in TargetPhase => pc' = pc
  PROVE  SearchInv'
<1>1. Ended' = Ended
  BY DEF Ended
<1>2. ASSUME NEW i \in DOMAIN kids, LocatedAt(i) PROVE i \in DOMAIN kids' /\ LocatedAt(i)'
  BY <1>2 DEF LocatedAt, SameObjects
<1>3. Steady => Steady'
  BY <1>1, <1>2 DEF Steady
<1> QED BY <1>3 DEF SearchInv

\* A walk that was over stays as it ended; another is no longer steady.
LEMMA SearchDisturbed ==
  ASSUME SearchInv, Disturbs, UNCHANGED <<selector, pc>>
  PROVE  SearchInv'
<1>1. PICK x \in BOOLEAN : x = (search.steady /\ Ended)
  OBVIOUS
<1>2. search \in Walks
  BY DEF SearchInv
<1>3. search' = [search EXCEPT !.steady = x]
  BY <1>1 DEF Disturbs
<1>4. search' = [next |-> search.next, count |-> search.count, match |-> search.match,
                 hits |-> search.hits, failed |-> search.failed, steady |-> x]
  BY <1>2, <1>3, Walk_steady, Zenon
<1>5. /\ search'.next = search.next /\ search'.count = search.count
      /\ search'.match = search.match /\ search'.hits = search.hits
      /\ search'.failed = search.failed /\ search'.steady = x
  BY <1>4
<1>6. search' \in Walks
  BY <1>2, <1>4 DEF Walks, Flags
<1>7. Ended' = Ended
  BY <1>5 DEF Ended
<1>8. x => search.steady /\ Ended
  BY <1>1
<1>9. ASSUME pc \in TargetPhase, selector # "locator", search'.steady, search'.failed = "no"
      PROVE  Steady'
  <2>1. x /\ search.failed = "no"
    BY <1>5, <1>9
  <2>2. Steady /\ Ended
    BY <1>8, <1>9, <2>1 DEF SearchInv
  <2> QED BY <1>5, <1>7, <2>2 DEF Steady
<1> QED BY <1>5, <1>6, <1>9 DEF SearchInv

\* When the count is read, no child was.
LEMMA SearchCounts == ASSUME KidsInv, CountKids PROVE SearchInv'
<1>1. PICK x \in BOOLEAN :
        x = (\E i \in DOMAIN kids : kids[i].id = Locator /\ kids[i].name = "target")
  OBVIOUS
<1>0. Len(kids) \in Nat /\ x \in Flags
  BY KidsParts DEF Flags
<1>2. search' = [NoSearch EXCEPT !.next = 1, !.count = Len(kids), !.steady = x]
  BY <1>1 DEF CountKids
<1>3. search' = [next |-> 1, count |-> Len(kids), match |-> 0, hits |-> 0, failed |-> "no",
                 steady |-> x]
  BY <1>0, <1>2, Walk_counted, Zenon
<1>4. UNCHANGED <<kids, pc, selector>>
  BY DEF CountKids, appVars
<1>5. Len(kids) \in Nat /\ DOMAIN kids = 1..Len(kids)
  BY KidsParts
<1>6. search' \in Walks /\ search'.hits = 0 /\ search'.next = 1 /\ search'.count = Len(kids)
  BY <1>3, <1>5 DEF Walks, Failures, Flags
<1>7. search'.steady = x
  BY <1>3
<1>8. ASSUME search'.steady PROVE Steady'
  <2>1. PICK i \in DOMAIN kids : kids[i].id = Locator /\ kids[i].name = "target"
    BY <1>1, <1>7, <1>8
  <2>2. ~(i < search'.next)
    BY <1>5, <1>6
  <2>3. i \in DOMAIN kids' /\ LocatedAt(i)'
    BY <1>4, <1>6, <2>1, <2>2 DEF LocatedAt
  <2> QED BY <1>6, <2>3 DEF Steady
<1> QED BY <1>6, <1>8 DEF SearchInv

\* The search does not pass object 1 by.
LEMMA SearchVisits == ASSUME KidsInv, SearchInv, Visit PROVE SearchInv'
<1> DEFINE n == search.next
           h == search.hits + 1
           m == IF search.hits = 0 THEN kids[n].id ELSE search.match
<1>1. /\ UNCHANGED <<kids, pc, selector>> /\ n \in DOMAIN kids /\ ~Ended
      /\ search' = IF Matches(n) THEN [search EXCEPT !.next = n + 1, !.hits = h, !.match = m]
                   ELSE [search EXCEPT !.next = n + 1]
  BY DEF Visit, appVars
<1>2. /\ search \in Walks /\ kids[n].id \in Nat /\ kids[n].id # 0
      /\ Len(kids) \in Nat /\ DOMAIN kids = 1..Len(kids)
  BY <1>1, KidsParts DEF SearchInv, KidsInv
<1>3. /\ search.next \in Nat /\ search.count \in Nat /\ search.match \in Nat
      /\ search.hits \in Nat /\ search.failed = "no"
      /\ search.next <= search.count /\ search.hits <= 1
  BY <1>1, <1>2 DEF Walks, Ended
<1>4. CASE Matches(n)
  <2>0. n + 1 \in Nat /\ m \in Nat /\ h \in Nat /\ h > 0 /\ m # 0
    <3>1. n + 1 \in Nat /\ h \in Nat /\ h > 0
      BY <1>3
    <3>2. m \in Nat /\ m # 0
      BY <1>2, <1>3 DEF SearchInv
    <3> QED BY <3>1, <3>2
  <2>1. search' = [next |-> n + 1, count |-> search.count, match |-> m, hits |-> h,
                   failed |-> search.failed, steady |-> search.steady]
    <3> DEFINE k == n + 1
    <3>1. search' = [search EXCEPT !.next = k, !.hits = h, !.match = m]
      BY <1>1, <1>4
    <3>2. k \in Nat /\ h \in Nat /\ m \in Nat /\ search \in Walks
      BY <1>2, <2>0
    <3> HIDE DEF k, h, m, n
    <3> DEFINE t == [search EXCEPT !.next = k]
               u == [t EXCEPT !.hits = h]
    <3>3. search' = [u EXCEPT !.match = m]
      BY <3>1
    <3>4. t = [next |-> k, count |-> search.count, match |-> search.match, hits |-> search.hits,
               failed |-> search.failed, steady |-> search.steady]
      BY <3>2, Walk_next, Zenon
    <3> HIDE DEF t
    <3>5. t \in Walks
      BY <3>2, <3>4 DEF Walks
    <3>6. u = [next |-> t.next, count |-> t.count, match |-> t.match, hits |-> h,
               failed |-> t.failed, steady |-> t.steady]
      BY <3>5, Walk_hits, Zenon
    <3> HIDE DEF u
    <3>7. u \in Walks
      BY <3>2, <3>5, <3>6 DEF Walks
    <3>8. search' = [next |-> u.next, count |-> u.count, match |-> m, hits |-> u.hits,
                     failed |-> u.failed, steady |-> u.steady]
      BY <3>3, <3>7, Walk_match, Zenon
    <3> QED BY <3>4, <3>6, <3>8 DEF k
  <2>2. /\ search'.next = n + 1 /\ search'.count = search.count /\ search'.match = m
        /\ search'.hits = h /\ search'.failed = "no" /\ search'.steady = search.steady
    BY <1>3, <2>1
  <2>4. search' \in Walks
    BY <1>2, <2>1, <2>0 DEF Walks
  <2>5. ASSUME pc \in TargetPhase, selector = "locator" PROVE m = Locator
    <3>1. kids[n].id = Locator
      BY <1>4, <2>5 DEF Matches, Wanted, TargetPhase, VerifyPhase
    <3> QED BY <1>3, <2>5, <3>1 DEF SearchInv
  <2>6. ASSUME pc \in TargetPhase, selector # "locator", search.steady PROVE Steady'
    <3>1. PICK i \in DOMAIN kids : LocatedAt(i)
      BY <1>1, <1>3, <2>6 DEF SearchInv, Steady
    <3>2. i \in Nat /\ i <= Len(kids) /\ search.count = Len(kids)
      BY <1>2, <3>1 DEF LocatedAt
    <3>3. ASSUME h = 1, i < n + 1 PROVE m = Locator
      <4>1. ~(i < search.next) /\ search.hits = 0
        BY <1>3, <3>1, <3>3 DEF LocatedAt
      <4>2. i = n
        BY <1>3, <3>2, <3>3, <4>1
      <4> QED BY <3>1, <4>1, <4>2 DEF LocatedAt
    <3>4. Ended' => n + 1 > search.count \/ h > 1
      BY <2>2 DEF Ended
    <3>5. CASE Ended'
      <4>1. h = 1 => i < n + 1
        BY <1>3, <3>2, <3>4, <3>5
      <4>2. search'.hits = 1 => search'.match = Locator
        BY <2>2, <3>3, <4>1
      <4> QED BY <3>5, <4>2 DEF Steady
    <3>6. CASE ~Ended'
      <4>1. h = 1
        BY <1>3, <2>2, <2>0, <3>6 DEF Ended
      <4>2. i < search'.next => search'.hits = 1 /\ search'.match = Locator
        BY <2>2, <3>3, <4>1
      <4>3. i \in DOMAIN kids' /\ LocatedAt(i)'
        BY <1>1, <2>2, <3>1, <4>2 DEF LocatedAt
      <4> QED BY <3>6, <4>3 DEF Steady
    <3> QED BY <3>5, <3>6
  <2>7. selector' = selector /\ pc' = pc
    BY <1>1
  <2> HIDE DEF h, m, n
  <2> QED BY <2>2, <2>0, <2>4, <2>5, <2>6, <2>7 DEF SearchInv
<1>5. CASE ~Matches(n)
  <2>1. search' = [next |-> n + 1, count |-> search.count, match |-> search.match,
                   hits |-> search.hits, failed |-> search.failed, steady |-> search.steady]
    BY <1>1, <1>2, <1>5, Walk_next, Zenon
  <2>2. /\ search'.next = n + 1 /\ search'.count = search.count
        /\ search'.match = search.match
        /\ search'.hits = search.hits /\ search'.failed = "no"
        /\ search'.steady = search.steady
    BY <1>3, <2>1
  <2>3. n + 1 \in Nat
    BY <1>3
  <2>4. search' \in Walks
    BY <1>2, <2>1, <2>3 DEF Walks
  <2>5. ASSUME pc \in TargetPhase, selector # "locator", search.steady PROVE Steady'
    <3>1. PICK i \in DOMAIN kids : LocatedAt(i)
      BY <1>1, <1>3, <2>5 DEF SearchInv, Steady
    <3>2. i \in Nat /\ i <= Len(kids) /\ search.count = Len(kids)
      BY <1>2, <3>1 DEF LocatedAt
    <3>3. i # n
      <4>1. kids[i].name = Wanted
        BY <2>5, <3>1 DEF LocatedAt, Wanted, TargetPhase, VerifyPhase
      <4> QED BY <1>5, <2>5, <4>1 DEF Matches
    <3>4. i < n + 1 => i < search.next
      BY <1>3, <3>2, <3>3
    <3>5. i < n + 1 => search.hits = 1 /\ search.match = Locator
      BY <3>1, <3>4 DEF LocatedAt
    <3>6. CASE Ended'
      <4>1. i < n + 1
        BY <1>3, <2>2, <3>2, <3>6 DEF Ended
      <4> QED BY <2>2, <3>5, <3>6, <4>1 DEF Steady
    <3>7. CASE ~Ended'
      <4>1. i < search'.next => search'.hits = 1 /\ search'.match = Locator
        BY <2>2, <3>5
      <4>2. i \in DOMAIN kids' /\ LocatedAt(i)'
        BY <1>1, <2>2, <3>1, <4>1 DEF LocatedAt
      <4> QED BY <3>7, <4>2 DEF Steady
    <3> QED BY <3>6, <3>7
  <2>6. selector' = selector /\ pc' = pc
    BY <1>1
  <2> HIDE DEF n
  <2> QED BY <2>2, <2>4, <2>5, <2>6 DEF SearchInv
<1> QED BY <1>4, <1>5

LEMMA SearchFails == ASSUME SearchInv, VisitFails PROVE SearchInv'
<1>1. PICK why \in {"error", "cut"} :
        search' = [NoSearch EXCEPT !.failed = why, !.hits = search.hits, !.match = search.match]
  BY DEF VisitFails
<1>3. UNCHANGED <<pc, selector>> /\ search \in Walks
  BY DEF VisitFails, SearchInv
<1>4. search.match \in Nat /\ search.hits \in Nat /\ why \in Failures
  BY <1>1, <1>3 DEF Walks, Failures
<1>2. search' = [next |-> 0, count |-> 0, match |-> search.match, hits |-> search.hits,
                 failed |-> why, steady |-> FALSE]
  <2> DEFINE r == NoSearch
             t == [r EXCEPT !.failed = why]
             u == [t EXCEPT !.hits = search.hits]
  <2>1. search' = [u EXCEPT !.match = search.match]
    BY <1>1
  <2>2. r = [next |-> 0, count |-> 0, match |-> 0, hits |-> 0, failed |-> "no", steady |-> FALSE]
    BY DEF NoSearch
  <2>3. r \in Walks
    BY NoSearchWalks
  <2> HIDE DEF r
  <2>4. t = [next |-> r.next, count |-> r.count, match |-> r.match, hits |-> r.hits,
             failed |-> why, steady |-> r.steady]
    BY <2>3, Walk_failed, Zenon
  <2> HIDE DEF t
  <2>5. t \in Walks
    BY <1>4, <2>3, <2>4 DEF Walks
  <2>6. u = [next |-> t.next, count |-> t.count, match |-> t.match, hits |-> search.hits,
             failed |-> t.failed, steady |-> t.steady]
    BY <2>5, Walk_hits, Zenon
  <2> HIDE DEF u
  <2>7. u \in Walks
    BY <1>4, <2>5, <2>6 DEF Walks
  <2>8. search' = [next |-> u.next, count |-> u.count, match |-> search.match, hits |-> u.hits,
                   failed |-> u.failed, steady |-> u.steady]
    BY <2>1, <2>7, Walk_match, Zenon
  <2> QED BY <2>2, <2>4, <2>6, <2>8
<1>5. search' \in Walks
  BY <1>2, <1>4 DEF Walks, Flags
<1>6. search'.failed # "no" /\ search'.hits = search.hits /\ search'.match = search.match
  BY <1>1, <1>2
<1> QED BY <1>3, <1>5, <1>6 DEF SearchInv

LEMMA SearchNext ==
  ASSUME KidsInv, TextInv, SearchInv, [MutationNext]_mutationVars PROVE SearchInv'
<1> USE DEF appVars, callVars
<1>1. CASE UNCHANGED actionVars \/ DeadlinePasses \/ Decline \/ Aside
  <2>1. UNCHANGED <<kids, search, selector, pc>>
    BY <1>1 DEF actionVars, DeadlinePasses, Decline, Aside
  <2> QED BY <2>1, SearchSame DEF SameObjects
<1>2. CASE Restructure
  <2>1. Disturbs /\ UNCHANGED <<selector, pc>>
    BY <1>2, RestructureStep DEF Restructure, Changes
  <2> QED BY <2>1, SearchDisturbed
<1>3. CASE Rename
  <2>1. UNCHANGED <<selector, pc>>
    BY <1>3 DEF Rename, Changes
  <2>2. PICK i \in DOMAIN kids : \E o \in Element :
          /\ OneChanges(i, o)
          /\ kids[i].id = Locator => Disturbs
          /\ kids[i].id # Locator => search' = search
    BY <1>3, RenameStep
  <2>3. CASE kids[i].id = Locator
    BY <2>1, <2>2, <2>3, SearchDisturbed
  <2>4. CASE kids[i].id # Locator
    <3>1. PICK o \in Element : OneChanges(i, o)
      BY <2>2
    <3>2. SameObjects
      BY <2>4, <3>1, KidsOne DEF SameObjects
    <3> QED BY <2>1, <2>2, <2>4, <3>2, SearchSame
  <2> QED BY <2>3, <2>4
<1>4. CASE SetMode \/ UserEdits
  <2>1. UNCHANGED <<selector, pc>>
    BY <1>4 DEF SetMode, UserEdits, Changes
  <2>2. /\ search' = search
        /\ \E i \in DOMAIN kids : \E o \in Element : OneChanges(i, o) /\ o.name = kids[i].name
    BY <1>4, ModeStep, UserStep
  <2>3. SameObjects
    BY <2>2, KidsOne DEF SameObjects
  <2> QED BY <2>1, <2>2, <2>3, SearchSame
<1>5. CASE Execute
  <2>1. UNCHANGED <<selector, pc>>
    BY <1>5 DEF Execute
  <2>2. /\ search' = search
        /\ \/ kids' = kids
           \/ \E i \in DOMAIN kids : \E o \in Element : OneChanges(i, o) /\ o.name = kids[i].name
    BY <1>5, ExecuteStep
  <2>3. SameObjects
    BY <2>2, KidsOne DEF SameObjects
  <2> QED BY <2>1, <2>2, <2>3, SearchSame
<1>6. CASE CountKids
  BY <1>6, SearchCounts
<1>7. CASE Visit
  BY <1>7, SearchVisits
<1>8. CASE VisitFails
  BY <1>8, SearchFails
<1>9. CASE BeginStep \/ Refuse \/ NotIssued \/ AlreadySatisfied \/ PostVerified \/ PostGivesUp
  BY <1>9, SearchNone DEF BeginStep, BeginAction, Refuse, NotIssued, AlreadySatisfied,
     PostVerified, PostGivesUp, Finish, Goto
<1>10. CASE BindTarget \/ TargetAgain \/ TargetAtDispatch \/ NotYetSatisfied \/ PostAgain
  BY <1>10, SearchNone DEF BindTarget, TargetAgain, TargetAtDispatch, NotYetSatisfied, PostAgain,
     Goto
<1>11. CASE Receive \/ CallTimesOut
  BY <1>11, SearchNone DEF Receive, CallTimesOut, Answered, Goto
<1>12. CASE Issue
  <2>1. UNCHANGED <<kids, search, selector>> /\ pc' = "reply"
    BY <1>12 DEF Issue
  <2> QED BY <2>1, SearchSame DEF SameObjects, TargetPhase
<1> QED BY <1>1, <1>2, <1>3, <1>4, <1>5, <1>6, <1>7, <1>8, <1>9, <1>10, <1>11, <1>12,
           StepOfAction DEF ActionNext, ActionStep, Application

-----------------------------------------------------------------------------
(* The target. *)

Bound == {"verify", "target2", "verify2", "target3", "verify3", "perform"}

Targets == [bound : Nat, match : Nat, sure : Flags]

\* By a locator, or by a walk that nothing disturbed, object 1 was bound; and what the
\* dispatch goes to is what was bound.
BoundInv ==
  /\ target \in Targets
  /\ pc \in Bound => target.bound # 0
  /\ pc \in Bound /\ (selector = "locator" \/ target.sure) => target.bound = Locator
  /\ pc \in {"verify3", "perform"} => target.match = target.bound

TargetInv == BoundInv /\ NothingElseMutated

LEMMA TargetInit == MutationInit => TextInv /\ TargetInv
<1> SUFFICES ASSUME MutationInit PROVE TextInv /\ TargetInv
  OBVIOUS
<1>1. /\ pc = "ready" /\ sent = 0 /\ request = NoRequest /\ source = Plain(Goal)
      /\ target = [bound |-> 0, match |-> 0, sure |-> FALSE]
  BY DEF MutationInit, ActionInit
<1>2. TextInv
  BY <1>1, TextsAssumption, PlainText DEF TextInv
<1>3. target \in Targets
  BY <1>1 DEF Targets, Flags
<1> QED BY <1>1, <1>2, <1>3 DEF TargetInv, BoundInv, Bound, NothingElseMutated

\* The call goes on with what it bound, or ends.
LEMMA TargetGoes ==
  ASSUME TargetInv, UNCHANGED <<target, sent, selector>>,
         pc' = pc \/ (pc' \in Bound => pc \in Bound),
         pc' \in {"verify3", "perform"} => pc \in {"verify3", "perform"}
  PROVE  TargetInv'
BY DEF TargetInv, BoundInv, NothingElseMutated

\* A unique match is an object, and object 1 if the walk could not miss that one.
LEMMA UniqueFinds ==
  ASSUME SearchInv, pc \in TargetPhase, Unique
  PROVE  /\ Found \in Nat /\ Found # 0 /\ search.steady \in Flags
         /\ selector = "locator" \/ search.steady => Found = Locator
<1>1. Ended /\ search.failed = "no" /\ search.hits = 1 /\ search \in Walks
  BY DEF Unique, SearchInv
<1>2. search.match \in Nat /\ search.hits > 0 /\ search.steady \in Flags
  BY <1>1 DEF Walks
<1>3. selector = "locator" => search.match = Locator
  BY <1>2 DEF SearchInv
<1>4. selector # "locator" /\ search.steady => search.match = Locator
  BY <1>1 DEF SearchInv, Steady
<1> QED BY <1>2, <1>3, <1>4 DEF SearchInv, Found

LEMMA TargetBind == ASSUME HonestInv, SearchInv, TargetInv, BindTarget PROVE TargetInv'
<1>1. /\ UNCHANGED <<selector, sent>> /\ pc = "target" /\ pc' = "verify" /\ Unique
      /\ target' = [bound |-> Found, match |-> Found, sure |-> search.steady]
  BY DEF BindTarget, Goto
<1>2. /\ Found \in Nat /\ Found # 0 /\ search.steady \in Flags
      /\ selector = "locator" \/ search.steady => Found = Locator
  BY <1>1, UniqueFinds DEF TargetPhase
<1>3. target' \in Targets /\ target'.bound = Found /\ target'.sure = search.steady
  BY <1>1, <1>2 DEF Targets
<1>4. sent' = 0
  BY <1>1 DEF HonestInv, Early
<1>5. target'.sure => search.steady
  BY <1>3
<1> QED BY <1>1, <1>2, <1>3, <1>4, <1>5 DEF TargetInv, BoundInv, NothingElseMutated

LEMMA Target_match ==
  ASSUME NEW r \in Targets, NEW x
  PROVE  [r EXCEPT !.match = x] = [bound |-> r.bound, match |-> x, sure |-> r.sure]
BY DEF Targets

LEMMA Target_sure ==
  ASSUME NEW r \in Targets, NEW x
  PROVE  [r EXCEPT !.sure = x] = [bound |-> r.bound, match |-> r.match, sure |-> x]
BY DEF Targets

\* A re-resolution goes on with the bound object only.
LEMMA Rebound ==
  ASSUME SearchInv, TargetInv, TargetAgain \/ TargetAtDispatch
  PROVE  /\ target' \in Targets /\ target'.bound = target.bound /\ target'.match = target.bound
         /\ target'.sure => target.sure \/ search.steady
<1>1. /\ Found = target.bound /\ pc \in TargetPhase /\ Unique
      /\ target' = [target EXCEPT !.match = Found, !.sure = target.sure \/ search.steady]
  BY DEF TargetAgain, TargetAtDispatch, TargetPhase
<1>2. Found \in Nat /\ target \in Targets
  BY <1>1, UniqueFinds DEF TargetInv, BoundInv
<1>3. PICK x \in BOOLEAN : x = (target.sure \/ search.steady)
  OBVIOUS
<1> DEFINE t == [target EXCEPT !.match = Found]
<1>4. target' = [t EXCEPT !.sure = x]
  BY <1>1, <1>3
<1>5. t = [bound |-> target.bound, match |-> Found, sure |-> target.sure]
  BY <1>2, Target_match, Zenon
<1> HIDE DEF t
<1>6. t \in Targets
  BY <1>2, <1>5 DEF Targets
<1>7. target' = [bound |-> t.bound, match |-> t.match, sure |-> x]
  BY <1>4, <1>6, Target_sure, Zenon
<1>8. /\ target' \in Targets /\ target'.bound = target.bound /\ target'.match = Found
  BY <1>2, <1>5, <1>6, <1>7 DEF Targets, Flags
<1>9. target'.sure = x
  BY <1>7
<1>10. target'.sure => target.sure \/ search.steady
  BY <1>3, <1>9
<1> QED BY <1>1, <1>8, <1>10

LEMMA TargetRebind ==
  ASSUME HonestInv, SearchInv, TargetInv, TargetAgain \/ TargetAtDispatch PROVE TargetInv'
<1>1. /\ UNCHANGED <<selector, sent>> /\ pc \in Bound /\ pc' \in Bound /\ pc \in TargetPhase
      /\ Found = target.bound /\ Unique /\ pc \in Early
  BY DEF TargetAgain, TargetAtDispatch, Goto, Bound, Early, TargetPhase
<1>2. /\ target' \in Targets /\ target'.bound = target.bound /\ target'.match = target.bound
      /\ target'.sure => target.sure \/ search.steady
  BY Rebound
<1>3. selector = "locator" \/ search.steady => target.bound = Locator
  BY <1>1, UniqueFinds
<1>4. selector' = "locator" \/ target'.sure => target'.bound = Locator
  BY <1>1, <1>2, <1>3 DEF TargetInv, BoundInv
<1>5. sent' = 0 /\ target.bound # 0
  BY <1>1 DEF HonestInv, TargetInv, BoundInv
<1> QED BY <1>1, <1>2, <1>4, <1>5 DEF TargetInv, BoundInv, NothingElseMutated

\* The request goes to what was bound.
LEMMA TargetIssue == ASSUME TargetInv, Issue PROVE TargetInv'
<1>1. /\ UNCHANGED <<selector, target>> /\ pc = "perform" /\ pc' = "reply"
      /\ sent' = target.match
  BY DEF Issue
<1> QED BY <1>1 DEF TargetInv, BoundInv, Bound, NothingElseMutated

LEMMA TargetBegin ==
  ASSUME HonestInv, TargetInv, BeginStep PROVE TargetInv'
<1>1. UNCHANGED <<target, sent>> /\ pc = "ready" /\ pc' = "target"
  BY DEF BeginStep, BeginAction, Goto
<1>2. sent' = 0
  BY <1>1 DEF HonestInv, Early
<1> QED BY <1>1, <1>2 DEF TargetInv, BoundInv, Bound, NothingElseMutated

LEMMA TargetNext ==
  ASSUME HonestInv, SearchInv, TargetInv, [MutationNext]_mutationVars PROVE TargetInv'
<1> USE DEF appVars, callVars
<1>1. CASE UNCHANGED actionVars \/ DeadlinePasses \/ Aside
  BY <1>1, TargetGoes DEF actionVars, DeadlinePasses, Aside
<1>2. CASE BeginStep
  BY <1>2, TargetBegin
<1>3. CASE Restructure \/ Rename \/ SetMode \/ UserEdits
  BY <1>3, TargetGoes DEF Restructure, Rename, SetMode, UserEdits, Changes
<1>4. CASE Execute \/ Decline
  BY <1>4, TargetGoes DEF Execute, Decline
<1>5. CASE CountKids \/ Visit \/ VisitFails
  BY <1>5, TargetGoes DEF CountKids, Visit, VisitFails
<1>6. CASE Refuse \/ NotIssued \/ AlreadySatisfied \/ PostVerified \/ PostGivesUp
  BY <1>6, TargetGoes DEF Refuse, NotIssued, AlreadySatisfied, PostVerified, PostGivesUp,
     Finish, Bound
<1>7. CASE BindTarget
  BY <1>7, TargetBind
<1>8. CASE TargetAgain \/ TargetAtDispatch
  BY <1>8, TargetRebind
<1>9. CASE NotYetSatisfied
  BY <1>9, TargetGoes DEF NotYetSatisfied, VerifyFound, After, Goto, Bound
<1>10. CASE Issue
  BY <1>10, TargetIssue
<1>11. CASE Receive \/ CallTimesOut
  BY <1>11, TargetGoes DEF Receive, CallTimesOut, Answered, Goto, Bound
<1>12. CASE PostAgain
  BY <1>12, TargetGoes DEF PostAgain, Goto, Bound
<1> QED BY <1>1, <1>2, <1>3, <1>4, <1>5, <1>6, <1>7, <1>8, <1>9, <1>10, <1>11, <1>12,
           StepOfAction DEF ActionNext, ActionStep, Application

\* However the application rearranges and renames its elements, what is mutated is what was
\* bound first; and that is the located element by a locator always, by role and name if in one
\* of the three walks no index moved and the located element kept its name.
THEOREM TargetIsLocated == Spec => []NothingElseMutated
<1> DEFINE Inv == KidsInv /\ TextInv /\ HonestInv /\ SearchInv /\ TargetInv
<1>1. MutationInit => Inv
  BY KidsInit, HonestInit, SearchInit, TargetInit
<1>2. Inv /\ [MutationNext]_mutationVars => Inv'
  BY KidsNext, TextNext, HonestNext, SearchNext, TargetNext
<1>3. Inv => NothingElseMutated
  BY DEF TargetInv
<1> HIDE DEF Inv
<1> QED BY <1>1, <1>2, <1>3, PTL DEF Spec

-----------------------------------------------------------------------------
(* Success. *)

\* Before the first look at the verifying element none is remembered.
ShownInv == pc \in {"ready", "target", "verify"} => shown = 0

LEMMA ShownNext ==
  ASSUME HonestInv, ShownInv, [MutationNext]_mutationVars PROVE ShownInv'
<1> USE DEF appVars, callVars, ShownInv
<1>1. CASE UNCHANGED actionVars \/ DeadlinePasses \/ Aside \/ Application
  BY <1>1 DEF actionVars, DeadlinePasses, Aside, Application, Restructure, Rename, SetMode,
     UserEdits, Changes, Execute, Decline
<1>2. CASE BeginStep
  BY <1>2 DEF BeginStep, BeginAction, Goto
<1>3. CASE NotYetSatisfied
  BY <1>3 DEF NotYetSatisfied, VerifyFound, After, Goto
<1>4. CASE ActionStep /\ ~NotYetSatisfied
  BY <1>4 DEF ActionStep, CountKids, Visit, VisitFails, Refuse, BindTarget,
     TargetAgain, TargetAtDispatch,
     AlreadySatisfied, NotIssued, Issue, Receive, CallTimesOut, PostVerified, PostAgain,
     PostGivesUp, Finish, Answered, Goto
<1> QED BY <1>1, <1>2, <1>3, <1>4, StepOfAction DEF ActionNext

\* The element that was looked at, when it was the one that is remembered.
LEMMA FoundSatisfies ==
  ASSUME Readable(Found), Satisfied(Found), shown = 0 \/ Found = shown
  PROVE  LET id == IF shown = 0 THEN Found ELSE shown
         IN Lives(id) /\ Ob(id).text = Expected
BY DEF Readable, Satisfied

\* A call succeeds only while the postcondition is on the element that it bound before it
\* mutated anything, whatever replaces that element meanwhile.
THEOREM SuccessIsTrue == Spec => SuccessIsObserved
<1> DEFINE Inv == HonestInv /\ ShownInv
           Step == result'.success /\ ~result.success =>
                     LET id == IF shown = 0 THEN Found ELSE shown
                     IN Lives(id) /\ Ob(id).text = Expected
<1>1. MutationInit => Inv
  BY HonestInit DEF MutationInit, ActionInit, ShownInv
<1>2. Inv /\ [MutationNext]_mutationVars => Inv'
  BY HonestNext, ShownNext
<1>3. Inv /\ [MutationNext]_mutationVars => [Step]_actionVars
  <2> SUFFICES ASSUME HonestInv, ShownInv, [MutationNext]_mutationVars PROVE [Step]_actionVars
    OBVIOUS
  <2> USE DEF appVars, callVars
  <2>1. CASE UNCHANGED actionVars
    BY <2>1
  <2>2. CASE BeginStep \/ DeadlinePasses \/ Aside \/ Application
    BY <2>2 DEF BeginStep, BeginAction, DeadlinePasses, Aside, Application, Restructure, Rename,
       SetMode, UserEdits, Changes, Execute, Decline
  <2>3. CASE AlreadySatisfied
    <3>1. shown = 0 \/ Found = shown
      BY <2>3 DEF AlreadySatisfied, VerifyFound, ShownInv
    <3>2. Readable(Found) /\ Satisfied(Found)
      BY <2>3 DEF AlreadySatisfied, VerifyFound
    <3> QED BY <3>1, <3>2, FoundSatisfies
  <2>4. CASE PostVerified
    BY <2>4, FoundSatisfies DEF PostVerified
  <2>5. CASE Receive \/ CallTimesOut
    BY <2>5, HonestAnswered
  <2>6. CASE ActionStep /\ ~AlreadySatisfied /\ ~PostVerified /\ ~Receive /\ ~CallTimesOut
    BY <2>6 DEF ActionStep, CountKids, Visit, VisitFails, Refuse, BindTarget,
     TargetAgain, TargetAtDispatch,
       NotYetSatisfied, NotIssued, Issue, PostAgain, PostGivesUp, Finish
  <2> QED BY <2>1, <2>2, <2>3, <2>4, <2>5, <2>6, StepOfAction DEF ActionNext
<1>4. [Step]_actionVars => [result'.success /\ ~result.success =>
                     LET id == IF shown = 0 THEN Found ELSE shown
                     IN Lives(id) /\ Ob(id).text = Expected]_actionVars
  OBVIOUS
<1> HIDE DEF Inv
<1> QED BY <1>1, <1>2, <1>3, <1>4, PTL DEF Spec, SuccessIsObserved


-----------------------------------------------------------------------------
(* The user's edits. *)

\* The range is on its way to the element, or about to be.
Underway == pc \in {"verify3", "perform"} \/ request # NoRequest

\* The element, if it still lives, holds the text that the range was computed from.
Unedited ==
  /\ target.match < Fresh
  /\ \A i \in DOMAIN kids : kids[i].id = target.match => kids[i].text = source

\* From the check before dispatch until the application acts, unless the user wrote into the
\* element after the check.
EditInv ==
  /\ request # NoRequest => request.to = target.match
  /\ kind = "range" /\ edited # "late" /\ Underway => Unedited

LEMMA EditSame ==
  ASSUME EditInv, UNCHANGED <<kids, changes, target, source, kind, edited>>,
         request' \in {request, NoRequest},
         pc' \in {"verify3", "perform"} => pc \in {"verify3", "perform"}
  PROVE  EditInv'
BY DEF EditInv, Unedited, Underway, Fresh

\* Nothing but the elements changes, and the element holds its text unless the user wrote.
LEMMA EditKeeps ==
  ASSUME EditInv, UNCHANGED <<request, kind, target, source, pc>>,
         edited' = "late" \/ ~Underway \/ (edited' = edited /\ (Unedited => Unedited'))
  PROVE  EditInv'
BY DEF EditInv, Underway

\* One element changes: another one, or it keeps its text.
LEMMA UneditedOne ==
  ASSUME KidsInv, TargetInv, Unedited, NEW i \in DOMAIN kids, NEW o \in Element,
         OneChanges(i, o), UNCHANGED <<target, source>>,
         o.text = kids[i].text \/ o.id # target.match
  PROVE  Unedited'
<1>1. /\ DOMAIN kids' = DOMAIN kids /\ kids'[i] = o
      /\ \A j \in DOMAIN kids : j # i => kids'[j] = kids[j]
  BY KidsOne
<1>2. o.id = kids[i].id
  BY DEF OneChanges
<1>3. \A j \in DOMAIN kids' : kids'[j].id = target.match => kids'[j].text = source
  BY <1>1, <1>2 DEF Unedited
<1>4. /\ changes \in Nat /\ Fresh \in Nat /\ target.match \in Nat
  BY KidsParts DEF TargetInv, BoundInv, Targets
<1>5. changes' \in Nat /\ changes <= changes'
  BY <1>4 DEF OneChanges
<1>6. Fresh' \in Nat /\ Fresh <= Fresh'
  BY <1>4, <1>5, FreshGrows
<1>7. target'.match < Fresh'
  BY <1>4, <1>6 DEF Unedited
<1> QED BY <1>3, <1>7 DEF Unedited

\* Nothing changes but the number of changes.
LEMMA UneditedAside ==
  ASSUME KidsInv, TargetInv, Unedited, UNCHANGED <<kids, target, source>>, changes' = changes + 1
  PROVE  Unedited'
<1>1. /\ changes \in Nat /\ Fresh \in Nat /\ target.match \in Nat
  BY KidsParts DEF TargetInv, BoundInv, Targets
<1>2. changes' \in Nat /\ changes <= changes'
  BY <1>1
<1>3. Fresh' \in Nat /\ Fresh <= Fresh'
  BY <1>1, <1>2, FreshGrows
<1>4. target'.match < Fresh'
  BY <1>1, <1>3 DEF Unedited
<1> QED BY <1>4 DEF Unedited

\* A newcomer is another object.
LEMMA UneditedRestructure ==
  ASSUME KidsInv, TargetInv, Unedited, Restructure
  PROVE  Unedited'
<1>1. UNCHANGED <<target, source>>
  BY DEF Restructure, Changes
<1>2. /\ changes' = changes + 1
      /\ \A j \in DOMAIN kids' :
           (\E i \in DOMAIN kids : kids'[j] = kids[i]) \/ kids'[j].id = Fresh
  BY RestructureStep
<1>3. /\ changes \in Nat /\ Fresh \in Nat /\ target.match \in Nat /\ target.match < Fresh
  BY KidsParts DEF TargetInv, BoundInv, Targets, Unedited
<1>4. target.match # Fresh
  BY <1>3
<1>5. \A j \in DOMAIN kids' : kids'[j].id = target.match => kids'[j].text = source
  BY <1>2, <1>4 DEF Unedited
<1>6. changes' \in Nat /\ changes <= changes'
  BY <1>2, <1>3
<1>7. Fresh' \in Nat /\ Fresh <= Fresh'
  BY <1>3, <1>6, FreshGrows
<1>8. target'.match < Fresh'
  BY <1>1, <1>3, <1>7
<1> QED BY <1>1, <1>5, <1>8 DEF Unedited

\* The last look before dispatch.
LEMMA EditChecked ==
  ASSUME KidsInv, HonestInv, SearchInv, TargetInv, TargetAtDispatch
  PROVE  EditInv'
<1>1. /\ UNCHANGED <<kids, changes, source, kind, edited, request>> /\ Lives(Found)
      /\ kind = "range" => Ob(Found).text = source
      /\ request = NoRequest /\ Found = target.bound
  BY DEF TargetAtDispatch, Fit, appVars, HonestInv, Early
<1>2. target'.match = Found
  BY <1>1, Rebound
<1>3. PICK i \in DOMAIN kids : kids[i].id = Found /\ Ob(Found) = kids[i]
  BY <1>1, ObOf
<1>4. \A j \in DOMAIN kids : kids[j].id = Found => j = i
  BY <1>3 DEF KidsInv
<1>5. Found < Fresh
  BY <1>3 DEF KidsInv
<1>6. kind = "range" => \A j \in DOMAIN kids : kids[j].id = Found => kids[j].text = source
  BY <1>1, <1>3, <1>4
<1>7. Fresh' = Fresh
  BY <1>1 DEF Fresh
<1>8. kind' = "range" => Unedited'
  BY <1>1, <1>2, <1>5, <1>6, <1>7 DEF Unedited
<1> QED BY <1>1, <1>8 DEF EditInv

LEMMA EditNext ==
  ASSUME KidsInv, TextInv, HonestInv, SearchInv, TargetInv, EditInv, [MutationNext]_mutationVars
  PROVE  EditInv'
<1> USE DEF appVars, callVars
<1>1. CASE UNCHANGED actionVars \/ DeadlinePasses \/ Decline
  BY <1>1, EditSame DEF actionVars, DeadlinePasses, Decline
<1>2. CASE Aside
  <2>1. /\ UNCHANGED <<kids, request, kind, target, source, pc, edited>> /\ changes' = changes + 1
    BY <1>2 DEF Aside
  <2> QED BY <2>1, UneditedAside, EditKeeps
<1>3. CASE Restructure
  <2>1. UNCHANGED <<request, kind, target, source, pc>> /\ edited' = edited
    BY <1>3 DEF Restructure, Changes
  <2> QED BY <1>3, <2>1, UneditedRestructure, EditKeeps
<1>4. CASE Rename \/ SetMode
  <2>1. UNCHANGED <<request, kind, target, source, pc>> /\ edited' = edited
    BY <1>4 DEF Rename, SetMode, Changes
  <2>2. PICK i \in DOMAIN kids, o \in Element : OneChanges(i, o) /\ o.text = kids[i].text
    BY <1>4, RenameStep, ModeStep
  <2>3. Unedited => Unedited'
    BY <2>1, <2>2, UneditedOne
  <2> QED BY <2>1, <2>3, EditKeeps
<1>5. CASE UserEdits
  <2>1. UNCHANGED <<request, kind, target, source, pc>>
    BY <1>5 DEF UserEdits, Changes
  <2>2. PICK i \in DOMAIN kids, o \in Element :
          /\ OneChanges(i, o)
          /\ edited' = IF kids[i].id # target.match THEN edited
                       ELSE IF pc \in {"verify", "target2", "verify2", "target3"} THEN "early"
                       ELSE "late"
    BY <1>5, UserStep
  <2>3. CASE kids[i].id # target.match
    <3>1. edited' = edited /\ o.id # target.match
      BY <2>2, <2>3 DEF OneChanges
    <3>2. Unedited => Unedited'
      BY <2>1, <2>2, <3>1, UneditedOne
    <3> QED BY <2>1, <3>1, <3>2, EditKeeps
  <2>4. CASE kids[i].id = target.match
    <3>1. edited' = "late" \/ ~Underway
      BY <2>2, <2>4 DEF Underway, HonestInv, Early
    <3> QED BY <2>1, <3>1, EditKeeps
  <2> QED BY <2>3, <2>4
<1>6. CASE Execute
  <2>1. UNCHANGED <<pc, target>> /\ request # NoRequest /\ request' = NoRequest
    BY <1>6 DEF Execute
  <2>2. pc \notin {"verify3", "perform"}
    BY <2>1 DEF HonestInv, Early
  <2> QED BY <2>1, <2>2 DEF EditInv, Underway
<1>7. CASE BeginStep
  <2>1. /\ UNCHANGED <<target, request>> /\ pc = "ready" /\ pc' = "target"
    BY <1>7 DEF BeginStep, BeginAction, Goto
  <2>2. request' = NoRequest
    BY <2>1 DEF HonestInv, Early
  <2> QED BY <2>1, <2>2 DEF EditInv, Underway
<1>8. CASE BindTarget \/ TargetAgain
  <2>1. /\ UNCHANGED request /\ pc \in {"target", "target2"} /\ pc' \in {"verify", "verify2"}
    BY <1>8 DEF BindTarget, TargetAgain, Goto
  <2>2. request' = NoRequest
    BY <2>1 DEF HonestInv, Early
  <2> QED BY <2>1, <2>2 DEF EditInv, Underway
<1>9. CASE TargetAtDispatch
  BY <1>9, EditChecked
<1>10. CASE Issue
  <2>1. /\ UNCHANGED <<kids, changes, target, source, kind, edited>> /\ pc = "perform"
        /\ request'.to = target.match
    BY <1>10 DEF Issue
  <2> QED BY <2>1 DEF EditInv, Underway, Unedited, Fresh
<1>11. CASE CountKids \/ Visit \/ VisitFails \/ Receive \/ CallTimesOut \/ PostAgain
  BY <1>11, EditSame DEF CountKids, Visit, VisitFails, Receive, CallTimesOut, PostAgain, Answered,
     Goto
<1>12. CASE Refuse \/ AlreadySatisfied \/ NotIssued \/ PostVerified \/ PostGivesUp
  BY <1>12, EditSame DEF Refuse, AlreadySatisfied, NotIssued, PostVerified, PostGivesUp, Finish
<1>13. CASE NotYetSatisfied
  BY <1>13, EditSame DEF NotYetSatisfied, VerifyFound, After, Goto
<1> QED BY <1>1, <1>2, <1>3, <1>4, <1>5, <1>6, <1>7, <1>8, <1>9, <1>10, <1>11, <1>12, <1>13,
           StepOfAction DEF ActionNext, ActionStep, Application

\* A text range never overwrites what the user wrote between the reading of the text and the
\* check before dispatch.
THEOREM RangeKeepsEdits == Spec => EarlierEditsKept
<1> DEFINE Inv == KidsInv /\ TextInv /\ HonestInv /\ SearchInv /\ TargetInv /\ EditInv
           Step == executed' # executed /\ kind = "range" =>
                     Ob(request.to).text = source \/ edited = "late"
<1>1. MutationInit => Inv
  <2>1. MutationInit => EditInv
    BY DEF MutationInit, ActionInit, EditInv, Underway
  <2> QED BY <2>1, KidsInit, HonestInit, SearchInit, TargetInit
<1>2. Inv /\ [MutationNext]_mutationVars => Inv'
  BY KidsNext, TextNext, HonestNext, SearchNext, TargetNext, EditNext
<1>3. Inv /\ [MutationNext]_mutationVars => [Step]_actionVars
  <2> SUFFICES ASSUME Inv, [MutationNext]_mutationVars PROVE [Step]_actionVars
    OBVIOUS
  <2> USE DEF appVars, callVars
  <2>1. CASE Execute
    <3>1. request # NoRequest /\ Lives(request.to)
      BY <2>1 DEF Execute
    <3>2. PICK i \in DOMAIN kids : kids[i].id = request.to /\ Ob(request.to) = kids[i]
      BY <3>1, ObOf
    <3>3. kind = "range" /\ edited # "late" => kids[i].text = source
      BY <3>1, <3>2 DEF EditInv, Underway, Unedited
    <3> QED BY <3>2, <3>3
  <2>2. CASE UNCHANGED actionVars
    BY <2>2
  <2>3. CASE BeginStep \/ DeadlinePasses \/ Aside \/ Decline
    BY <2>3 DEF BeginStep, BeginAction, DeadlinePasses, Aside, Decline
  <2>4. CASE Restructure \/ Rename \/ SetMode \/ UserEdits
    BY <2>4 DEF Restructure, Rename, SetMode, UserEdits, Changes
  <2>5. CASE ActionStep
    BY <2>5 DEF ActionStep, CountKids, Visit, VisitFails, Refuse, BindTarget, TargetAgain,
       TargetAtDispatch, AlreadySatisfied, NotYetSatisfied, NotIssued, Issue, Receive,
       CallTimesOut, PostVerified, PostAgain, PostGivesUp, Finish, Answered
  <2> QED BY <2>1, <2>2, <2>3, <2>4, <2>5, StepOfAction DEF ActionNext, Application
<1>4. [Step]_actionVars => [executed' # executed /\ kind = "range" =>
                     Ob(request.to).text = source \/ edited = "late"]_actionVars
  OBVIOUS
<1> HIDE DEF Inv
<1> QED BY <1>1, <1>2, <1>3, <1>4, PTL DEF Spec, EarlierEditsKept

-----------------------------------------------------------------------------
(* The composition, seen from the indicator. *)

\* The move's own check of the window fails before anything is asked.
Abandon ==
  /\ phase = "check" /\ answer = "unsent" /\ phase' = "off"
  /\ UNCHANGED <<shellVars, owned, op, answer, polls, outcome, uncertain, stood>>

Begin == \E c \in Cursor : (\E at \in Spot : BeginMove(c, at)) \/ BeginHide(c)

IndicatorNext == Desktop \/ Client \/ Begin \/ Abandon \/ Cleanup

\* Elements are where a cursor can be.
PlaceInv == layout \in [at : Spot, moved : BOOLEAN]

LEMMA PlaceInit == MutationInit => PlaceInv
BY DEF MutationInit, PlaceInv

\* The element that was located stays, or is laid out elsewhere.
LEMMA PlaceStep ==
  ASSUME PlaceInv, [MutationNext]_mutationVars
  PROVE  \/ layout' = layout \/ Locate
         \/ Relayout /\ \E at \in Spot : layout' = [at |-> at, moved |-> TRUE]
<1>1. CASE Tools
  BY <1>1 DEF Tools, CallMove, CallHide, CallAction, CallMutation
<1>2. CASE Server
  BY <1>2 DEF Server, CursorReturns, ActionReturns, NotLocated, MoveRefused, Revalidate,
              WindowLost, Nameless, Dispatch, Report, ReturnsFrom
<1>3. CASE Environment
  BY <1>3 DEF Environment, WindowChanges, Relayout, ApplicationActs, ShellActs
<1>4. CASE Late
  BY <1>4 DEF Late
<1>5. CASE Exit
  BY <1>5 DEF Exit
<1>6. CASE UNCHANGED mutationVars
  BY <1>6 DEF mutationVars
<1> QED BY <1>1, <1>2, <1>3, <1>4, <1>5, <1>6 DEF MutationNext

LEMMA PlaceLocated ==
  ASSUME PlaceInv, Locate
  PROVE  layout' = [at |-> layout.at, moved |-> FALSE] /\ layout.at \in Spot
BY DEF PlaceInv, Locate

LEMMA PlaceNext == ASSUME PlaceInv, [MutationNext]_mutationVars PROVE PlaceInv'
<1>1. CASE layout' = layout
  BY <1>1 DEF PlaceInv
<1>2. CASE Locate
  <2>1. layout' = [at |-> layout.at, moved |-> FALSE] /\ layout.at \in Spot
    BY <1>2, PlaceLocated
  <2> QED BY <2>1 DEF PlaceInv
<1>3. ASSUME NEW at \in Spot, layout' = [at |-> at, moved |-> TRUE] PROVE PlaceInv'
  BY <1>3 DEF PlaceInv
<1> QED BY <1>1, <1>2, <1>3, PlaceStep

\* Every step of the composition is one of the indicator, or leaves it alone.
LEMMA StepOfIndicator ==
  ASSUME [MutationNext]_mutationVars, op.cursor \in Cursor, PlaceInv
  PROVE  IndicatorNext \/ UNCHANGED indicatorVars
<1>1. CASE Tools
  <2>1. CASE CallMove
    BY <2>1 DEF CallMove, IndicatorNext, Begin
  <2>2. CASE CallHide
    BY <2>2 DEF CallHide, IndicatorNext, Begin
  <2>3. CASE CallAction \/ CallMutation
    BY <2>3 DEF CallAction, CallMutation
  <2> QED BY <1>1, <2>1, <2>2, <2>3 DEF Tools
<1>2. CASE Server
  <2>1. CASE Locate
    BY <2>1, PlaceLocated DEF Locate, IndicatorNext, Begin
  <2>2. CASE MoveRefused
    BY <2>2 DEF MoveRefused, IndicatorNext, Abandon
  <2>3. CASE WindowLost
    BY <2>3 DEF WindowLost, IndicatorNext, Begin
  <2>4. CASE Client
    BY <2>4 DEF IndicatorNext
  <2>5. CASE UNCHANGED indicatorVars
    BY <2>5
  <2> QED BY <1>2, <2>1, <2>2, <2>3, <2>4, <2>5 DEF Server, CursorReturns, ActionReturns,
             NotLocated, Revalidate, Nameless, Dispatch, Report
<1>3. CASE Environment
  BY <1>3 DEF Environment, WindowChanges, Relayout, ApplicationActs, ShellActs, IndicatorNext
<1>4. CASE Late
  BY <1>4 DEF Late
<1>5. CASE Exit
  BY <1>5 DEF Exit, IndicatorNext
<1>6. CASE UNCHANGED mutationVars
  BY <1>6 DEF mutationVars
<1> QED BY <1>1, <1>2, <1>3, <1>4, <1>5, <1>6 DEF MutationNext

-----------------------------------------------------------------------------
(* The bus. *)

Calls == {"show", "move", "hide", "status", "gone"}
Phases == {"check", "move", "reshow", "create", "settle", "hide"}
Messages == [call : Calls, cursor : Cursor, at : Spot, from : Nat, live : Flags]

LEMMA CallOfPhase ==
  /\ \A p \in Phases : Call[p] \in Calls \ {"gone"}
  /\ Call["check"] = "status" /\ Call["move"] = "move" /\ Call["reshow"] = "show"
  /\ Call["create"] = "show" /\ Call["settle"] = "status" /\ Call["hide"] = "hide"
BY DEF Call, Phases, Calls

\* The call that the client waits for.
Awaited(m) ==
  /\ answer = "pending" /\ phase # "off"
  /\ m.call = Call[phase] /\ m.cursor = op.cursor /\ m.at = op.at /\ m.from = conn

\* Somebody waits for the last message at most.
BusInv ==
  /\ conns \in Nat /\ conn \in 0..conns
  /\ inbox \in Seq(Messages)
  /\ op \in [cursor : Cursor, at : Spot]
  /\ phase \in Phases \cup {"off"}
  /\ \A i \in 1..Len(inbox) :
       /\ inbox[i].from \in 1..conns
       /\ inbox[i].live => i = Len(inbox) /\ Awaited(inbox[i])

LEMMA LiveField ==
  ASSUME NEW r \in Messages, NEW x
  PROVE  [r EXCEPT !.live = x]
         = [call |-> r.call, cursor |-> r.cursor, at |-> r.at, from |-> r.from, live |-> x]
BY DEF Messages

LEMMA DeadMessage ==
  ASSUME NEW r \in Messages
  PROVE  /\ [r EXCEPT !.live = FALSE]
            = [call |-> r.call, cursor |-> r.cursor, at |-> r.at, from |-> r.from, live |-> FALSE]
         /\ [r EXCEPT !.live = FALSE] \in Messages
<1>1. [r EXCEPT !.live = FALSE]
      = [call |-> r.call, cursor |-> r.cursor, at |-> r.at, from |-> r.from, live |-> FALSE]
  BY LiveField, Zenon
<1>2. FALSE \in Flags
  BY DEF Flags
<1>3. [call |-> r.call, cursor |-> r.cursor, at |-> r.at, from |-> r.from, live |-> FALSE]
      \in Messages
  BY <1>2 DEF Messages
<1> QED BY <1>1, <1>3, Zenon

LEMMA OrphanedMessages ==
  ASSUME inbox \in Seq(Messages)
  PROVE  /\ Orphaned \in Seq(Messages) /\ Len(Orphaned) = Len(inbox)
         /\ \A i \in 1..Len(inbox) :
              /\ Orphaned[i].call = inbox[i].call /\ Orphaned[i].cursor = inbox[i].cursor
              /\ Orphaned[i].from = inbox[i].from /\ ~Orphaned[i].live
<1>1. DOMAIN inbox = 1..Len(inbox) /\ Len(inbox) \in Nat
  OBVIOUS
<1>2. ASSUME NEW i \in 1..Len(inbox)
      PROVE  /\ Orphaned[i] \in Messages
             /\ Orphaned[i].call = inbox[i].call /\ Orphaned[i].cursor = inbox[i].cursor
             /\ Orphaned[i].from = inbox[i].from /\ ~Orphaned[i].live
  <2>1. inbox[i] \in Messages
    OBVIOUS
  <2>2. Orphaned[i] = [inbox[i] EXCEPT !.live = FALSE]
    BY <1>1 DEF Orphaned
  <2>3. /\ Orphaned[i] \in Messages
        /\ Orphaned[i] = [call |-> inbox[i].call, cursor |-> inbox[i].cursor, at |-> inbox[i].at,
                          from |-> inbox[i].from, live |-> FALSE]
    BY <2>1, <2>2, DeadMessage, Zenon
  <2> QED BY <2>3
<1>3. Orphaned = [i \in 1..Len(inbox) |-> Orphaned[i]]
  BY <1>1 DEF Orphaned
<1>4. Orphaned \in [1..Len(inbox) -> Messages]
  BY <1>2, <1>3
<1>5. Orphaned \in Seq(Messages) /\ Len(Orphaned) = Len(inbox)
  BY <1>1, <1>4
<1> QED BY <1>2, <1>5

LEMMA BusInit == MutationInit => BusInv
BY DEF MutationInit, IndicatorInit, BusInv

\* Nothing is awaited: the client goes on by itself.
LEMMA BusQuiet ==
  ASSUME BusInv, UNCHANGED <<inbox, conn, conns>>, op' \in [cursor : Cursor, at : Spot],
         phase' \in Phases \cup {"off"}, answer # "pending" \/ phase = "off"
  PROVE  BusInv'
BY DEF BusInv, Awaited

LEMMA BusSame ==
  ASSUME BusInv, UNCHANGED <<inbox, conn, conns, op, phase, answer>> PROVE BusInv'
BY DEF BusInv, Awaited

\* The Shell takes the first message; what is awaited stays the last one.
LEMMA BusServe == ASSUME BusInv, Serve PROVE BusInv'
<1>1. /\ inbox # <<>> /\ inbox' = Tail(inbox) /\ UNCHANGED <<conn, conns, op, phase>>
      /\ answer' = answer \/ inbox[1].live
  BY DEF Serve, clientVars
<1>2. /\ inbox \in Seq(Messages) /\ Len(inbox) \in Nat /\ Len(inbox) > 0
      /\ inbox' \in Seq(Messages) /\ Len(inbox') = Len(inbox) - 1
      /\ \A i \in 1..Len(inbox') : inbox'[i] = inbox[i + 1]
  BY <1>1 DEF BusInv
<1>3. CASE inbox[1].live
  <2>1. Len(inbox') = 0
    BY <1>2, <1>3 DEF BusInv
  <2>2. 1..Len(inbox') = {}
    BY <2>1
  <2> QED BY <1>1, <1>2, <2>2 DEF BusInv
<1>4. CASE answer' = answer
  <2>1. ASSUME NEW i \in 1..Len(inbox')
        PROVE  /\ inbox'[i].from \in 1..conns
               /\ inbox'[i].live => i = Len(inbox') /\ Awaited(inbox'[i])
    <3>1. i + 1 \in 1..Len(inbox) /\ inbox'[i] = inbox[i + 1]
      BY <1>2
    <3>2. /\ inbox[i + 1].from \in 1..conns
          /\ inbox[i + 1].live => i + 1 = Len(inbox) /\ Awaited(inbox[i + 1])
      BY <3>1 DEF BusInv
    <3>3. i + 1 = Len(inbox) => i = Len(inbox')
      BY <1>2
    <3> QED BY <3>1, <3>2, <3>3
  <2>3. ASSUME NEW i \in 1..Len(inbox'), inbox'[i].live PROVE Awaited(inbox[i])'
    BY <1>1, <1>4, <2>1, <2>3 DEF Awaited
  <2> QED BY <1>1, <1>2, <2>1, <2>3 DEF BusInv
<1> QED BY <1>1, <1>3, <1>4

\* The connection is lost or closed, or a call is given up on.
LEMMA BusOrphaned ==
  ASSUME BusInv, UNCHANGED <<conns, op, phase>>,
         \/ conn' = conn /\ inbox' = Orphaned
         \/ Disconnected
  PROVE  BusInv'
<1>1. /\ inbox \in Seq(Messages) /\ Orphaned \in Seq(Messages) /\ Len(Orphaned) = Len(inbox)
      /\ \A i \in 1..Len(inbox) : Orphaned[i].from = inbox[i].from /\ ~Orphaned[i].live
      /\ Len(inbox) \in Nat
  BY OrphanedMessages DEF BusInv
<1>2. CASE inbox' = Orphaned /\ conn' \in {0, conn}
  BY <1>1, <1>2 DEF BusInv
<1>3. CASE conn' = 0 /\ conn # 0 /\ inbox' = Append(Orphaned, Notice(conn))
  <2>1. /\ Notice(conn) \in Messages /\ Notice(conn).from = conn /\ Notice(conn).live = FALSE
        /\ conn \in 1..conns
    BY <1>3 DEF Notice, Messages, Calls, Flags, BusInv
  <2> DEFINE n == Notice(conn)
  <2> HIDE DEF n
  <2>2. /\ inbox' \in Seq(Messages) /\ Len(inbox') = Len(inbox) + 1
        /\ \A i \in 1..Len(inbox) : inbox'[i] = Orphaned[i]
        /\ inbox'[Len(inbox) + 1] = n
    BY <1>1, <1>3, <2>1 DEF n
  <2>3. \A i \in 1..Len(inbox') : i \in 1..Len(inbox) \/ i = Len(inbox) + 1
    BY <1>1, <2>2
  <2>4. \A i \in 1..Len(inbox') : inbox'[i].from \in 1..conns /\ ~inbox'[i].live
    BY <1>1, <2>1, <2>2, <2>3 DEF BusInv, n
  <2> QED BY <1>3, <2>2, <2>4 DEF BusInv
<1> QED BY <1>2, <1>3 DEF Disconnected

\* A new call is the last message, and no other one is awaited.
LEMMA BusAsk == ASSUME BusInv, Ask PROVE BusInv'
<1>1. /\ phase \in Phases /\ answer = "unsent" /\ UNCHANGED <<op, phase>>
      /\ conns' = (IF conn = 0 THEN conns + 1 ELSE conns)
      /\ conn' = (IF conn = 0 THEN conns' ELSE conn)
  BY DEF Ask, BusInv
<1>2. conns' \in Nat /\ conn' \in 1..conns' /\ conns <= conns'
  BY <1>1 DEF BusInv
<1>3. \A i \in 1..Len(inbox) : inbox[i].from \in 1..conns' /\ ~inbox[i].live
  BY <1>1, <1>2 DEF BusInv, Awaited
<1>4. CASE inbox' = inbox
  BY <1>1, <1>2, <1>3, <1>4 DEF BusInv
<1>5. CASE up
  <2> DEFINE m == [call |-> Call[phase], cursor |-> op.cursor, at |-> op.at, from |-> conn',
                   live |-> TRUE]
  <2>1. inbox' = Append(inbox, m) /\ answer' = "pending"
    BY <1>5 DEF Ask
  <2>2. m \in Messages
    BY <1>1, <1>2, CallOfPhase DEF BusInv, Messages, Flags
  <2>3. /\ m.call = Call[phase] /\ m.cursor = op.cursor /\ m.at = op.at /\ m.from = conn'
    OBVIOUS
  <2> HIDE DEF m
  <2>4. /\ inbox' \in Seq(Messages) /\ Len(inbox') = Len(inbox) + 1 /\ Len(inbox) \in Nat
        /\ \A i \in 1..Len(inbox) : inbox'[i] = inbox[i]
        /\ inbox'[Len(inbox) + 1] = m
    BY <2>1, <2>2 DEF BusInv
  <2>5. \A i \in 1..Len(inbox') : i \in 1..Len(inbox) \/ i = Len(inbox) + 1
    BY <2>4
  <2>6. ASSUME NEW i \in 1..Len(inbox')
        PROVE  /\ inbox'[i].from \in 1..conns'
               /\ inbox'[i].live => i = Len(inbox') /\ Awaited(inbox[i])'
    <3>1. CASE i \in 1..Len(inbox)
      BY <1>3, <2>4, <3>1
    <3>2. CASE i = Len(inbox) + 1
      BY <1>1, <1>2, <2>1, <2>3, <2>4, <3>2 DEF Awaited, Phases
    <3> QED BY <2>5, <3>1, <3>2
  <2> QED BY <1>1, <1>2, <2>4, <2>6 DEF BusInv
<1> QED BY <1>4, <1>5 DEF Ask

LEMMA BusNext == ASSUME PlaceInv, BusInv, [MutationNext]_mutationVars PROVE BusInv'
<1>0. op.cursor \in Cursor /\ op.at \in Spot
  BY DEF BusInv
<1> USE DEF shellVars, clientVars
<1>1. CASE UNCHANGED indicatorVars \/ AnimationEnds \/ ShellStarts
  BY <1>1, BusSame DEF indicatorVars, AnimationEnds, ShellStarts
<1>2. CASE Serve
  BY <1>2, BusServe
<1>3. CASE ShellStops
  <2>1. UNCHANGED <<conn, conns, op, phase>> /\ inbox' = <<>>
    BY <1>3 DEF ShellStops
  <2> QED BY <2>1 DEF BusInv
<1>4. CASE BusDrops \/ Cleanup
  BY <1>4, BusOrphaned DEF BusDrops, Cleanup
<1>5. CASE AnswerIsLate
  BY <1>5, BusOrphaned DEF AnswerIsLate
<1>6. CASE Ask
  BY <1>6, BusAsk
<1>7. CASE AskNobody
  BY <1>7, BusQuiet DEF AskNobody, BusInv
<1>8. CASE CheckFails \/ Checked \/ Moved \/ Shown \/ MoveFails
  BY <1>8, BusQuiet DEF CheckFails, Checked, Moved, Shown, MoveFails, Done, Proceed, BusInv,
     Phases, Errors
<1>9. CASE Settled \/ NotSettled \/ SettleFails \/ Hidden \/ HideFails
  BY <1>9, BusQuiet DEF Settled, NotSettled, SettleFails, Hidden, HideFails, Done, Proceed, BusInv,
     Phases, Errors
<1>10. CASE Abandon
  BY <1>10, BusQuiet DEF Abandon, BusInv
<1>11. CASE Begin
  <2>1. PICK c \in Cursor : (\E at \in Spot : BeginMove(c, at)) \/ BeginHide(c)
    BY <1>11 DEF Begin
  <2>2. CASE \E at \in Spot : BeginCursor(c, at, "check")
    BY <2>2, BusQuiet DEF BeginCursor, Phases
  <2>3. CASE BeginCursor(c, op.at, "hide")
    BY <1>0, <2>3, BusQuiet DEF BeginCursor, Phases
  <2>4. CASE c \notin owned /\ BeginHide(c)
    BY <2>4, BusSame DEF BeginHide
  <2> QED BY <2>1, <2>2, <2>3, <2>4 DEF BeginMove, BeginHide
<1> QED BY <1>0, <1>1, <1>2, <1>3, <1>4, <1>5, <1>6, <1>7, <1>8, <1>9, <1>10, <1>11,
           StepOfIndicator DEF IndicatorNext, Desktop, Client

-----------------------------------------------------------------------------
(* Indicated before it is mutated. *)

Outcomes == [ok : Flags, issued : Flags, unknown : Flags]

\* A positive status means that the cursor stood; after a move that succeeded it did.
StandInv ==
  /\ outcome \in Outcomes
  /\ phase = "settle" /\ answer = "true" => stood
  /\ tool = "move" =>
       /\ op.at = layout.at \/ layout.moved
       /\ phase # "hide"
       /\ outcome.ok => phase = "off" /\ stood
  /\ tool \in {"names", "act"} =>
       /\ op.at = layout.at \/ layout.moved
       /\ phase = "off" /\ stood /\ window # "early"
  /\ pc \notin {"ready", "done"} /\ selector = "name" => tool = "act"

LEMMA OutcomeIssued ==
  ASSUME NEW r \in Outcomes, NEW x
  PROVE  [r EXCEPT !.issued = x] = [ok |-> r.ok, issued |-> x, unknown |-> r.unknown]
BY DEF Outcomes

LEMMA OutcomeOk ==
  ASSUME NEW r \in Outcomes, NEW x
  PROVE  [r EXCEPT !.ok = x] = [ok |-> x, issued |-> r.issued, unknown |-> r.unknown]
BY DEF Outcomes

LEMMA OutcomeUnknown ==
  ASSUME NEW r \in Outcomes, NEW x
  PROVE  [r EXCEPT !.unknown = x] = [ok |-> r.ok, issued |-> r.issued, unknown |-> x]
BY DEF Outcomes

LEMMA OutcomeDone ==
  ASSUME NEW r \in Outcomes, NEW x \in Flags, NEW y \in Flags
  PROVE  [r EXCEPT !.ok = x, !.unknown = y] = [ok |-> x, issued |-> r.issued, unknown |-> y]
<1> DEFINE q == [r EXCEPT !.ok = x]
<1>1. [r EXCEPT !.ok = x, !.unknown = y] = [q EXCEPT !.unknown = y]
  OBVIOUS
<1>2. q = [ok |-> x, issued |-> r.issued, unknown |-> r.unknown]
  BY OutcomeOk, Zenon
<1> HIDE DEF q
<1>3. q \in Outcomes /\ q.ok = x /\ q.issued = r.issued
  BY <1>2 DEF Outcomes
<1>4. [q EXCEPT !.unknown = y] = [ok |-> q.ok, issued |-> q.issued, unknown |-> y]
  BY <1>3, OutcomeUnknown, Zenon
<1> QED BY <1>1, <1>3, <1>4

LEMMA StandInit == MutationInit => StandInv
BY DEF MutationInit, ActionInit, IndicatorInit, StandInv, NoOutcome, Outcomes, Flags

\* The indicator goes on inside one tool.
LEMMA StandGoes ==
  ASSUME StandInv, UNCHANGED <<tool, window, layout, pc, selector, op>>, outcome' \in Outcomes,
         stood => stood', phase = "off" => phase' = "off",
         phase' = "hide" => phase = "hide",
         phase' = "settle" /\ answer' = "true" => stood',
         outcome'.ok => outcome.ok \/ (phase' = "off" /\ stood')
  PROVE  StandInv'
BY DEF StandInv

\* Only a status that found the cursor in place is answered with TRUE.
LEMMA StandServe == ASSUME BusInv, StandInv, Serve, UNCHANGED <<tool, window, layout, pc, selector>>
                    PROVE  StandInv'
<1> DEFINE m == Head(inbox)
<1>1. /\ inbox # <<>> /\ UNCHANGED <<op, phase, outcome>>
      /\ cursors' = Effect(m)[1]
      /\ answer' = IF m.live THEN (IF Effect(m)[2] THEN "true" ELSE "false") ELSE answer
  BY DEF Serve, clientVars
<1>2. (stood => stood') /\ (StandsIn(cursors', op) => stood')
  BY Zenon DEF Serve, Stood
<1>3. m = inbox[1] /\ 1 \in 1..Len(inbox)
  BY <1>1 DEF BusInv
<1> HIDE DEF m
<1>4. ASSUME phase = "settle", m.live, answer' = "true" PROVE stood'
  <2>1. Awaited(m)
    BY <1>3, <1>4 DEF BusInv
  <2>2. m.call = "status" /\ m.cursor = op.cursor /\ m.at = op.at
    BY <1>4, <2>1, CallOfPhase DEF Awaited
  <2>3. Effect(m) = <<cursors, StandsIn(cursors, m)>>
    BY <2>2 DEF Effect
  <2>4. StandsIn(cursors, m)
    BY <1>1, <1>4, <2>3
  <2>5. cursors' = cursors
    BY <1>1, <2>3
  <2>6. StandsIn(cursors', op)
    BY <2>2, <2>4, <2>5 DEF StandsIn
  <2> QED BY <1>2, <2>6
<1>5. ~m.live => answer' = answer
  BY <1>1
<1>6. phase' = "settle" /\ answer' = "true" => stood'
  BY <1>1, <1>2, <1>4, <1>5 DEF StandInv
<1> QED BY <1>1, <1>2, <1>6 DEF StandInv

LEMMA StandDesktop ==
  ASSUME BusInv, StandInv, Desktop, UNCHANGED <<tool, window, layout, pc, selector>> PROVE StandInv'
<1> USE DEF clientVars
<1>1. CASE Serve
  BY <1>1, StandServe
<1>2. CASE AnimationEnds
  <2>1. UNCHANGED <<op, phase, answer, outcome>> /\ (stood => stood')
    BY <1>2 DEF AnimationEnds, Stood
  <2> QED BY <2>1 DEF StandInv
<1>3. CASE ShellStops \/ ShellStarts \/ BusDrops
  <2>1. /\ UNCHANGED <<op, phase, outcome, stood>>
        /\ answer' = answer \/ answer' \in {"failed", "late"}
    BY <1>3 DEF ShellStops, ShellStarts, BusDrops
  <2> QED BY <2>1 DEF StandInv
<1> QED BY <1>1, <1>2, <1>3 DEF Desktop

LEMMA StandClient ==
  ASSUME BusInv, StandInv, Client, UNCHANGED <<tool, window, layout, pc, selector>> PROVE StandInv'
<1> USE DEF shellVars, clientVars
<1>1. CASE Ask \/ AskNobody
  <2>1. PICK x \in BOOLEAN : outcome' = [outcome EXCEPT !.issued = x]
    BY <1>1 DEF Ask, AskNobody
  <2>2. UNCHANGED <<op, phase, stood>> /\ answer' \in {"pending", "failed"}
    BY <1>1 DEF Ask, AskNobody
  <2>3. outcome \in Outcomes
    BY DEF StandInv
  <2>4. outcome' = [ok |-> outcome.ok, issued |-> x, unknown |-> outcome.unknown]
    BY <2>1, <2>3, OutcomeIssued, Zenon
  <2>5. x \in Flags
    BY <2>1 DEF Flags
  <2> QED BY <2>2, <2>3, <2>4, <2>5 DEF StandInv, Outcomes
<1>2. CASE AnswerIsLate
  <2>1. UNCHANGED <<op, phase, outcome, stood>> /\ answer' = "late"
    BY <1>2 DEF AnswerIsLate
  <2> QED BY <2>1 DEF StandInv
<1>3. CASE CheckFails \/ Checked \/ Moved \/ Shown \/ NotSettled
  <2>1. /\ UNCHANGED <<op, outcome, stood>> /\ answer' = "unsent"
        /\ phase # "off" /\ phase' \in Phases \cup {"off"} /\ phase' # "hide"
    BY <1>3 DEF CheckFails, Checked, Moved, Shown, NotSettled, Proceed, Phases
  <2>2. tool = "move" => ~outcome.ok
    BY <2>1 DEF StandInv
  <2> QED BY <2>1, <2>2 DEF StandInv
<1>4. ASSUME NEW ok \in BOOLEAN, NEW unknown \in BOOLEAN, Done(ok, unknown), phase # "off",
             ok /\ tool = "move" => stood
      PROVE  StandInv'
  <2>1. /\ UNCHANGED <<op, stood>> /\ answer' = "unsent" /\ phase' = "off"
        /\ outcome' = [outcome EXCEPT !.ok = ok, !.unknown = unknown]
    BY <1>4 DEF Done, Proceed
  <2>2. ok \in Flags /\ unknown \in Flags /\ outcome \in Outcomes
    BY DEF Flags, StandInv
  <2>3. outcome' = [ok |-> ok, issued |-> outcome.issued, unknown |-> unknown]
    BY <2>1, <2>2, OutcomeDone, Zenon
  <2>4. outcome' \in Outcomes /\ outcome'.ok = ok
    BY <2>2, <2>3 DEF Outcomes
  <2> QED BY <1>4, <2>1, <2>4 DEF StandInv
<1>5. CASE MoveFails
  BY <1>4, <1>5 DEF MoveFails
<1>6. CASE Settled
  BY <1>4, <1>6 DEF Settled, StandInv
<1>7. CASE SettleFails
  BY <1>4, <1>7 DEF SettleFails
<1>8. CASE Hidden
  BY <1>4, <1>8 DEF Hidden, StandInv
<1>9. CASE HideFails
  BY <1>4, <1>9 DEF HideFails
<1> QED BY <1>1, <1>2, <1>3, <1>5, <1>6, <1>7, <1>8, <1>9 DEF Client

\* An operation begins.
LEMMA StandBegin ==
  ASSUME StandInv, NEW c \in Cursor, NEW at, NEW p \in {"check", "hide"}, BeginCursor(c, at, p),
         UNCHANGED <<window, pc, selector>>,
         tool' \notin {"names", "act"}, pc \in {"ready", "done"} \/ selector # "name",
         tool' = "move" => at = layout'.at /\ p = "check"
  PROVE  StandInv'
<1>1. /\ phase' = p /\ answer' = "unsent" /\ outcome' = NoOutcome
      /\ op' = [cursor |-> c, at |-> at]
  BY DEF BeginCursor
<1>2. outcome' \in Outcomes /\ ~outcome'.ok
  BY <1>1 DEF NoOutcome, Outcomes, Flags
<1> QED BY <1>1, <1>2 DEF StandInv

LEMMA StandHide ==
  ASSUME StandInv, NEW c \in Cursor, BeginHide(c), UNCHANGED <<window, pc, selector>>,
         tool' = "cursor", pc \in {"ready", "done"} \/ selector # "name"
  PROVE  StandInv'
<1>1. CASE c \in owned
  BY <1>1, StandBegin DEF BeginHide
<1>2. CASE c \notin owned
  <2>1. /\ UNCHANGED <<phase, answer, stood>> /\ phase = "off"
        /\ outcome' = [NoOutcome EXCEPT !.ok = TRUE]
    BY <1>2 DEF BeginHide
  <2>2. outcome' \in Outcomes
    BY <2>1 DEF NoOutcome, Outcomes, Flags
  <2> QED BY <2>1, <2>2 DEF StandInv
<1> QED BY <1>1, <1>2

\* A step of the action is one of a tool that dispatched it.
LEMMA StandAction ==
  ASSUME StandInv, ActionStep \/ DeadlinePasses, UNCHANGED <<indicatorVars, tool, window, layout>>
  PROVE  StandInv'
<1>1. UNCHANGED selector /\ pc \notin {"ready", "done"}
  BY DEF ActionStep, DeadlinePasses, CountKids, Visit, VisitFails, Refuse, BindTarget, TargetAgain,
     TargetAtDispatch, VerifyFound, AlreadySatisfied, NotYetSatisfied, NotIssued, Issue, Receive,
     CallTimesOut, PostVerified, PostAgain, PostGivesUp, Finish, Answered, callVars,
     TargetPhase, VerifyPhase
<1> QED BY <1>1 DEF StandInv, indicatorVars, clientVars

\* Between the tools, a positive status stays one of the same cursor and place.
LEMMA StandNext == ASSUME PlaceInv, BusInv, StandInv, [MutationNext]_mutationVars PROVE StandInv'
<1> USE DEF actionVars, callVars, indicatorVars, shellVars, clientVars
<1>1. CASE Tools
  <2>1. CASE CallMove
    <3>1. PICK c \in Cursor, at \in Spot : BeginCursor(c, at, "check")
      BY <2>1 DEF CallMove, BeginMove
    <3>2. /\ tool' = "cursor" /\ pc = "ready" /\ UNCHANGED <<window, pc, selector>>
      BY <2>1 DEF CallMove, Begins
    <3> QED BY <3>1, <3>2, StandBegin
  <2>2. CASE CallHide
    <3>1. PICK c \in Cursor : BeginHide(c)
      BY <2>2 DEF CallHide
    <3>2. /\ tool' = "cursor" /\ pc = "ready" /\ UNCHANGED <<window, pc, selector>>
      BY <2>2 DEF CallHide, Begins
    <3> QED BY <3>1, <3>2, StandHide
  <2>3. CASE CallAction
    <3>1. /\ tool' = "action" /\ selector' = "locator" /\ pc' = "target"
          /\ UNCHANGED <<op, phase, answer, outcome, stood, layout>>
      BY <2>3 DEF CallAction, Begins, BeginAction, Goto
    <3> QED BY <3>1 DEF StandInv
  <2>4. CASE CallMutation
    <3>1. /\ tool' = "locate" /\ pc = "ready"
          /\ UNCHANGED <<op, phase, answer, outcome, stood, pc, selector, layout>>
      BY <2>4 DEF CallMutation, Begins
    <3> QED BY <3>1 DEF StandInv
  <2> QED BY <1>1, <2>1, <2>2, <2>3, <2>4 DEF Tools
<1>2. CASE Server
  <2>1. CASE ActionStep /\ UNCHANGED <<indicatorVars, tool, calls, window, layout>>
    BY <2>1, StandAction
  <2>2. CASE Client /\ UNCHANGED <<actionVars, tool, calls, window, layout>>
    BY <2>2, StandClient
  <2>3. CASE CursorReturns \/ ActionReturns \/ NotLocated \/ Nameless \/ Report
    <3>1. /\ tool' = "none" /\ (tool # "act" \/ pc = "done")
          /\ UNCHANGED <<op, phase, answer, outcome, stood, pc, selector, layout>>
      BY <2>3 DEF CursorReturns, ActionReturns, NotLocated, Nameless, Report, ReturnsFrom
    <3> QED BY <3>1 DEF StandInv
  <2>4. CASE MoveRefused
    <3>1. /\ tool' = "none" /\ tool = "move" /\ phase' = "off"
          /\ UNCHANGED <<op, answer, outcome, stood, pc, selector, layout>>
      BY <2>4 DEF MoveRefused, ReturnsFrom
    <3> QED BY <3>1 DEF StandInv
  <2>5. CASE Locate
    <3>1. PICK c \in Cursor : BeginCursor(c, layout.at, "check")
      BY <2>5 DEF Locate, BeginMove
    <3>2. /\ tool' = "move" /\ tool = "locate" /\ UNCHANGED <<window, pc, selector>>
      BY <2>5 DEF Locate
    <3>3. pc \in {"ready", "done"} \/ selector # "name"
      BY <3>2 DEF StandInv
    <3>4. layout'.at = layout.at
      BY <2>5, PlaceLocated
    <3> QED BY <3>1, <3>2, <3>3, <3>4, StandBegin
  <2>6. CASE Revalidate
    <3>1. /\ tool = "move" /\ tool' = "names" /\ phase = "off" /\ outcome.ok
          /\ window = "captured"
          /\ UNCHANGED <<op, phase, answer, outcome, stood, pc, selector, window, layout>>
      BY <2>6 DEF Revalidate
    <3> QED BY <3>1 DEF StandInv
  <2>7. CASE WindowLost
    <3>1. /\ tool' = "cursor" /\ tool = "move" /\ UNCHANGED <<window, pc, selector>>
          /\ BeginHide(op.cursor) /\ op.cursor \in Cursor
      BY <2>7 DEF WindowLost, BusInv
    <3>2. pc \in {"ready", "done"} \/ selector # "name"
      BY <3>1 DEF StandInv
    <3> QED BY <3>1, <3>2, StandHide
  <2>8. CASE Dispatch
    <3>1. /\ tool = "names" /\ tool' = "act"
          /\ UNCHANGED <<op, phase, answer, outcome, stood, window, layout>>
      BY <2>8 DEF Dispatch
    <3> QED BY <3>1 DEF StandInv
  <2> QED BY <1>2, <2>1, <2>2, <2>3, <2>4, <2>5, <2>6, <2>7, <2>8 DEF Server
<1>3. CASE Environment
  <2>1. CASE WindowChanges
    <3>1. /\ window' = (IF tool \in {"names", "act"} THEN "late" ELSE "early")
          /\ UNCHANGED <<tool, op, phase, answer, outcome, stood, pc, selector, layout>>
      BY <2>1 DEF WindowChanges
    <3> QED BY <3>1 DEF StandInv
  <2>2. CASE Relayout
    <3>1. UNCHANGED <<tool, op, phase, answer, outcome, stood, pc, selector, window>>
      BY <2>2 DEF Relayout
    <3>2. layout'.moved
      BY <2>2 DEF Relayout
    <3> QED BY <3>1, <3>2 DEF StandInv
  <2>3. CASE ApplicationActs
    <3>1. UNCHANGED <<pc, selector>>
      BY <2>3 DEF ApplicationActs, Application, Restructure, Rename, SetMode, UserEdits, Changes,
         Execute, Decline
    <3> QED BY <2>3, <3>1 DEF ApplicationActs, StandInv
  <2>4. CASE ShellActs
    BY <2>4, StandDesktop DEF ShellActs
  <2> QED BY <1>3, <2>1, <2>2, <2>3, <2>4 DEF Environment
<1>4. CASE Late
  BY <1>4, StandAction DEF Late
<1>5. CASE Exit
  <2>1. /\ tool' = "exited" /\ tool = "none"
        /\ UNCHANGED <<op, phase, answer, outcome, stood, pc, selector, layout>>
    BY <1>5 DEF Exit, Cleanup
  <2> QED BY <2>1 DEF StandInv
<1>6. CASE UNCHANGED mutationVars
  BY <1>6 DEF StandInv, mutationVars
<1> QED BY <1>1, <1>2, <1>3, <1>4, <1>5, <1>6 DEF MutationNext

\* An element is mutated only after the agent cursor stood, in the same call, where the element
\* was located, and on it unless it was laid out again since; in a window that had not changed
\* since the capture, whatever the Shell and the bus do meanwhile.
THEOREM CursorPrecedesMutation == Spec => IndicatedFirst
<1> DEFINE Inv == PlaceInv /\ BusInv /\ StandInv
<1>1. MutationInit => Inv
  BY PlaceInit, BusInit, StandInit
<1>2. Inv /\ [MutationNext]_mutationVars => Inv'
  BY PlaceNext, BusNext, StandNext
<1>3. Inv /\ [MutationNext]_mutationVars =>
        [sent' # sent /\ selector = "name" =>
           /\ stood /\ window # "early"
           /\ op.at = layout.at \/ layout.moved]_mutationVars
  <2> SUFFICES ASSUME Inv, [MutationNext]_mutationVars, sent' # sent, selector = "name"
               PROVE  /\ stood /\ window # "early"
                      /\ op.at = layout.at \/ layout.moved
    OBVIOUS
  <2>1. pc \notin {"ready", "done"}
    <3> USE DEF actionVars, callVars, appVars
    <3>1. ActionNext
      BY StepOfAction
    <3>2. ActionStep
      BY <3>1 DEF ActionNext, BeginStep, BeginAction, Application, Restructure, Rename, SetMode,
         UserEdits, Changes, Execute, Decline, DeadlinePasses, Aside
    <3>3. Issue
      BY <3>2 DEF ActionStep, CountKids, Visit, VisitFails, Refuse, BindTarget, TargetAgain,
         TargetAtDispatch, AlreadySatisfied, NotYetSatisfied, NotIssued, Receive, CallTimesOut,
         PostVerified, PostAgain, PostGivesUp, Finish, Answered
    <3> QED BY <3>3 DEF Issue
  <2> QED BY <2>1 DEF StandInv
<1> HIDE DEF Inv
<1> QED BY <1>1, <1>2, <1>3, PTL DEF Spec, IndicatedFirst

-----------------------------------------------------------------------------
(* No cursor without an owner. *)

\* What the client knows of: shown, perhaps shown, or about to be.
Cover(c) == c \in owned \cup uncertain \/ (phase = "create" /\ op.cursor = c)

\* The Shell is told that connection f is gone, after message k.
GoneAfter(k, f) ==
  \E i \in 1..Len(inbox) : i > k /\ inbox[i].call = "gone" /\ inbox[i].from = f

CoveredBy(c, f, k) == IF f = conn THEN Cover(c) ELSE GoneAfter(k, f)

Marked(c) == cursors[c] # NoCursor
Mark(c) == \E o \in 1..conns : \E a, b : cursors[c] = [owner |-> o, at |-> a, idle |-> b]

\* The live connection shows no such cursor and is not about to.
Unshown(c) ==
  /\ Marked(c) => cursors[c].owner # conn
  /\ \A i \in 1..Len(inbox) : inbox[i].call = "show" /\ inbox[i].cursor = c => inbox[i].from # conn

Denied ==
  \/ phase = "hide" /\ answer \in {"true", "false"}
  \/ phase \in {"reshow", "create"} /\ answer = "false"

StrayInv ==
  /\ \E f \in [Cursor -> {cursors[c] : c \in Cursor}] : cursors = f
  /\ \A c \in Cursor : Marked(c) => Mark(c) /\ CoveredBy(c, cursors[c].owner, 0)
  /\ \A i \in 1..Len(inbox) : inbox[i].call = "show" => CoveredBy(inbox[i].cursor, inbox[i].from, i)
  /\ phase \in {"move", "reshow", "settle", "hide"} => op.cursor \in owned
  /\ answer \in {"true", "false"} => \A i \in 1..Len(inbox) : inbox[i].call = "gone"
  /\ Denied => (Marked(op.cursor) => cursors[op.cursor].owner # conn)
  /\ answer = "failed" => \A c \in Cursor : Unshown(c)
  /\ ~up => inbox = <<>> /\ \A c \in Cursor : ~Marked(c)

LEMMA StrayInit == MutationInit => StrayInv
<1> SUFFICES ASSUME MutationInit PROVE StrayInv
  OBVIOUS
<1>1. /\ cursors = [c \in Cursor |-> NoCursor] /\ inbox = <<>> /\ phase = "off" /\ answer = "unsent"
  BY DEF MutationInit, IndicatorInit
<1>2. \E f \in [Cursor -> {cursors[c] : c \in Cursor}] : cursors = f
  BY <1>1
<1> QED BY <1>1, <1>2 DEF StrayInv, Marked, Denied

LEMMA StraySame ==
  ASSUME StrayInv, UNCHANGED <<up, cursors, inbox, conn, conns, owned, uncertain, op, phase, answer>>
  PROVE  StrayInv'
BY DEF StrayInv, CoveredBy, Cover, GoneAfter, Marked, Mark, Unshown, Denied

\* The client goes on: what it forgets is not shown.
LEMMA StrayGoes ==
  ASSUME BusInv, StrayInv, UNCHANGED <<up, cursors, inbox, conn, conns>>, answer' = "unsent",
         phase' \in {"move", "reshow", "settle", "hide"} => op'.cursor \in owned',
         \A c \in Cursor : Cover(c) => Cover(c)' \/ Unshown(c)
  PROVE  StrayInv'
<1>1. ASSUME NEW c \in Cursor, NEW k, NEW f, CoveredBy(c, f, k), f = conn => ~Unshown(c)
      PROVE  CoveredBy(c, f, k)'
  BY <1>1 DEF CoveredBy, GoneAfter
<1>2. \A c \in Cursor : Marked(c)' => Mark(c)' /\ CoveredBy(c, cursors[c].owner, 0)'
  BY <1>1 DEF StrayInv, Marked, Mark, Unshown
<1>3. ASSUME NEW i \in 1..Len(inbox), inbox[i].call = "show"
      PROVE  CoveredBy(inbox[i].cursor, inbox[i].from, i)'
  <2>1. inbox[i].cursor \in Cursor
    <3>1. inbox[i] \in Messages
      BY DEF BusInv
    <3> QED BY <3>1 DEF Messages
  <2>2. CoveredBy(inbox[i].cursor, inbox[i].from, i)
    BY <1>3 DEF StrayInv
  <2>3. inbox[i].from = conn => ~Unshown(inbox[i].cursor)
    BY <1>3 DEF Unshown
  <2>4. CoveredBy(inbox[i].cursor, inbox[i].from, i)'
    BY <1>1, <2>1, <2>2, <2>3 DEF CoveredBy, GoneAfter
  <2> QED BY <2>4
<1> QED BY <1>2, <1>3 DEF StrayInv, Denied, Marked

LEMMA StrayClient ==
  ASSUME BusInv, StrayInv, Client, ~Ask, ~AskNobody, ~AnswerIsLate PROVE StrayInv'
<1> USE DEF shellVars, Proceed
<1>1. op.cursor \in Cursor
  BY DEF BusInv
<1>2. CASE CheckFails
  BY <1>2, StrayGoes DEF CheckFails, Cover
<1>3. CASE Checked
  BY <1>3, StrayGoes DEF Checked, Cover
<1>4. CASE Moved
  BY <1>4, StrayGoes DEF Moved, Cover, StrayInv
<1>5. CASE Shown
  BY <1>5, StrayGoes DEF Shown, Cover, StrayInv
<1>6. ASSUME NEW ok, NEW unknown \in BOOLEAN, Done(ok, unknown), owned' = owned,
             unknown \/ op.cursor \in owned \/ Unshown(op.cursor)
      PROVE  StrayInv'
  <2>1. /\ UNCHANGED <<up, cursors, inbox, conn, conns, op>> /\ answer' = "unsent" /\ phase' = "off"
        /\ uncertain' = IF unknown THEN uncertain \cup {op.cursor} ELSE uncertain \ {op.cursor}
    BY <1>6 DEF Done
  <2>2. \A c \in Cursor : Cover(c) => Cover(c)' \/ Unshown(c)
    BY <1>6, <2>1 DEF Cover
  <2> QED BY <2>1, <2>2, StrayGoes
<1>7. Denied => Unshown(op.cursor)
  BY DEF StrayInv, Denied, Unshown
<1>8. answer = "failed" => Unshown(op.cursor)
  BY <1>1 DEF StrayInv
<1>9. CASE MoveFails
  <2>1. Done(FALSE, answer = "late") /\ owned' = owned
    BY <1>9 DEF MoveFails
  <2>2. answer = "late" \/ op.cursor \in owned \/ Unshown(op.cursor)
    BY <1>7, <1>8, <1>9 DEF MoveFails, StrayInv, Errors, Denied
  <2> QED BY <1>6, <2>1, <2>2
<1>10. CASE Settled
  BY <1>6, <1>10 DEF Settled, StrayInv
<1>11. CASE NotSettled
  BY <1>11, StrayGoes DEF NotSettled, Cover, StrayInv
<1>12. CASE SettleFails
  BY <1>6, <1>12 DEF SettleFails
<1>13. CASE Hidden
  <2>1. /\ UNCHANGED <<up, cursors, inbox, conn, conns, op>> /\ answer' = "unsent" /\ phase' = "off"
        /\ uncertain' = uncertain \ {op.cursor} /\ owned' = owned \ {op.cursor} /\ phase = "hide"
    BY <1>13 DEF Hidden, Done
  <2>2. Unshown(op.cursor)
    BY <1>7, <1>13 DEF Hidden, Denied
  <2>3. \A c \in Cursor : Cover(c) => Cover(c)' \/ Unshown(c)
    BY <2>1, <2>2 DEF Cover
  <2> QED BY <2>1, <2>3, StrayGoes
<1>14. CASE HideFails
  <2>1. Done(FALSE, answer = "late") /\ owned' = owned /\ phase = "hide"
    BY <1>14 DEF HideFails
  <2> QED BY <1>6, <2>1 DEF StrayInv
<1> QED BY <1>2, <1>3, <1>4, <1>5, <1>9, <1>10, <1>11, <1>12, <1>13, <1>14 DEF Client

\* A message joins the inbox, or the messages there are orphaned.
LEMMA StrayInbox ==
  ASSUME BusInv, StrayInv, inbox' \in Seq(Messages), Len(inbox') >= Len(inbox),
         \A i \in 1..Len(inbox) : /\ inbox'[i].call = inbox[i].call /\ inbox'[i].from = inbox[i].from
                                  /\ inbox'[i].cursor = inbox[i].cursor
  PROVE  /\ \A k, f : GoneAfter(k, f) => GoneAfter(k, f)'
         /\ Len(inbox) \in Nat /\ Len(inbox') \in Nat
<1>1. Len(inbox) \in Nat /\ Len(inbox') \in Nat
  BY DEF BusInv
<1>2. ASSUME NEW k, NEW f, GoneAfter(k, f) PROVE GoneAfter(k, f)'
  <2>1. PICK i \in 1..Len(inbox) : i > k /\ inbox[i].call = "gone" /\ inbox[i].from = f
    BY <1>2 DEF GoneAfter
  <2>2. i \in 1..Len(inbox') /\ inbox'[i].call = "gone" /\ inbox'[i].from = f
    BY <1>1, <2>1
  <2>3. \E j \in 1..Len(inbox') : j > k /\ inbox'[j].call = "gone" /\ inbox'[j].from = f
    BY <2>1, <2>2
  <2> QED BY <2>3 DEF GoneAfter
<1> QED BY <1>1, <1>2

\* The connection is lost, or a call is given up on: what it may still show stays covered.
LEMMA StrayOrphaned ==
  ASSUME BusInv, StrayInv, UNCHANGED <<up, cursors, conns, op, phase, uncertain>>,
         answer' \in {answer, "late"} \/ (conn' = 0 /\ answer' = "failed"),
         \/ conn' = conn /\ inbox' = Orphaned /\ owned' = owned
         \/ Disconnected /\ owned' = owned
         \/ Disconnected /\ phase = "off"
  PROVE  StrayInv'
<1>1. /\ Orphaned \in Seq(Messages) /\ Len(Orphaned) = Len(inbox) /\ Len(inbox) \in Nat
      /\ \A i \in 1..Len(inbox) :
           /\ Orphaned[i].call = inbox[i].call /\ Orphaned[i].cursor = inbox[i].cursor
           /\ Orphaned[i].from = inbox[i].from
  BY OrphanedMessages DEF BusInv
<1>2. \/ inbox' = Orphaned /\ (conn' = conn \/ conn = 0 \/ ~up)
      \/ conn' = 0 /\ conn # 0 /\ inbox' = Append(Orphaned, Notice(conn)) /\ up
  BY DEF Disconnected
<1>3. conn' \in {0, conn}
  BY DEF Disconnected
<1>4. Notice(conn) \in Messages /\ Notice(conn).from = conn /\ Notice(conn).call = "gone"
  BY DEF Notice, Messages, Calls, Flags, BusInv
<1> DEFINE n == Notice(conn)
<1> HIDE DEF n
<1>5. /\ inbox' \in Seq(Messages) /\ Len(inbox') \in {Len(inbox), Len(inbox) + 1}
      /\ \A i \in 1..Len(inbox) :
           /\ inbox'[i].call = inbox[i].call /\ inbox'[i].cursor = inbox[i].cursor
           /\ inbox'[i].from = inbox[i].from
      /\ Len(inbox') = Len(inbox) + 1 => inbox'[Len(inbox) + 1] = n
      /\ Len(inbox') = Len(inbox) + 1 \/ conn' = conn \/ conn = 0 \/ ~up
  <2>1. CASE inbox' = Orphaned /\ (conn' = conn \/ conn = 0 \/ ~up)
    BY <1>1, <2>1
  <2>2. CASE inbox' = Append(Orphaned, n)
    BY <1>1, <1>4, <2>2 DEF n
  <2> QED BY <1>2, <2>1, <2>2 DEF n
<1>6. \A k, f : GoneAfter(k, f) => GoneAfter(k, f)'
  BY <1>1, <1>5, StrayInbox
<1>7. \A i \in 1..Len(inbox') : i \in 1..Len(inbox) \/ i = Len(inbox) + 1
  BY <1>1, <1>5
<1>8. ASSUME NEW c \in Cursor, NEW k \in 0..Len(inbox), NEW f \in 1..conns, CoveredBy(c, f, k), up
      PROVE  CoveredBy(c, f, k)'
  <2>1. CASE f # conn
    <3>1. f # conn'
      BY <1>3, <1>8, <2>1
    <3> QED BY <1>6, <1>8, <2>1, <3>1 DEF CoveredBy
  <2>2. CASE f = conn /\ conn' # conn
    <3>1. Len(inbox') = Len(inbox) + 1 /\ conn # 0
      BY <1>3, <1>5, <1>8, <2>2
    <3>2. inbox'[Len(inbox) + 1].call = "gone" /\ inbox'[Len(inbox) + 1].from = f
      BY <1>4, <1>5, <2>2, <3>1 DEF n
    <3>3. GoneAfter(k, f)'
      BY <1>1, <1>8, <3>1, <3>2 DEF GoneAfter
    <3> QED BY <2>2, <3>3 DEF CoveredBy
  <2>3. CASE f = conn /\ conn' = conn
    <3>1. owned' = owned
      BY <1>3, <1>8, <2>3 DEF Disconnected
    <3> QED BY <1>8, <2>3, <3>1 DEF CoveredBy, Cover
  <2> QED BY <2>1, <2>2, <2>3
<1>9. \A c \in Cursor : Marked(c)' => Mark(c)' /\ CoveredBy(c, cursors[c].owner, 0)'
  <2> SUFFICES ASSUME NEW c \in Cursor, Marked(c) PROVE Mark(c) /\ CoveredBy(c, cursors[c].owner, 0)'
    BY DEF Marked, Mark
  <2>1. Mark(c) /\ CoveredBy(c, cursors[c].owner, 0) /\ up
    BY DEF StrayInv
  <2>2. cursors[c].owner \in 1..conns /\ 0 \in 0..Len(inbox)
    BY <1>1, <2>1 DEF Mark
  <2>3. \A f : f = cursors[c].owner => CoveredBy(c, f, 0)'
    BY <1>8, <2>1, <2>2
  <2> QED BY <2>1, <2>3 DEF CoveredBy, GoneAfter
<1>10. ASSUME NEW i \in 1..Len(inbox'), inbox'[i].call = "show"
       PROVE  CoveredBy(inbox[i].cursor, inbox[i].from, i)'
  <2>1. i \in 1..Len(inbox)
    BY <1>4, <1>5, <1>7, <1>10 DEF n
  <2>2. inbox[i] \in Messages /\ inbox[i].from \in 1..conns /\ i \in 0..Len(inbox)
    BY <1>1, <2>1 DEF BusInv
  <2>3. /\ inbox[i].call = "show" /\ inbox'[i].cursor = inbox[i].cursor
        /\ inbox'[i].from = inbox[i].from /\ inbox[i].cursor \in Cursor
    BY <1>5, <1>10, <2>1, <2>2 DEF Messages
  <2>4. CoveredBy(inbox[i].cursor, inbox[i].from, i) /\ up
    BY <2>1, <2>3 DEF StrayInv
  <2>5. \A c, f : c = inbox[i].cursor /\ f = inbox[i].from => CoveredBy(c, f, i)'
    BY <1>8, <2>2, <2>3, <2>4
  <2> QED BY <2>3, <2>5 DEF CoveredBy, Cover, GoneAfter
<1>11. phase' \in {"move", "reshow", "settle", "hide"} => op'.cursor \in owned'
  BY DEF StrayInv
<1>12. answer' \in {"true", "false"} => \A i \in 1..Len(inbox') : inbox'[i].call = "gone"
  BY <1>4, <1>5, <1>7 DEF StrayInv, n
<1>13. ASSUME NEW c \in Cursor, Marked(c) => cursors[c].owner # conn
       PROVE  Marked(c)' => cursors'[c].owner # conn'
  <2> SUFFICES ASSUME Marked(c) PROVE cursors[c].owner # conn'
    BY DEF Marked
  <2>1. cursors[c].owner \in 1..conns
    BY DEF StrayInv, Mark
  <2> QED BY <1>3, <1>13, <2>1
<1>14. Denied' => (Marked(op.cursor)' => cursors'[op'.cursor].owner # conn')
  <2>1. Denied' => Denied
    BY DEF Denied
  <2>2. op.cursor \in Cursor
    BY DEF BusInv
  <2> QED BY <1>13, <2>1, <2>2 DEF StrayInv, Marked
<1>15. answer' = "failed" => \A c \in Cursor : Unshown(c)'
  <2> SUFFICES ASSUME answer' = "failed", NEW c \in Cursor PROVE Unshown(c)'
    OBVIOUS
  <2>1. answer = "failed" \/ conn' = 0
    OBVIOUS
  <2>2. Marked(c) => cursors[c].owner \in 1..conns
    BY DEF StrayInv, Mark
  <2>3. Marked(c)' => cursors'[c].owner # conn'
    BY <1>3, <2>1, <2>2 DEF StrayInv, Unshown, Marked
  <2>4. \A i \in 1..Len(inbox') : inbox'[i].call = "show" /\ inbox'[i].cursor = c => inbox'[i].from # conn'
    <3> SUFFICES ASSUME NEW i \in 1..Len(inbox'), inbox'[i].call = "show", inbox'[i].cursor = c
                 PROVE  inbox'[i].from # conn'
      OBVIOUS
    <3>1. i \in 1..Len(inbox)
      BY <1>4, <1>5, <1>7 DEF n
    <3>2. /\ inbox[i].call = "show" /\ inbox[i].cursor = c /\ inbox'[i].from = inbox[i].from
          /\ inbox[i].from \in 1..conns
      BY <1>5, <3>1 DEF BusInv
    <3>3. answer = "failed" => inbox[i].from # conn
      BY <3>1, <3>2 DEF StrayInv, Unshown
    <3> QED BY <1>3, <2>1, <3>2, <3>3
  <2> QED BY <2>3, <2>4 DEF Unshown
<1>16. ~up' => inbox' = <<>> /\ \A c \in Cursor : ~Marked(c)'
  <2> SUFFICES ASSUME ~up PROVE inbox' = <<>> /\ \A c \in Cursor : ~Marked(c)'
    OBVIOUS
  <2>1. Len(inbox) = 0
    BY DEF StrayInv
  <2>2. inbox' = Orphaned
    BY <1>2
  <2> QED BY <1>1, <2>1, <2>2 DEF StrayInv, Marked
<1>17. \E f \in [Cursor -> {cursors[c] : c \in Cursor}'] : cursors' = f
  BY DEF StrayInv
<1> QED BY <1>9, <1>10, <1>11, <1>12, <1>14, <1>15, <1>16, <1>17 DEF StrayInv

LEMMA StrayAsk == ASSUME BusInv, StrayInv, Ask PROVE StrayInv'
<1>1. /\ phase \in Phases /\ answer = "unsent" /\ UNCHANGED <<up, cursors, owned, uncertain, op, phase>>
      /\ conns' = (IF conn = 0 THEN conns + 1 ELSE conns)
      /\ conn' = (IF conn = 0 THEN conns' ELSE conn)
  BY DEF Ask, BusInv
<1>2. /\ conns \in Nat /\ conns' \in Nat /\ conn' \in 1..conns' /\ conns <= conns'
      /\ conn' = conn \/ (conn = 0 /\ conn' = conns + 1)
      /\ Len(inbox) \in Nat
  BY <1>1 DEF BusInv
<1>3. ASSUME NEW c \in Cursor, Marked(c) PROVE Mark(c)' /\ cursors[c].owner \in 1..conns
  <2>0. PICK o \in 1..conns : \E a, b : cursors[c] = [owner |-> o, at |-> a, idle |-> b]
    BY <1>3 DEF StrayInv, Mark
  <2>1. PICK a, b : cursors[c] = [owner |-> o, at |-> a, idle |-> b]
    BY <2>0
  <2>2. o \in 1..conns'
    BY <1>2, <2>0
  <2>3. cursors[c].owner = o
    BY <2>1
  <2>4. cursors'[c] = [owner |-> o, at |-> a, idle |-> b]
    BY <1>1, <2>1
  <2>5. Mark(c)'
    BY <2>2, <2>4 DEF Mark
  <2> QED BY <2>0, <2>3, <2>5
<1>4. ASSUME ~up PROVE StrayInv'
  <2>1. inbox = <<>> /\ inbox' = inbox /\ answer' = "failed" /\ \A c \in Cursor : ~Marked(c)
    BY <1>4 DEF Ask, StrayInv
  <2>2. Len(inbox') = 0 /\ \A i \in 1..Len(inbox') : FALSE
    BY <2>1
  <2> QED BY <1>1, <2>1, <2>2 DEF StrayInv, Marked, Unshown, Denied
<1>5. ASSUME up PROVE StrayInv'
  <2> DEFINE m == [call |-> Call[phase], cursor |-> op.cursor, at |-> op.at, from |-> conn',
                   live |-> TRUE]
  <2>1. inbox' = Append(inbox, m) /\ answer' = "pending"
    BY <1>5 DEF Ask
  <2>2. m \in Messages
    BY <1>1, <1>2, CallOfPhase DEF BusInv, Messages, Flags
  <2>3. m.call = Call[phase] /\ m.cursor = op.cursor /\ m.from = conn'
    OBVIOUS
  <2> HIDE DEF m
  <2>4. /\ inbox' \in Seq(Messages) /\ Len(inbox') = Len(inbox) + 1
        /\ \A i \in 1..Len(inbox) : inbox'[i] = inbox[i]
        /\ inbox'[Len(inbox) + 1] = m
    BY <2>1, <2>2 DEF BusInv
  <2>5. \A k, f : GoneAfter(k, f) => GoneAfter(k, f)'
    BY <1>2, <2>4, StrayInbox
  <2>6. ASSUME NEW c \in Cursor, NEW k, NEW f \in 1..conns, CoveredBy(c, f, k) PROVE CoveredBy(c, f, k)'
    <3>1. f = conn => conn' = conn
      BY <1>2
    <3>2. f # conn => f # conn'
      BY <1>2
    <3> QED BY <1>1, <2>5, <2>6, <3>1, <3>2 DEF CoveredBy, Cover
  <2>7. \A c \in Cursor : Marked(c)' => Mark(c)' /\ CoveredBy(c, cursors[c].owner, 0)'
    <3> SUFFICES ASSUME NEW c \in Cursor, Marked(c) PROVE Mark(c)' /\ CoveredBy(c, cursors[c].owner, 0)'
      BY <1>1 DEF Marked
    <3>1. CoveredBy(c, cursors[c].owner, 0)
      BY DEF StrayInv
    <3>2. \A f : f = cursors[c].owner => CoveredBy(c, f, 0)'
      BY <1>3, <2>6, <3>1
    <3> QED BY <1>1, <1>3, <3>2 DEF CoveredBy, Cover, GoneAfter
  <2>8. ASSUME NEW i \in 1..Len(inbox'), inbox'[i].call = "show"
        PROVE  CoveredBy(inbox[i].cursor, inbox[i].from, i)'
    <3>1. CASE i \in 1..Len(inbox)
      <4>1. inbox[i] \in Messages /\ inbox[i].from \in 1..conns /\ inbox'[i] = inbox[i]
        BY <2>4, <3>1 DEF BusInv
      <4>2. inbox[i].cursor \in Cursor /\ CoveredBy(inbox[i].cursor, inbox[i].from, i)
        BY <2>8, <3>1, <4>1 DEF StrayInv, Messages
      <4>3. \A c, f : c = inbox[i].cursor /\ f = inbox[i].from => CoveredBy(c, f, i)'
        BY <2>6, <4>1, <4>2
      <4> QED BY <4>1, <4>3 DEF CoveredBy, Cover, GoneAfter
    <3>2. CASE i = Len(inbox) + 1
      <4>1. inbox'[i] = m /\ Call[phase] = "show"
        BY <2>3, <2>4, <2>8, <3>2
      <4>2. phase \in {"reshow", "create"}
        BY <1>1, <4>1, CallOfPhase DEF Phases
      <4>3. Cover(op.cursor)'
        BY <1>1, <4>2 DEF Cover, StrayInv
      <4> QED BY <1>1, <2>3, <4>1, <4>3 DEF CoveredBy, Cover
    <3> QED BY <1>2, <2>4, <3>1, <3>2
  <2> QED BY <1>1, <1>5, <2>1, <2>7, <2>8 DEF StrayInv, Denied
<1> QED BY <1>4, <1>5

\* What a message does to the cursors: it removes some, or places one for its sender.
Placement(S, m) ==
  /\ S = [c \in Cursor |-> S[c]]
  /\ \A c \in Cursor : S[c] # NoCursor =>
       \/ S[c] = cursors[c] /\ (m.call = "gone" => cursors[c].owner # m.from)
       \/ /\ c = m.cursor /\ m.call # "gone"
          /\ \E at, idle : S[c] = [owner |-> m.from, at |-> at, idle |-> idle]
          /\ m.call = "show" \/ (Marked(c) /\ cursors[c].owner = m.from)

LEMMA EffectOf ==
  ASSUME StrayInv, NEW m \in Messages
  PROVE  /\ Placement(Effect(m)[1], m)
         /\ m.call = "hide" =>
              (Effect(m)[1][m.cursor] # NoCursor => cursors[m.cursor].owner # m.from)
         /\ m.call = "show" /\ ~Effect(m)[2] =>
              Effect(m)[1] = cursors /\ Marked(m.cursor) /\ cursors[m.cursor].owner # m.from
<1>0. m.cursor \in Cursor /\ m.call \in Calls
  BY DEF Messages
<1>1. PICK g \in [Cursor -> {cursors[c] : c \in Cursor}] : cursors = g
  BY DEF StrayInv
<1>2. cursors = [c \in Cursor |-> cursors[c]]
  BY <1>1
<1>3. m.call # "gone" => Placement(cursors, m)
  BY <1>2 DEF Placement
<1>4. ASSUME NEW x
      PROVE  LET S == [cursors EXCEPT ![m.cursor] = x]
             IN /\ S = [c \in Cursor |-> S[c]]
                /\ S[m.cursor] = x /\ \A c \in Cursor : c # m.cursor => S[c] = cursors[c]
  BY <1>0, <1>1
<1>5. ASSUME NEW idle, m.call # "gone", m.call = "show" \/ MayChange(m) PROVE Placement(Placed(m, idle), m)
  <2> DEFINE x == [owner |-> m.from, at |-> m.at, idle |-> idle]
             S == [cursors EXCEPT ![m.cursor] = x]
  <2>1. /\ S = [c \in Cursor |-> S[c]]
        /\ S[m.cursor] = x /\ \A c \in Cursor : c # m.cursor => S[c] = cursors[c]
    BY <1>4
  <2>2. Placed(m, idle) = S
    BY DEF Placed
  <2>3. \E at, j : x = [owner |-> m.from, at |-> at, idle |-> j]
    OBVIOUS
  <2>4. m.call = "show" \/ (Marked(m.cursor) /\ cursors[m.cursor].owner = m.from)
    BY <1>5 DEF MayChange, Marked
  <2> HIDE DEF S, x
  <2>5. Placement(S, m)
    BY <1>5, <2>1, <2>3, <2>4 DEF Placement
  <2> QED BY <2>2, <2>5
<1>6. CASE m.call = "status"
  <2>1. Effect(m)[1] = cursors
    BY <1>6 DEF Effect
  <2> QED BY <1>3, <1>6, <2>1
<1>7. CASE m.call = "gone"
  <2>1. Effect(m)[1] = [c \in Cursor |-> IF cursors[c] # NoCursor /\ cursors[c].owner = m.from
                             THEN NoCursor ELSE cursors[c]]
    BY <1>7 DEF Effect
  <2> DEFINE S == Effect(m)[1]
  <2>2. S = [c \in Cursor |-> S[c]]
    BY <2>1
  <2>3. \A c \in Cursor : S[c] # NoCursor => S[c] = cursors[c] /\ cursors[c].owner # m.from
    BY <2>1
  <2> HIDE DEF S
  <2>4. Placement(S, m)
    BY <2>2, <2>3 DEF Placement
  <2> QED BY <1>7, <2>4 DEF S
<1>8. CASE m.call = "show"
  <2>1. CASE cursors[m.cursor] = NoCursor \/ MayChange(m)
    <3>1. Effect(m) = <<Placed(m, TRUE), TRUE>>
      BY <1>8, <2>1 DEF Effect
    <3>2. Placement(Placed(m, TRUE), m)
      BY <1>5, <1>8
    <3>3. Effect(m)[1] = Placed(m, TRUE) /\ Effect(m)[2]
      BY <3>1
    <3> QED BY <1>8, <3>2, <3>3
  <2>2. CASE ~(cursors[m.cursor] = NoCursor \/ MayChange(m))
    <3>1. Effect(m)[1] = cursors
      BY <1>8, <2>2 DEF Effect
    <3>2. Marked(m.cursor) /\ cursors[m.cursor].owner # m.from
      BY <2>2 DEF MayChange, Marked
    <3> QED BY <1>3, <1>8, <3>1, <3>2
  <2> QED BY <2>1, <2>2
<1>9. CASE m.call = "move"
  <2>1. CASE MayChange(m)
    <3>1. Effect(m)[1] = Placed(m, FALSE)
      BY <1>9, <2>1 DEF Effect
    <3>2. Placement(Placed(m, FALSE), m)
      BY <1>5, <1>9, <2>1
    <3> QED BY <1>9, <3>1, <3>2
  <2>2. CASE ~MayChange(m)
    <3>1. Effect(m)[1] = cursors
      BY <1>9, <2>2 DEF Effect
    <3> QED BY <1>3, <1>9, <3>1
  <2> QED BY <2>1, <2>2
<1>10. CASE m.call = "hide"
  <2>1. CASE MayChange(m)
    <3> DEFINE S == [cursors EXCEPT ![m.cursor] = NoCursor]
    <3>1. Effect(m)[1] = S
      BY <1>10, <2>1 DEF Effect
    <3>2. /\ S = [c \in Cursor |-> S[c]]
          /\ S[m.cursor] = NoCursor /\ \A c \in Cursor : c # m.cursor => S[c] = cursors[c]
      BY <1>4
    <3> HIDE DEF S
    <3>3. Placement(S, m)
      BY <1>10, <3>2 DEF Placement
    <3> QED BY <1>10, <3>1, <3>2, <3>3
  <2>2. CASE ~MayChange(m)
    <3>1. Effect(m)[1] = cursors
      BY <1>10, <2>2 DEF Effect
    <3>2. Marked(m.cursor) => cursors[m.cursor].owner # m.from
      BY <2>2 DEF MayChange, Marked
    <3> QED BY <1>3, <1>10, <3>1, <3>2 DEF Marked
  <2> QED BY <2>1, <2>2
<1> QED BY <1>0, <1>6, <1>7, <1>8, <1>9, <1>10 DEF Calls

\* The Shell shows a cursor: whoever asked for it covers it.
LEMMA StrayServe == ASSUME BusInv, StrayInv, Serve PROVE StrayInv'
<1> DEFINE m == inbox[1]
<1>1. /\ inbox # <<>> /\ inbox' = Tail(inbox)
      /\ UNCHANGED <<up, conn, conns, owned, uncertain, op, phase>> /\ up
      /\ cursors' = Effect(Head(inbox))[1]
      /\ answer' = IF Head(inbox).live THEN (IF Effect(Head(inbox))[2] THEN "true" ELSE "false")
                   ELSE answer
  BY DEF Serve, clientVars
<1>2. /\ Len(inbox) \in Nat /\ Len(inbox) > 0 /\ Head(inbox) = m /\ m \in Messages
      /\ inbox' \in Seq(Messages) /\ Len(inbox') = Len(inbox) - 1
      /\ \A i \in 1..Len(inbox') : inbox'[i] = inbox[i + 1] /\ i + 1 \in 1..Len(inbox)
      /\ 1 \in 1..Len(inbox)
  BY <1>1 DEF BusInv
<1>3. m.from \in 1..conns /\ (m.live => 1 = Len(inbox) /\ Awaited(m)) /\ m.cursor \in Cursor
  BY <1>2 DEF BusInv, Messages
<1>4. m.call = "show" => CoveredBy(m.cursor, m.from, 1)
  BY <1>2 DEF StrayInv
<1>5. answer \in {"true", "false"} => m.call = "gone"
  BY <1>2 DEF StrayInv
<1> HIDE DEF m
<1>6. /\ Placement(cursors', m)
      /\ m.call = "hide" => (cursors'[m.cursor] # NoCursor => cursors[m.cursor].owner # m.from)
      /\ m.call = "show" /\ ~Effect(m)[2] =>
           cursors' = cursors /\ Marked(m.cursor) /\ cursors[m.cursor].owner # m.from
  BY <1>1, <1>2, EffectOf
<1>7. ASSUME NEW k \in Nat, NEW f, GoneAfter(k + 1, f) PROVE GoneAfter(k, f)'
  <2>1. PICK i \in 1..Len(inbox) : i > k + 1 /\ inbox[i].call = "gone" /\ inbox[i].from = f
    BY <1>7 DEF GoneAfter
  <2>2. /\ i - 1 \in 1..Len(inbox') /\ i - 1 > k
        /\ inbox'[i - 1] = inbox[(i - 1) + 1] /\ (i - 1) + 1 = i
    BY <1>2, <2>1
  <2>3. \E j \in 1..Len(inbox') : j > k /\ inbox'[j].call = "gone" /\ inbox'[j].from = f
    BY <2>1, <2>2
  <2> QED BY <2>3 DEF GoneAfter
<1>8. ASSUME NEW c \in Cursor, NEW f, NEW k \in Nat, CoveredBy(c, f, k + 1) PROVE CoveredBy(c, f, k)'
  BY <1>1, <1>7, <1>8 DEF CoveredBy, Cover
<1>9. ASSUME NEW c \in Cursor, Marked(c)'
      PROVE  \/ Marked(c) /\ cursors'[c].owner = cursors[c].owner
                /\ (m.call = "gone" => cursors[c].owner # m.from)
             \/ m.call = "show" /\ c = m.cursor /\ cursors'[c].owner = m.from
  <2>1. cursors'[c] # NoCursor
    BY <1>9 DEF Marked
  <2>2. CASE cursors'[c] = cursors[c] /\ (m.call = "gone" => cursors[c].owner # m.from)
    BY <2>1, <2>2 DEF Marked
  <2>3. CASE /\ c = m.cursor /\ m.call # "gone"
             /\ \E at, idle : cursors'[c] = [owner |-> m.from, at |-> at, idle |-> idle]
             /\ m.call = "show" \/ (Marked(c) /\ cursors[c].owner = m.from)
    <3>1. cursors'[c].owner = m.from
      BY <2>3
    <3> QED BY <2>3, <3>1
  <2> QED BY <1>6, <2>1, <2>2, <2>3 DEF Placement
<1>10. ASSUME NEW c \in Cursor, Marked(c)' PROVE Mark(c)'
  <2>1. cursors'[c] # NoCursor
    BY <1>9, <1>10 DEF Marked
  <2>2. CASE cursors'[c] = cursors[c]
    <3>1. Mark(c)
      BY <2>1, <2>2 DEF StrayInv, Marked
    <3> QED BY <1>1, <2>2, <3>1 DEF Mark
  <2>3. CASE \E at, idle : cursors'[c] = [owner |-> m.from, at |-> at, idle |-> idle]
    <3>1. PICK at, idle : cursors'[c] = [owner |-> m.from, at |-> at, idle |-> idle]
      BY <2>3
    <3>2. m.from \in 1..conns'
      BY <1>1, <1>3
    <3> QED BY <3>1, <3>2 DEF Mark
  <2> QED BY <1>6, <2>1, <2>2, <2>3 DEF Placement
<1>11. ASSUME NEW c \in Cursor, Marked(c)' PROVE CoveredBy(c, cursors[c].owner, 0)'
  <2>1. CASE m.call = "show" /\ c = m.cursor /\ cursors'[c].owner = m.from
    <3>1. \A f : f = m.from => CoveredBy(c, f, 0)'
      BY <1>4, <1>8, <2>1
    <3> QED BY <2>1, <3>1 DEF CoveredBy, GoneAfter, Cover
  <2>2. CASE /\ Marked(c) /\ cursors'[c].owner = cursors[c].owner
             /\ m.call = "gone" => cursors[c].owner # m.from
    <3>1. CoveredBy(c, cursors[c].owner, 0)
      BY <2>2 DEF StrayInv
    <3>2. CASE cursors[c].owner = conn
      BY <1>1, <2>2, <3>1, <3>2 DEF CoveredBy, Cover
    <3>3. CASE cursors[c].owner # conn
      <4>1. PICK i \in 1..Len(inbox) : i > 0 /\ inbox[i].call = "gone" /\ inbox[i].from = cursors[c].owner
        BY <3>1, <3>3 DEF CoveredBy, GoneAfter
      <4>2. i # 1
        BY <2>2, <4>1 DEF m
      <4>3. i > 0 + 1
        BY <4>1, <4>2
      <4>4. GoneAfter(0 + 1, cursors[c].owner)
        BY <4>1, <4>3 DEF GoneAfter
      <4>5. \A f : f = cursors[c].owner => GoneAfter(0, f)'
        BY <1>7, <4>4
      <4> QED BY <1>1, <2>2, <3>3, <4>5 DEF CoveredBy, GoneAfter
    <3> QED BY <3>2, <3>3
  <2> QED BY <1>9, <1>11, <2>1, <2>2
<1>12. ASSUME NEW i \in 1..Len(inbox'), inbox'[i].call = "show"
       PROVE  CoveredBy(inbox[i].cursor, inbox[i].from, i)'
  <2>1. /\ i \in Nat /\ i + 1 \in 1..Len(inbox) /\ inbox'[i] = inbox[i + 1]
        /\ inbox[i + 1] \in Messages
    BY <1>2, <1>12 DEF BusInv
  <2>2. inbox[i + 1].cursor \in Cursor
    BY <2>1 DEF Messages
  <2>3. CoveredBy(inbox[i + 1].cursor, inbox[i + 1].from, i + 1)
    BY <1>12, <2>1 DEF StrayInv
  <2>4. \A c, f : c = inbox[i + 1].cursor /\ f = inbox[i + 1].from => CoveredBy(c, f, i)'
    BY <1>8, <2>1, <2>2, <2>3
  <2> QED BY <2>1, <2>4 DEF CoveredBy, Cover, GoneAfter
<1>13. \E f \in [Cursor -> {cursors[c] : c \in Cursor}'] : cursors' = f
  <2>1. cursors' = [c \in Cursor |-> cursors'[c]]
    BY <1>6 DEF Placement
  <2> QED BY <2>1
<1>14. m.live => \A i \in 1..Len(inbox') : FALSE
  <2> SUFFICES ASSUME m.live PROVE Len(inbox') = 0
    OBVIOUS
  <2>1. Len(inbox) = 1
    BY <1>3
  <2> QED BY <1>2, <2>1
<1>15. answer' \in {"true", "false"} => \A i \in 1..Len(inbox') : inbox'[i].call = "gone"
  <2>1. CASE m.live
    BY <1>14, <2>1
  <2>2. CASE ~m.live
    BY <1>1, <1>2, <2>2 DEF StrayInv
  <2> QED BY <2>1, <2>2
<1>16. ASSUME Denied', Marked(op.cursor)' PROVE cursors'[op'.cursor].owner # conn'
  <2>0. op.cursor \in Cursor
    BY DEF BusInv
  <2>1. CASE ~m.live
    <3>1. Denied /\ answer \in {"true", "false"}
      BY <1>1, <1>2, <1>16, <2>1 DEF Denied
    <3>2. Marked(op.cursor) /\ cursors'[op.cursor].owner = cursors[op.cursor].owner
      BY <1>1, <1>5, <1>9, <1>16, <2>0, <3>1 DEF Marked
    <3> QED BY <1>1, <3>1, <3>2 DEF StrayInv
  <2>2. CASE m.live
    <3>1. m.call = Call[phase] /\ m.cursor = op.cursor /\ m.from = conn
      BY <1>3, <2>2 DEF Awaited
    <3>2. CASE phase = "hide"
      <4>1. m.call = "hide" /\ cursors'[m.cursor] # NoCursor
        BY <1>1, <1>16, <3>1, <3>2, CallOfPhase DEF Marked
      <4>2. cursors[m.cursor].owner # m.from
        BY <1>6, <4>1
      <4>3. cursors'[op.cursor].owner = cursors[op.cursor].owner
        BY <1>1, <1>9, <1>16, <2>0, <4>1 DEF Marked
      <4> QED BY <1>1, <3>1, <4>2, <4>3
    <3>3. CASE phase \in {"reshow", "create"} /\ answer' = "false"
      <4>1. m.call = "show" /\ ~Effect(m)[2]
        BY <1>1, <1>2, <2>2, <3>1, <3>3, CallOfPhase
      <4> QED BY <1>1, <1>6, <3>1, <4>1
    <3> QED BY <1>1, <1>16, <3>2, <3>3 DEF Denied
  <2> QED BY <2>1, <2>2
<1>17. ASSUME answer' = "failed", NEW c \in Cursor PROVE Unshown(c)'
  <2>1. ~m.live /\ answer = "failed"
    BY <1>1, <1>2, <1>17
  <2>2. \A i \in 1..Len(inbox) : inbox[i].call = "show" => inbox[i].from # conn
    <3> SUFFICES ASSUME NEW i \in 1..Len(inbox), inbox[i].call = "show" PROVE inbox[i].from # conn
      OBVIOUS
    <3>1. inbox[i] \in Messages
      BY DEF BusInv
    <3>2. inbox[i].cursor \in Cursor
      BY <3>1 DEF Messages
    <3> QED BY <2>1, <3>2 DEF StrayInv, Unshown
  <2>3. Marked(c) => cursors[c].owner # conn
    BY <2>1 DEF StrayInv, Unshown
  <2>4. m.call = "show" => m.from # conn
    BY <1>2, <2>2 DEF m
  <2>5. Marked(c)' => cursors'[c].owner # conn'
    BY <1>1, <1>9, <2>3, <2>4
  <2>6. \A i \in 1..Len(inbox') : inbox'[i].call = "show" => inbox'[i].from # conn'
    BY <1>1, <1>2, <2>2
  <2> QED BY <2>5, <2>6 DEF Unshown
<1>18. phase' \in {"move", "reshow", "settle", "hide"} => op'.cursor \in owned'
  BY <1>1 DEF StrayInv
<1>19. Denied' => (Marked(op.cursor)' => cursors'[op'.cursor].owner # conn')
  BY <1>16
<1> QED BY <1>1, <1>10, <1>11, <1>12, <1>13, <1>15, <1>17, <1>18, <1>19 DEF StrayInv

LEMMA IdleField ==
  ASSUME NEW O, NEW A, NEW B, NEW r \in [owner : O, at : A, idle : B], NEW x
  PROVE  [r EXCEPT !.idle = x] = [owner |-> r.owner, at |-> r.at, idle |-> x]
OBVIOUS

LEMMA StrayAnimation == ASSUME BusInv, StrayInv, AnimationEnds PROVE StrayInv'
<1>1. PICK c \in Cursor : Marked(c) /\ cursors' = [cursors EXCEPT ![c].idle = TRUE]
  BY DEF AnimationEnds, Marked
<1>0. PICK o \in 1..conns : \E a, b : cursors[c] = [owner |-> o, at |-> a, idle |-> b]
  BY <1>1 DEF StrayInv, Mark
<1>2. PICK a, b : cursors[c] = [owner |-> o, at |-> a, idle |-> b]
  BY <1>0
<1>3. UNCHANGED <<up, inbox, conn, conns, owned, uncertain, op, phase, answer>>
  BY DEF AnimationEnds, clientVars
<1> DEFINE x == [owner |-> o, at |-> a, idle |-> TRUE]
<1>4. [cursors[c] EXCEPT !.idle = TRUE] = x
  <2> DEFINE q == cursors[c]
  <2>1. q \in [owner : {o}, at : {a}, idle : {b}] /\ q.owner = o /\ q.at = a
    BY <1>2
  <2> HIDE DEF q
  <2>2. PICK y : y = TRUE
    OBVIOUS
  <2>3. [q EXCEPT !.idle = y] = [owner |-> q.owner, at |-> q.at, idle |-> y]
    BY <2>1, IdleField
  <2> QED BY <2>1, <2>2, <2>3 DEF q
<1>5. cursors' = [cursors EXCEPT ![c] = x]
  BY <1>1, <1>4
<1>6. x.owner = cursors[c].owner
  BY <1>2
<1>7. \E p \in 1..conns : \E d, e : x = [owner |-> p, at |-> d, idle |-> e]
  BY <1>0
<1> HIDE DEF x
<1>8. PICK g \in [Cursor -> {cursors[d] : d \in Cursor}] : cursors = g
  BY DEF StrayInv
<1>9. /\ cursors' = [d \in Cursor |-> cursors'[d]]
      /\ cursors'[c] = x /\ \A d \in Cursor : d # c => cursors'[d] = cursors[d]
  BY <1>5, <1>8
<1>10. \E f \in [Cursor -> {cursors[d] : d \in Cursor}'] : cursors' = f
  BY <1>9
<1>11. \A d \in Cursor : Marked(d)' => Marked(d) /\ cursors'[d].owner = cursors[d].owner
  BY <1>1, <1>6, <1>9 DEF Marked
<1>12. \A d \in Cursor : Marked(d)' => Mark(d)'
  <2> SUFFICES ASSUME NEW d \in Cursor, Marked(d)' PROVE Mark(d)'
    OBVIOUS
  <2>1. CASE d = c
    BY <1>3, <1>7, <1>9, <2>1 DEF Mark
  <2>2. CASE d # c
    <3>1. Mark(d)
      BY <1>11 DEF StrayInv
    <3> QED BY <1>3, <1>9, <2>2, <3>1 DEF Mark
  <2> QED BY <2>1, <2>2
<1>13. \A d \in Cursor : Marked(d)' => CoveredBy(d, cursors[d].owner, 0)'
  <2> SUFFICES ASSUME NEW d \in Cursor, Marked(d)' PROVE CoveredBy(d, cursors[d].owner, 0)'
    OBVIOUS
  <2>1. CoveredBy(d, cursors[d].owner, 0) /\ cursors'[d].owner = cursors[d].owner
    BY <1>11 DEF StrayInv
  <2> QED BY <1>3, <2>1 DEF CoveredBy, GoneAfter, Cover
<1>14. \A i \in 1..Len(inbox') : inbox'[i].call = "show" => CoveredBy(inbox[i].cursor, inbox[i].from, i)'
  BY <1>3 DEF StrayInv, CoveredBy, GoneAfter, Cover
<1>15. op.cursor \in Cursor
  BY DEF BusInv
<1>16. Denied' => (Marked(op.cursor)' => cursors'[op'.cursor].owner # conn')
  BY <1>3, <1>11, <1>15 DEF StrayInv, Denied, Marked
<1>17. answer' = "failed" => \A d \in Cursor : Unshown(d)'
  BY <1>3, <1>11 DEF StrayInv, Unshown
<1>18. ~up' => inbox' = <<>> /\ \A d \in Cursor : ~Marked(d)'
  BY <1>3, <1>11 DEF StrayInv
<1>19. /\ phase' \in {"move", "reshow", "settle", "hide"} => op'.cursor \in owned'
       /\ answer' \in {"true", "false"} => \A i \in 1..Len(inbox') : inbox'[i].call = "gone"
  BY <1>3 DEF StrayInv
<1> QED BY <1>10, <1>12, <1>13, <1>14, <1>16, <1>17, <1>18, <1>19 DEF StrayInv

LEMMA StrayStops == ASSUME BusInv, StrayInv, ShellStops PROVE StrayInv'
<1>1. /\ cursors' = [c \in Cursor |-> NoCursor] /\ inbox' = <<>>
      /\ UNCHANGED <<conn, conns, owned, uncertain, op, phase>>
  BY DEF ShellStops, clientVars
<1>2. Len(inbox') = 0 /\ \A i \in 1..Len(inbox') : FALSE
  BY <1>1
<1>3. \A c \in Cursor : ~Marked(c)'
  BY <1>1 DEF Marked
<1>4. op.cursor \in Cursor
  BY DEF BusInv
<1>5. \E f \in [Cursor -> {cursors[c] : c \in Cursor}'] : cursors' = f
  BY <1>1
<1>6. ~Marked(op.cursor)' /\ op' = op
  BY <1>1, <1>3, <1>4
<1> QED BY <1>1, <1>2, <1>3, <1>5, <1>6 DEF StrayInv, Unshown, Marked

\* No step leaves a cursor without an owner.
LEMMA StrayNext == ASSUME PlaceInv, BusInv, StrayInv, [MutationNext]_mutationVars PROVE StrayInv'
<1>0. op.cursor \in Cursor
  BY DEF BusInv
<1> USE DEF shellVars, clientVars
<1>1. CASE UNCHANGED indicatorVars
  BY <1>1, StraySame DEF indicatorVars
<1>2. CASE Serve
  BY <1>2, StrayServe
<1>3. CASE AnimationEnds
  BY <1>3, StrayAnimation
<1>4. CASE ShellStops
  BY <1>4, StrayStops
<1>5. CASE ShellStarts
  <2>1. UNCHANGED <<cursors, inbox, conn, conns, owned, uncertain, op, phase, answer>> /\ up'
    BY <1>5 DEF ShellStarts
  <2> QED BY <2>1 DEF StrayInv, CoveredBy, Cover, GoneAfter, Marked, Mark, Unshown, Denied
<1>6. CASE BusDrops
  <2>1. /\ Disconnected /\ UNCHANGED <<up, cursors, conns, owned, uncertain, op, phase>>
        /\ conn' = 0 /\ answer' \in {answer, "failed", "late"}
    BY <1>6 DEF BusDrops, Disconnected
  <2> QED BY <2>1, StrayOrphaned
<1>7. CASE Cleanup
  BY <1>7, StrayOrphaned DEF Cleanup
<1>8. CASE AnswerIsLate
  BY <1>8, StrayOrphaned DEF AnswerIsLate
<1>9. CASE Ask
  BY <1>9, StrayAsk
<1>10. CASE AskNobody
  <2>1. /\ UNCHANGED <<up, cursors, inbox, conn, conns, owned, uncertain, op, phase>>
        /\ answer' = "failed" /\ conn = 0
    BY <1>10 DEF AskNobody
  <2>2. \A c \in Cursor : Unshown(c)
    <3> SUFFICES ASSUME NEW c \in Cursor PROVE Unshown(c)
      OBVIOUS
    <3>1. Marked(c) => cursors[c].owner \in 1..conns
      BY DEF StrayInv, Mark
    <3> QED BY <2>1, <3>1 DEF BusInv, Unshown
  <2>3. ~Denied'
    BY <2>1 DEF Denied
  <2> QED BY <2>1, <2>2, <2>3 DEF StrayInv, CoveredBy, Cover, GoneAfter, Marked, Mark, Unshown
<1>11. CASE Client /\ ~Ask /\ ~AskNobody /\ ~AnswerIsLate
  BY <1>11, StrayClient
<1>12. CASE Abandon
  <2>1. /\ UNCHANGED <<up, cursors, inbox, conn, conns, owned, uncertain, op>> /\ answer' = "unsent"
        /\ phase' = "off" /\ phase = "check"
    BY <1>12 DEF Abandon
  <2> QED BY <2>1, StrayGoes DEF Cover
<1>13. CASE Begin
  <2>1. PICK c \in Cursor : (\E at \in Spot : BeginMove(c, at)) \/ BeginHide(c)
    BY <1>13 DEF Begin
  <2>2. ASSUME NEW at, NEW p \in {"check", "hide"}, BeginCursor(c, at, p), p = "hide" => c \in owned
        PROVE  StrayInv'
    <3>1. /\ UNCHANGED <<up, cursors, inbox, conn, conns, owned, uncertain>> /\ answer' = "unsent"
          /\ phase = "off" /\ phase' = p /\ op' = [cursor |-> c, at |-> at]
      BY <2>2 DEF BeginCursor
    <3>2. op'.cursor = c
      BY <3>1
    <3> QED BY <2>2, <3>1, <3>2, StrayGoes DEF Cover
  <2>3. CASE \E at \in Spot : BeginCursor(c, at, "check")
    BY <2>2, <2>3
  <2>4. CASE c \in owned /\ BeginCursor(c, op.at, "hide")
    BY <2>2, <2>4
  <2>5. CASE c \notin owned /\ BeginHide(c)
    BY <2>5, StraySame DEF BeginHide
  <2> QED BY <2>1, <2>3, <2>4, <2>5 DEF BeginMove, BeginHide
<1> QED BY <1>0, <1>1, <1>2, <1>3, <1>4, <1>5, <1>6, <1>7, <1>8, <1>9, <1>10, <1>11, <1>12,
           <1>13, StepOfIndicator DEF IndicatorNext, Desktop

\* However the Shell, the bus and late answers interleave with the client, no cursor stands that
\* nobody can move or hide any more.
THEOREM CursorsAccounted == Spec => []NoStrayCursor
<1> DEFINE Inv == PlaceInv /\ BusInv /\ StrayInv
<1>1. MutationInit => Inv
  BY PlaceInit, BusInit, StrayInit
<1>2. Inv /\ [MutationNext]_mutationVars => Inv'
  BY PlaceNext, BusNext, StrayNext
<1>3. Inv => NoStrayCursor
  <2> SUFFICES ASSUME BusInv, StrayInv, NEW c \in Cursor, cursors[c] # NoCursor
               PROVE  IF cursors[c].owner = conn
                      THEN c \in owned \cup uncertain \/ (phase # "off" /\ op.cursor = c)
                      ELSE \E i \in DOMAIN inbox : inbox[i].call = "gone" /\ inbox[i].from = cursors[c].owner
    BY DEF NoStrayCursor
  <2>1. CoveredBy(c, cursors[c].owner, 0)
    BY DEF StrayInv, Marked
  <2>2. DOMAIN inbox = 1..Len(inbox)
    BY DEF BusInv
  <2> QED BY <2>1, <2>2 DEF CoveredBy, Cover, GoneAfter
<1> HIDE DEF Inv
<1> QED BY <1>1, <1>2, <1>3, PTL DEF Spec

-----------------------------------------------------------------------------
(* Types. *)

\* What an action chooses once, and that a request is the one that was sent.
RequestInv ==
  /\ kind \in {"set", "range", "invoke"} /\ selector \in {"name", "locator"}
  /\ request # NoRequest => sent # 0 /\ request.to = sent

LEMMA RequestInit == MutationInit => RequestInv
BY DEF MutationInit, ActionInit, RequestInv

LEMMA RequestSame ==
  ASSUME RequestInv, UNCHANGED <<kind, selector, sent>>,
         request' = request \/ request' = NoRequest
  PROVE  RequestInv'
BY DEF RequestInv

\* What is sent goes to the element that was bound, and nothing else is ever under way.
LEMMA RequestNext ==
  ASSUME TargetInv, RequestInv, [MutationNext]_mutationVars
  PROVE  RequestInv'
<1> USE DEF appVars, callVars
<1>1. CASE UNCHANGED actionVars \/ DeadlinePasses \/ Aside
  BY <1>1, RequestSame DEF actionVars, DeadlinePasses, Aside
<1>2. CASE Application
  BY <1>2, RequestSame DEF Application, Restructure, Rename, SetMode, UserEdits, Changes, Execute,
     Decline
<1>3. CASE BeginStep
  <2>1. /\ kind' \in {"set", "range", "invoke"} /\ selector' \in {"name", "locator"}
        /\ UNCHANGED <<request, sent>>
    BY <1>3 DEF BeginStep, BeginAction
  <2> QED BY <2>1 DEF RequestInv
<1>4. CASE Issue
  <2>1. /\ UNCHANGED <<kind, selector>> /\ pc = "perform"
        /\ request' = [to |-> target.match, text |-> Expected]
        /\ sent' = target.match
    BY <1>4 DEF Issue
  <2>2. target.match # 0
    BY <2>1 DEF TargetInv, BoundInv, Bound
  <2> QED BY <2>1, <2>2 DEF RequestInv
<1>5. CASE ActionStep /\ ~Issue
  BY <1>5, RequestSame DEF ActionStep, CountKids, Visit, VisitFails, Refuse, BindTarget,
     TargetAgain, TargetAtDispatch, AlreadySatisfied, NotYetSatisfied, NotIssued, Receive,
     CallTimesOut, PostVerified, PostAgain, PostGivesUp, Finish, Answered
<1> QED BY <1>1, <1>2, <1>3, <1>4, <1>5, StepOfAction DEF ActionNext

\* The ranges of what an action works on, whatever the application does to its elements.
LEMMA ActionTypes == HonestInv /\ KidsInv /\ RequestInv => ActionTypeOK
<1> SUFFICES ASSUME HonestInv, KidsInv, RequestInv PROVE ActionTypeOK
  OBVIOUS
<1>1. kids \in Seq(Element)
  BY DEF KidsInv
<1>2. pc \in TargetPhase \cup VerifyPhase \cup {"ready", "perform", "reply", "done"}
  BY DEF HonestInv, Early, TargetPhase, VerifyPhase
<1>3. DOMAIN result = DOMAIN NoResult /\ \A f \in DOMAIN result : result[f] \in BOOLEAN
  <2>1. result \in Results
    BY DEF HonestInv
  <2>2. DOMAIN result = {"success", "issued", "applied", "unknown"}
    BY <2>1 DEF Results
  <2>3. DOMAIN NoResult = {"success", "issued", "applied", "unknown"}
    BY DEF NoResult
  <2>4. /\ result.success \in BOOLEAN /\ result.issued \in BOOLEAN
        /\ result.applied \in BOOLEAN /\ result.unknown \in BOOLEAN
    BY <2>1 DEF Results
  <2> QED BY <2>2, <2>3, <2>4
<1> QED BY <1>1, <1>2, <1>3 DEF ActionTypeOK, HonestInv, RequestInv

\* The table: a new cursor is only shown while there is a slot for it, and one that is moved or
\* shown again has its slot already.
TableInv ==
  /\ owned \subseteq Cursor /\ IsFiniteSet(owned) /\ Cardinality(owned) <= Limit
  /\ phase = "create" => Cardinality(owned) < Limit
  /\ phase \in {"move", "reshow"} => op.cursor \in owned

\* The answer: between operations nothing is under way, and a call that is awaited is the last
\* one the Shell has to handle.
AnswerInv ==
  /\ answer \in {"unsent", "pending", "true", "false"} \cup Errors
  /\ phase = "off" => answer = "unsent"
  /\ answer = "pending" => inbox # <<>> /\ inbox[Len(inbox)].live

\* What the Shell shows belongs to a connection of the client.
Styles == BOOLEAN
Shows == [owner : 1..conns, at : Spot, idle : Styles]
CursorsInv == cursors \in [Cursor -> Shows \cup {NoCursor}]

LEMMA TableInit == MutationInit => TableInv
<1>1. IsFiniteSet({}) /\ Cardinality({}) = 0
  BY FS_EmptySet
<1> QED BY <1>1, IndicatorAssumption DEF MutationInit, IndicatorInit, TableInv

LEMMA TableSame ==
  ASSUME TableInv, UNCHANGED <<owned, op>>, phase' \notin {"move", "reshow", "create"} \/ phase' = phase
  PROVE  TableInv'
BY DEF TableInv

\* A cursor enters the table only through the slot that was checked for it.
LEMMA TableNext == ASSUME PlaceInv, BusInv, TableInv, [MutationNext]_mutationVars PROVE TableInv'
<1>0. op.cursor \in Cursor
  BY DEF BusInv
<1> USE DEF shellVars, clientVars
<1>1. CASE UNCHANGED indicatorVars \/ Desktop
  BY <1>1, TableSame DEF indicatorVars, Desktop, Serve, AnimationEnds, ShellStops, ShellStarts,
     BusDrops
<1>2. CASE Ask \/ AskNobody \/ AnswerIsLate \/ Abandon
  BY <1>2, TableSame DEF Ask, AskNobody, AnswerIsLate, Abandon
<1>3. CASE CheckFails \/ MoveFails \/ Settled \/ NotSettled \/ SettleFails \/ HideFails
  BY <1>3, TableSame DEF CheckFails, MoveFails, Settled, NotSettled, SettleFails, HideFails, Done,
     Proceed
<1>4. CASE Checked
  <2>1. UNCHANGED <<owned, op>>
    BY <1>4 DEF Checked, Proceed
  <2>2. \/ op.cursor \in owned /\ phase' = "move"
        \/ Cardinality(owned) < Limit /\ phase' = "create"
    BY <1>4 DEF Checked, Proceed
  <2> QED BY <2>1, <2>2 DEF TableInv
<1>5. CASE Moved
  <2>1. UNCHANGED <<owned, op>> /\ phase = "move" /\ phase' \in {"settle", "reshow"}
    BY <1>5 DEF Moved, Proceed
  <2> QED BY <2>1 DEF TableInv
<1>6. CASE Shown
  <2>1. /\ phase \in {"reshow", "create"} /\ phase' = "settle"
        /\ owned' = owned \cup {op.cursor}
    BY <1>6 DEF Shown, Proceed
  <2>2. IsFiniteSet(owned) /\ Cardinality(owned) \in Nat
    BY FS_CardinalityType DEF TableInv
  <2>3. /\ IsFiniteSet(owned')
        /\ Cardinality(owned') = IF op.cursor \in owned THEN Cardinality(owned)
                                 ELSE Cardinality(owned) + 1
    BY <2>1, <2>2, FS_AddElement
  <2>4. Cardinality(owned') <= Limit
    BY <2>1, <2>2, <2>3, IndicatorAssumption DEF TableInv
  <2>5. owned' \subseteq Cursor
    BY <1>0, <2>1 DEF TableInv
  <2> QED BY <2>1, <2>3, <2>4, <2>5 DEF TableInv
<1>7. CASE Hidden \/ Cleanup
  <2>1. owned' \subseteq owned /\ phase' = "off"
    BY <1>7 DEF Hidden, Cleanup, Done, Proceed
  <2>2. IsFiniteSet(owned') /\ Cardinality(owned') <= Cardinality(owned)
    BY <2>1, FS_Subset DEF TableInv
  <2>3. Cardinality(owned') \in Nat /\ Cardinality(owned) \in Nat
    BY <2>2, FS_CardinalityType DEF TableInv
  <2>4. Cardinality(owned') <= Limit
    BY <2>2, <2>3, IndicatorAssumption DEF TableInv
  <2> QED BY <2>1, <2>2, <2>4 DEF TableInv
<1>8. CASE Begin
  <2>1. owned' = owned /\ (phase' \in {"check", "hide"} \/ UNCHANGED <<phase, op>>)
    BY <1>8 DEF Begin, BeginMove, BeginHide, BeginCursor
  <2> QED BY <2>1 DEF TableInv
<1> QED BY <1>0, <1>1, <1>2, <1>3, <1>4, <1>5, <1>6, <1>7, <1>8, StepOfIndicator
        DEF IndicatorNext, Client

LEMMA AnswerInit == MutationInit => AnswerInv
BY DEF MutationInit, IndicatorInit, AnswerInv

\* No call is under way before or after.
LEMMA AnswerFree ==
  ASSUME answer' \in {"unsent", "true", "false"} \cup Errors, phase' = "off" => answer' = "unsent"
  PROVE  AnswerInv'
BY DEF AnswerInv, Errors

LEMMA AnswerSame ==
  ASSUME AnswerInv, UNCHANGED <<answer, phase, inbox>> PROVE AnswerInv'
BY DEF AnswerInv

\* The answer comes with the last message; the others change nothing of what is awaited.
LEMMA AnswerServe == ASSUME BusInv, AnswerInv, Serve PROVE AnswerInv'
<1>1. /\ inbox # <<>> /\ inbox' = Tail(inbox) /\ UNCHANGED phase
      /\ inbox[1].live => answer' \in {"true", "false"}
      /\ ~inbox[1].live => answer' = answer
  BY DEF Serve, clientVars
<1>2. CASE inbox[1].live
  <2>1. 1 \in 1..Len(inbox)
    BY <1>1 DEF BusInv
  <2>2. phase # "off"
    BY <1>2, <2>1 DEF BusInv, Awaited
  <2> QED BY <1>1, <1>2, <2>2, AnswerFree
<1>3. CASE ~inbox[1].live
  <2>1. /\ Len(inbox) \in Nat /\ Len(inbox) > 0 /\ Len(inbox') = Len(inbox) - 1
        /\ \A i \in 1..Len(inbox') : inbox'[i] = inbox[i + 1]
    BY <1>1 DEF BusInv
  <2>2. ASSUME answer = "pending" PROVE inbox' # <<>> /\ inbox'[Len(inbox')].live
    <3>1. inbox[Len(inbox)].live
      BY <2>2 DEF AnswerInv
    <3>2. Len(inbox) # 1
      BY <1>3, <3>1
    <3>3. Len(inbox') \in 1..Len(inbox') /\ Len(inbox') + 1 = Len(inbox)
      BY <2>1, <3>2
    <3>4. inbox'[Len(inbox')] = inbox[Len(inbox)]
      BY <2>1, <3>3
    <3>5. inbox' # <<>>
      BY <3>3, EmptySeq
    <3> QED BY <3>1, <3>4, <3>5
  <2> QED BY <1>1, <1>3, <2>2 DEF AnswerInv
<1> QED BY <1>2, <1>3

LEMMA AnswerAsk == ASSUME BusInv, AnswerInv, Ask PROVE AnswerInv'
<1>1. phase # "off" /\ UNCHANGED phase
  BY DEF Ask
<1>2. CASE ~up
  BY <1>1, <1>2, AnswerFree DEF Ask, Errors
<1>3. CASE up
  <2> DEFINE m == [call |-> Call[phase], cursor |-> op.cursor, at |-> op.at, from |-> conn',
                   live |-> TRUE]
  <2>1. inbox' = Append(inbox, m) /\ answer' = "pending"
    BY <1>3 DEF Ask
  <2>2. m.live
    OBVIOUS
  <2> HIDE DEF m
  <2>3. /\ Len(inbox) \in Nat /\ Len(inbox') = Len(inbox) + 1
        /\ inbox'[Len(inbox) + 1] = m
    BY <2>1 DEF BusInv
  <2>4. inbox' # <<>>
    BY <2>3, EmptySeq
  <2>5. inbox'[Len(inbox')].live
    BY <2>2, <2>3
  <2> QED BY <1>1, <2>1, <2>4, <2>5 DEF AnswerInv
<1> QED BY <1>2, <1>3

LEMMA AnswerNext == ASSUME PlaceInv, BusInv, AnswerInv, [MutationNext]_mutationVars PROVE AnswerInv'
<1>0. op.cursor \in Cursor
  BY DEF BusInv
<1> USE DEF shellVars, clientVars
<1>1. CASE UNCHANGED indicatorVars \/ AnimationEnds \/ ShellStarts
  BY <1>1, AnswerSame DEF indicatorVars, AnimationEnds, ShellStarts
<1>2. CASE Serve
  BY <1>2, AnswerServe
<1>3. CASE ShellStops \/ BusDrops
  <2>1. /\ UNCHANGED phase
        /\ answer = "pending" => answer' \in {"failed", "late"}
        /\ answer # "pending" => answer' = answer
    BY <1>3 DEF ShellStops, BusDrops
  <2>2. answer' \in {"unsent", "true", "false"} \cup Errors
    BY <2>1 DEF AnswerInv, Errors
  <2>3. phase' = "off" => answer' = "unsent"
    BY <2>1 DEF AnswerInv
  <2> QED BY <2>2, <2>3, AnswerFree
<1>4. CASE Cleanup
  BY <1>4, AnswerFree DEF Cleanup, AnswerInv
<1>5. CASE Ask
  BY <1>5, AnswerAsk
<1>6. CASE AskNobody
  BY <1>6, AnswerFree DEF AskNobody, Errors
<1>7. CASE AnswerIsLate
  <2>1. answer' = "late" /\ UNCHANGED phase /\ phase # "off"
    BY <1>7 DEF AnswerIsLate, AnswerInv
  <2> QED BY <2>1, AnswerFree DEF Errors
<1>8. CASE CheckFails \/ Checked \/ Moved \/ Shown \/ MoveFails \/ Settled \/ NotSettled
           \/ SettleFails \/ Hidden \/ HideFails
  <2>1. answer' = "unsent"
    BY <1>8 DEF CheckFails, Checked, Moved, Shown, MoveFails, Settled, NotSettled, SettleFails,
       Hidden, HideFails, Done, Proceed
  <2> QED BY <2>1, AnswerFree
<1>9. CASE Abandon
  BY <1>9, AnswerFree DEF Abandon
<1>10. CASE Begin
  <2>1. answer' = "unsent" \/ UNCHANGED <<answer, phase, inbox>>
    BY <1>10 DEF Begin, BeginMove, BeginHide, BeginCursor
  <2> QED BY <2>1, AnswerFree, AnswerSame
<1> QED BY <1>0, <1>1, <1>2, <1>3, <1>4, <1>5, <1>6, <1>7, <1>8, <1>9, <1>10, StepOfIndicator
        DEF IndicatorNext, Desktop, Client

LEMMA CursorsInit == MutationInit => CursorsInv
BY DEF MutationInit, IndicatorInit, CursorsInv

\* More connections, the same cursors.
LEMMA CursorsSame ==
  ASSUME CursorsInv, cursors' = cursors, conns \in Nat, conns' \in {conns, conns + 1}
  PROVE  CursorsInv'
<1>1. 1..conns \subseteq 1..conns'
  OBVIOUS
<1>2. Shows \subseteq Shows'
  BY <1>1 DEF Shows
<1> QED BY <1>2 DEF CursorsInv

\* A cursor is shown for the connection that asked, and that one was opened.
LEMMA CursorsServe == ASSUME BusInv, CursorsInv, Serve PROVE CursorsInv'
<1> DEFINE m == Head(inbox)
           All == [Cursor -> Shows \cup {NoCursor}]
<1>1. /\ inbox # <<>> /\ UNCHANGED conns /\ cursors' = Effect(m)[1]
  BY DEF Serve
<1>2. m = inbox[1] /\ 1 \in 1..Len(inbox)
  BY <1>1 DEF BusInv
<1>3. m \in Messages /\ m.from \in 1..conns
  BY <1>2 DEF BusInv
<1> HIDE DEF m
<1>4. m.cursor \in Cursor /\ m.call \in Calls /\ m.at \in Spot
  BY <1>3 DEF Messages
<1>5. cursors \in All
  BY DEF CursorsInv
<1>6. ASSUME NEW x \in Shows \cup {NoCursor} PROVE [cursors EXCEPT ![m.cursor] = x] \in All
  BY <1>4, <1>5
<1>7. ASSUME NEW idle \in Styles PROVE Placed(m, idle) \in All
  <2>1. [owner |-> m.from, at |-> m.at, idle |-> idle] \in Shows
    BY <1>3, <1>4 DEF Shows
  <2> QED BY <1>6, <2>1 DEF Placed
<1>8. TRUE \in Styles /\ FALSE \in Styles
  BY DEF Styles
<1>9. CASE m.call \in {"show", "move"}
  <2>1. Effect(m)[1] \in {Placed(m, TRUE), Placed(m, FALSE), cursors}
    BY <1>9 DEF Effect
  <2> QED BY <1>1, <1>5, <1>7, <1>8, <2>1 DEF CursorsInv, Shows
<1>10. CASE m.call = "hide"
  <2>1. Effect(m)[1] \in {[cursors EXCEPT ![m.cursor] = NoCursor], cursors}
    BY <1>10 DEF Effect
  <2> QED BY <1>1, <1>5, <1>6, <2>1 DEF CursorsInv, Shows
<1>11. CASE m.call = "status"
  <2>1. Effect(m)[1] = cursors
    BY <1>11 DEF Effect
  <2> QED BY <1>1, <1>5, <2>1 DEF CursorsInv, Shows
<1>12. CASE m.call = "gone"
  <2>1. Effect(m)[1] = [c \in Cursor |-> IF cursors[c] # NoCursor /\ cursors[c].owner = m.from
                             THEN NoCursor ELSE cursors[c]]
    BY <1>12 DEF Effect
  <2>2. Effect(m)[1] \in All
    BY <1>5, <2>1
  <2> QED BY <1>1, <2>2 DEF CursorsInv, Shows
<1> QED BY <1>4, <1>9, <1>10, <1>11, <1>12 DEF Calls

LEMMA CursorsAnimation == ASSUME CursorsInv, AnimationEnds PROVE CursorsInv'
<1>1. PICK c \in Cursor : cursors[c] # NoCursor /\ cursors' = [cursors EXCEPT ![c].idle = TRUE]
  BY DEF AnimationEnds
<1> DEFINE x == [cursors[c] EXCEPT !.idle = TRUE]
<1>2. cursors[c] \in Shows /\ UNCHANGED conns
  BY <1>1 DEF CursorsInv, AnimationEnds
<1>3. TRUE \in Styles
  BY DEF Styles
<1>4. x \in Shows
  BY <1>2, <1>3 DEF Shows
<1>5. cursors' = [cursors EXCEPT ![c] = x]
  BY <1>1
<1> HIDE DEF x
<1>6. cursors' \in [Cursor -> Shows \cup {NoCursor}]
  BY <1>4, <1>5 DEF CursorsInv
<1> QED BY <1>2, <1>6 DEF CursorsInv, Shows

LEMMA CursorsNext == ASSUME PlaceInv, BusInv, CursorsInv, [MutationNext]_mutationVars PROVE CursorsInv'
<1>0. op.cursor \in Cursor /\ conns \in Nat
  BY DEF BusInv
<1> USE DEF shellVars, clientVars
<1>1. CASE UNCHANGED indicatorVars \/ ShellStarts \/ BusDrops
  BY <1>0, <1>1, CursorsSame DEF indicatorVars, ShellStarts, BusDrops
<1>2. CASE Serve
  BY <1>2, CursorsServe
<1>3. CASE AnimationEnds
  BY <1>3, CursorsAnimation
<1>4. CASE ShellStops
  BY <1>4 DEF ShellStops, CursorsInv
<1>5. CASE Ask \/ AskNobody \/ AnswerIsLate \/ Abandon \/ Cleanup
  <2>1. cursors' = cursors /\ conns' \in {conns, conns + 1}
    BY <1>5 DEF Ask, AskNobody, AnswerIsLate, Abandon, Cleanup
  <2> QED BY <1>0, <2>1, CursorsSame
<1>6. CASE CheckFails \/ Checked \/ Moved \/ Shown \/ MoveFails \/ Settled \/ NotSettled
           \/ SettleFails \/ Hidden \/ HideFails
  <2>1. UNCHANGED <<cursors, conns>>
    BY <1>6 DEF CheckFails, Checked, Moved, Shown, MoveFails, Settled, NotSettled, SettleFails,
       Hidden, HideFails, Done, Proceed
  <2> QED BY <1>0, <2>1, CursorsSame
<1>7. CASE Begin
  <2>1. UNCHANGED <<cursors, conns>>
    BY <1>7 DEF Begin, BeginMove, BeginHide, BeginCursor
  <2> QED BY <1>0, <2>1, CursorsSame
<1> QED BY <1>0, <1>1, <1>2, <1>3, <1>4, <1>5, <1>6, <1>7, StepOfIndicator
        DEF IndicatorNext, Desktop, Client

\* The ranges of the indicator; one call at a time is awaited, and the answer says so.
LEMMA IndicatorTypes ==
  BusInv /\ TableInv /\ AnswerInv /\ CursorsInv => IndicatorTypeOK
<1> SUFFICES ASSUME BusInv, TableInv, AnswerInv, CursorsInv PROVE IndicatorTypeOK
  OBVIOUS
<1> DEFINE Live == {i \in DOMAIN inbox : inbox[i].live}
<1>1. DOMAIN inbox = 1..Len(inbox) /\ Len(inbox) \in Nat
  BY DEF BusInv
<1>2. Live \subseteq {Len(inbox)}
  BY <1>1 DEF BusInv
<1>3. IsFiniteSet({Len(inbox)}) /\ Cardinality({Len(inbox)}) = 1
  BY FS_Singleton
<1>4. IsFiniteSet(Live) /\ Cardinality(Live) <= 1
  BY <1>2, <1>3, FS_Subset
<1>5. (\E i \in DOMAIN inbox : inbox[i].live) => answer = "pending"
  BY <1>1 DEF BusInv, Awaited
<1>6. ASSUME answer = "pending" PROVE \E i \in DOMAIN inbox : inbox[i].live
  <2>1. inbox # <<>> /\ inbox[Len(inbox)].live
    BY <1>6 DEF AnswerInv
  <2>2. inbox \in Seq(Messages)
    BY DEF BusInv
  <2>3. Len(inbox) # 0
    BY <2>1, <2>2, EmptySeq
  <2>4. Len(inbox) \in DOMAIN inbox
    BY <1>1, <2>3
  <2> QED BY <2>1, <2>4
<1>7. phase \in DOMAIN Call \cup {"off"}
  BY DEF BusInv, Call, Phases
<1>8. cursors \in [Cursor -> [owner : 1..conns, at : Spot, idle : BOOLEAN] \cup {NoCursor}]
  BY DEF CursorsInv, Shows, Styles
<1>9. conn \in 0..conns /\ owned \subseteq Cursor /\ Cardinality(owned) <= Limit
  BY DEF BusInv, TableInv
<1>10. answer \in {"unsent", "pending", "true", "false"} \cup Errors
  BY DEF AnswerInv
<1> HIDE DEF Live
<1>11. Cardinality({i \in DOMAIN inbox : inbox[i].live}) <= 1
  BY <1>4 DEF Live
<1> QED BY <1>5, <1>6, <1>7, <1>8, <1>9, <1>10, <1>11, Zenon DEF IndicatorTypeOK

\* The values that the action and the indicator can have; the table of owned cursors never
\* overflows, and at most one call on the bus is waited for.
THEOREM MutationTyped == Spec => [](ActionTypeOK /\ IndicatorTypeOK)
<1> DEFINE Inv == /\ KidsInv /\ TextInv /\ HonestInv /\ SearchInv /\ TargetInv /\ RequestInv
                  /\ PlaceInv /\ BusInv /\ TableInv /\ AnswerInv /\ CursorsInv
<1>1. MutationInit => Inv
  BY KidsInit, HonestInit, SearchInit, TargetInit, RequestInit, PlaceInit, BusInit, TableInit,
     AnswerInit, CursorsInit
<1>2. Inv /\ [MutationNext]_mutationVars => Inv'
  <2> SUFFICES ASSUME Inv, [MutationNext]_mutationVars PROVE Inv'
    OBVIOUS
  <2>1. KidsInv' /\ TextInv' /\ HonestInv' /\ SearchInv' /\ TargetInv' /\ RequestInv'
    BY KidsNext, TextNext, HonestNext, SearchNext, TargetNext, RequestNext
  <2>2. PlaceInv' /\ BusInv' /\ TableInv' /\ AnswerInv' /\ CursorsInv'
    BY PlaceNext, BusNext, TableNext, AnswerNext, CursorsNext
  <2> QED BY <2>1, <2>2
<1>3. Inv => ActionTypeOK /\ IndicatorTypeOK
  BY ActionTypes, IndicatorTypes
<1> HIDE DEF Inv
<1> QED BY <1>1, <1>2, <1>3, PTL DEF Spec
=============================================================================
