------------------------ MODULE IsolatedSession_proofs ------------------------
(***************************************************************************)
(* What the exchange with private children promises, for any number of     *)
(* slots, sessions, requests and stray lines.                              *)
(***************************************************************************)
EXTENDS IsolatedSession, TLAPS

\* Ranges, with the pipes as sequences; a free slot is clear.
Types ==
  /\ nextId \in 1..(MaxSessions + 1)
  /\ id \in [Slot -> SessionId \cup {NoSession}]
  /\ broken \in [Slot -> BOOLEAN]
  /\ sent \in [Slot -> 0..MaxRequests]
  /\ child \in [Slot -> {"none", "running", "exited"}]
  /\ busy \in [Slot -> 0..MaxRequests]
  /\ stray \in [Slot -> 0..MaxStray]
  /\ toChild \in [Slot -> Seq(0..MaxRequests)]
  /\ fromChild \in [Slot -> Seq(Response)]
  /\ handed \in Seq(SessionId)
  /\ \A k \in Slot : id[k] = NoSession =>
       /\ child[k] = "none" /\ ~broken[k] /\ sent[k] = 0 /\ busy[k] = NoRequest
       /\ toChild[k] = <<>> /\ fromChild[k] = <<>>
  /\ pc \in Phase /\ slot \in Slot
  /\ step \in {"initialize", "launch_app", "forward"}
  /\ large \in BOOLEAN
  /\ asked \in SessionId \cup {NoSession}

\* A call is about the session in its slot.
InSession ==
  /\ pc \in {"send", "read", "ok", "failed", "notify", "stop"} => id[slot] # NoSession
  /\ pc \in {"send", "read", "ok", "failed", "notify"} => asked = id[slot]
  /\ pc = "notify" => step = "initialize"

TypeInv == Types /\ InSession

\* What a child's group writes is the session's.
OwnLines == \A k \in Slot : \A line \in Range(fromChild[k]) : line.by = id[k]

\* Ids grow: those in use are distinct, and the one being launched was never handed out.
IdInv ==
  /\ \A k \in Slot : id[k] < nextId
  /\ \A j, k \in Slot : id[j] = id[k] /\ j # k => id[j] = NoSession
  /\ \A i \in DOMAIN handed : handed[i] < nextId
  /\ pc \in {"send", "read", "ok", "notify"} /\ step # "forward" =>
       \A i \in DOMAIN handed : handed[i] # id[slot]
  /\ IdsHandedOnce

\* All members of a sequence are plain, or all but one.
Plain(s, Z) == \A i \in DOMAIN s : s[i] \in Z
Single(s, Z) == \A i, j \in DOMAIN s : s[i] \notin Z /\ s[j] \notin Z => i = j

Notices == {NoRequest}
Strays == {line \in Response : line.kind = "stray"}

\* Nothing is owed by the child of slot k, or on its way to or from it.
Quiet(k) ==
  /\ ~broken[k]
  /\ busy[k] = NoRequest
  /\ Plain(toChild[k], Notices)
  /\ Plain(fromChild[k], Strays)

\* One request at most is in the pipe, worked on, or answered.
OneOutstanding(k) ==
  /\ ~broken[k]
  /\ Single(toChild[k], Notices) /\ Single(fromChild[k], Strays)
  /\ busy[k] # NoRequest => Plain(toChild[k], Notices)
  /\ ~Plain(fromChild[k], Strays) => busy[k] = NoRequest /\ Plain(toChild[k], Notices)

\* While a request is out, only its session is out of step; a call that failed
\* leaves the session in step or broken.
StepInv ==
  /\ pc \notin {"cleanup", "ended"} =>
       \A k \in Slot : k # slot \/ pc \in {"idle", "send", "ok", "notify"} => Quiet(k)
  /\ pc = "read" => OneOutstanding(slot)
  /\ pc = "failed" => broken[slot] \/ Quiet(slot)

-----------------------------------------------------------------------------
(* Sequences *)

\* What Append and Tail do to the members of a sequence.
LEMMA RangeAppend ==
  ASSUME NEW S, NEW s \in Seq(S), NEW e \in S
  PROVE  Range(Append(s, e)) = Range(s) \cup {e}
<1>1. /\ DOMAIN s = 1..Len(s) /\ Len(s) \in Nat
      /\ DOMAIN Append(s, e) = 1..(Len(s) + 1)
      /\ \A i \in 1..Len(s) : Append(s, e)[i] = s[i]
      /\ Append(s, e)[Len(s) + 1] = e
  OBVIOUS
<1> QED
  BY <1>1 DEF Range

\* What is left of a sequence was in it.
LEMMA RangeTail ==
  ASSUME NEW S, NEW s \in Seq(S), s # <<>>
  PROVE  Range(Tail(s)) \subseteq Range(s) /\ Head(s) \in Range(s)
<1>1. /\ DOMAIN s = 1..Len(s) /\ Len(s) \in Nat \ {0}
      /\ DOMAIN Tail(s) = 1..(Len(s) - 1)
      /\ \A i \in 1..(Len(s) - 1) : Tail(s)[i] = s[i + 1]
      /\ Head(s) = s[1]
  OBVIOUS
<1> QED
  BY <1>1 DEF Range

\* The head of a sequence is a member.
LEMMA HeadTyped ==
  ASSUME NEW S, NEW s \in Seq(S), s # <<>>
  PROVE  Head(s) \in S
OBVIOUS

\* A plain member may be added anywhere, another one where there is none yet.
LEMMA AppendPlain ==
  ASSUME NEW S, NEW s \in Seq(S), NEW Z, NEW e \in S, e \in Z
  PROVE  /\ Plain(s, Z) => Plain(Append(s, e), Z)
         /\ Single(s, Z) => Single(Append(s, e), Z)
         /\ Plain(Append(s, e), Z) => Plain(s, Z)
<1>1. /\ DOMAIN s = 1..Len(s) /\ Len(s) \in Nat
      /\ DOMAIN Append(s, e) = 1..(Len(s) + 1)
      /\ \A i \in 1..Len(s) : Append(s, e)[i] = s[i]
      /\ Append(s, e)[Len(s) + 1] = e
  OBVIOUS
<1>2. \A i \in DOMAIN Append(s, e) : i \in DOMAIN s \/ i = Len(s) + 1
  BY <1>1
<1>3. \A i \in DOMAIN s : i \in DOMAIN Append(s, e) /\ Append(s, e)[i] = s[i]
  BY <1>1
<1> QED
  BY <1>1, <1>2, <1>3 DEF Plain, Single

\* A plain sequence may get one member of any kind.
LEMMA AppendSingle ==
  ASSUME NEW S, NEW s \in Seq(S), NEW Z, NEW e \in S, Plain(s, Z)
  PROVE  Single(Append(s, e), Z)
<1>1. /\ DOMAIN s = 1..Len(s) /\ Len(s) \in Nat
      /\ DOMAIN Append(s, e) = 1..(Len(s) + 1)
      /\ \A i \in 1..Len(s) : Append(s, e)[i] = s[i]
  OBVIOUS
<1>2. \A i \in DOMAIN Append(s, e) :
        i = Len(s) + 1 \/ (i \in DOMAIN s /\ Append(s, e)[i] = s[i])
  BY <1>1
<1> QED
  BY <1>2 DEF Plain, Single

\* Without its head a sequence is as plain as before, and plain if the head was not.
LEMMA TailPlain ==
  ASSUME NEW S, NEW s \in Seq(S), NEW Z, s # <<>>
  PROVE  /\ Plain(s, Z) => Head(s) \in Z /\ Plain(Tail(s), Z)
         /\ Single(s, Z) => Single(Tail(s), Z)
         /\ Single(s, Z) /\ Head(s) \notin Z => Plain(Tail(s), Z)
         /\ Head(s) \in Z /\ Plain(Tail(s), Z) => Plain(s, Z)
<1>1. /\ DOMAIN s = 1..Len(s) /\ Len(s) \in Nat \ {0}
      /\ DOMAIN Tail(s) = 1..(Len(s) - 1)
      /\ \A i \in 1..(Len(s) - 1) : Tail(s)[i] = s[i + 1]
      /\ Head(s) = s[1]
  OBVIOUS
<1>2. \A i \in DOMAIN Tail(s) :
        i + 1 \in DOMAIN s /\ i + 1 # 1 /\ Tail(s)[i] = s[i + 1]
  BY <1>1
<1>3. 1 \in DOMAIN s /\ s[1] = Head(s)
  BY <1>1
<1>4. \A i, j \in DOMAIN Tail(s) : i + 1 = j + 1 => i = j
  BY <1>1
<1>5. \A i \in DOMAIN s : i = 1 \/ (i - 1 \in DOMAIN Tail(s) /\ Tail(s)[i - 1] = s[i])
  BY <1>1
<1> QED
  BY <1>2, <1>3, <1>4, <1>5 DEF Plain, Single

-----------------------------------------------------------------------------
(* Types *)

\* A server starts without sessions.
LEMMA InitTyped == Init => TypeInv
<1> SUFFICES ASSUME Init PROVE TypeInv
  OBVIOUS
<1>1. /\ nextId \in 1..(MaxSessions + 1) /\ sent \in [Slot -> 0..MaxRequests]
      /\ busy \in [Slot -> 0..MaxRequests] /\ stray \in [Slot -> 0..MaxStray]
  BY BoundsAssumption DEF Init, NoRequest
<1>2. /\ toChild \in [Slot -> Seq(0..MaxRequests)] /\ fromChild \in [Slot -> Seq(Response)]
      /\ handed \in Seq(SessionId)
  BY DEF Init
<1>3. InSession
  BY DEF Init, InSession
<1> QED
  BY <1>1, <1>2, <1>3 DEF Init, TypeInv, Types, Phase

\* The members of a sequence are in its range.
LEMMA RangeOfSeq ==
  ASSUME NEW S, NEW s \in Seq(S)
  PROVE  Range(s) \subseteq S
BY DEF Range

\* The module's type invariant follows.
LEMMA TypesImply == Types => TypeOK
<1> SUFFICES ASSUME Types PROVE TypeOK
  OBVIOUS
<1>1. Range(handed) \subseteq SessionId
  BY RangeOfSeq DEF Types
<1>2. ASSUME NEW k \in Slot
      PROVE  Range(toChild[k]) \subseteq 0..MaxRequests /\ Range(fromChild[k]) \subseteq Response
  <2>1. toChild[k] \in Seq(0..MaxRequests) /\ fromChild[k] \in Seq(Response)
    BY DEF Types
  <2> QED
    BY <2>1, RangeOfSeq
<1> QED
  BY <1>1, <1>2 DEF Types, TypeOK

\* A count below its bound may grow by one.
LEMMA CountUp ==
  ASSUME NEW n \in Nat, NEW m \in 0..n, m < n
  PROVE  m + 1 \in 0..n
OBVIOUS

\* What is left of a typed sequence, and what one more member makes of it, is typed.
LEMMA TailTyped == ASSUME NEW S, NEW s \in Seq(S), s # <<>> PROVE Tail(s) \in Seq(S)
OBVIOUS

LEMMA AppendTyped == ASSUME NEW S, NEW s \in Seq(S), NEW e \in S PROVE Append(s, e) \in Seq(S)
OBVIOUS

\* The fields of one slot.
LEMMA SlotTypes ==
  ASSUME Types, NEW k \in Slot
  PROVE  /\ toChild[k] \in Seq(0..MaxRequests) /\ fromChild[k] \in Seq(Response)
         /\ sent[k] \in 0..MaxRequests /\ busy[k] \in 0..MaxRequests
         /\ id[k] \in 0..MaxSessions
<1>1. id[k] \in SessionId \cup {NoSession} /\ MaxSessions \in Nat
  BY BoundsAssumption DEF Types
<1>2. id[k] \in 0..MaxSessions
  BY <1>1 DEF SessionId, NoSession
<1> QED
  BY <1>2 DEF Types

\* What a child answers is a response.
LEMMA AnswerTyped ==
  ASSUME Types, NEW k \in Slot, NEW kind \in {"result", "isError", "error"},
         id[k] # NoSession, busy[k] # NoRequest
  PROVE  /\ [kind |-> kind, number |-> busy[k], by |-> id[k]] \in Response
         /\ id[k] \in SessionId
<1>1. busy[k] \in 0..MaxRequests /\ MaxRequests \in Nat /\ id[k] \in SessionId \cup {NoSession}
  BY BoundsAssumption DEF Types
<1>2. busy[k] \in 1..MaxRequests /\ id[k] \in SessionId
  BY <1>1 DEF NoRequest
<1> QED
  BY <1>2 DEF Response

\* A slot that is cleared has the ranges of a free one.
LEMMA ClearTyped ==
  ASSUME Types, NEW k \in Slot, ClearSlot(k)
  PROVE  /\ toChild' \in [Slot -> Seq(0..MaxRequests)] /\ fromChild' \in [Slot -> Seq(Response)]
         /\ busy' \in [Slot -> 0..MaxRequests] /\ sent' \in [Slot -> 0..MaxRequests]
         /\ stray' \in [Slot -> 0..MaxStray] /\ broken' \in [Slot -> BOOLEAN]
         /\ id' \in [Slot -> SessionId \cup {NoSession}]
         /\ child' \in [Slot -> {"none", "running", "exited"}]
<1>1. 0 \in 0..MaxRequests /\ 0 \in 0..MaxStray
  BY BoundsAssumption
<1>2. toChild' \in [Slot -> Seq(0..MaxRequests)] /\ fromChild' \in [Slot -> Seq(Response)]
  BY DEF Types, ClearSlot
<1>3. busy' \in [Slot -> 0..MaxRequests] /\ sent' \in [Slot -> 0..MaxRequests]
  BY <1>1 DEF Types, ClearSlot, NoRequest
<1>4. stray' \in [Slot -> 0..MaxStray] /\ broken' \in [Slot -> BOOLEAN]
  BY <1>1 DEF Types, ClearSlot
<1>5. /\ id' \in [Slot -> SessionId \cup {NoSession}]
      /\ child' \in [Slot -> {"none", "running", "exited"}]
  BY DEF Types, ClearSlot
<1> QED
  BY <1>2, <1>3, <1>4, <1>5

\* A request goes out while its number is in range.
LEMMA SendTyped ==
  ASSUME Types, SendRequest
  PROVE  sent[slot] + 1 \in 0..MaxRequests /\ toChild[slot] \in Seq(0..MaxRequests)
<1>1. slot \in Slot /\ sent[slot] < MaxRequests /\ MaxRequests \in Nat
  BY BoundsAssumption DEF Types, SendRequest
<1>2. sent[slot] \in 0..MaxRequests /\ toChild[slot] \in Seq(0..MaxRequests)
  BY <1>1, SlotTypes
<1> QED
  BY <1>1, <1>2, CountUp

\* Every step keeps the ranges, and a free slot is clear.
LEMMA TypeStep ==
  ASSUME TypeInv, [Next]_vars
  PROVE  TypeInv'
<1>0. Types
  BY DEF TypeInv
<1>a. \A k \in Slot : /\ toChild[k] \in Seq(0..MaxRequests) /\ fromChild[k] \in Seq(Response)
                      /\ sent[k] \in 0..MaxRequests /\ busy[k] \in 0..MaxRequests
                      /\ id[k] \in 0..MaxSessions
  BY <1>0, SlotTypes
<1>b. \A k \in Slot : /\ toChild[k] # <<>> => Tail(toChild[k]) \in Seq(0..MaxRequests)
                      /\ fromChild[k] # <<>> => Tail(fromChild[k]) \in Seq(Response)
  BY <1>a, TailTyped
<1>c. SendRequest => Append(toChild[slot], sent[slot] + 1) \in Seq(0..MaxRequests)
                     /\ sent[slot] + 1 \in 0..MaxRequests
  BY <1>0, SendTyped, AppendTyped
<1>d. \A k \in Slot : ClearSlot(k) =>
        /\ toChild' \in [Slot -> Seq(0..MaxRequests)] /\ fromChild' \in [Slot -> Seq(Response)]
        /\ busy' \in [Slot -> 0..MaxRequests] /\ sent' \in [Slot -> 0..MaxRequests]
        /\ stray' \in [Slot -> 0..MaxStray] /\ broken' \in [Slot -> BOOLEAN]
        /\ id' \in [Slot -> SessionId \cup {NoSession}]
        /\ child' \in [Slot -> {"none", "running", "exited"}]
  BY <1>0, ClearTyped
<1>e. \A k \in Slot : \A kind \in {"result", "isError", "error"} :
        id[k] # NoSession /\ busy[k] # NoRequest =>
          /\ [kind |-> kind, number |-> busy[k], by |-> id[k]] \in Response
          /\ id[k] \in SessionId
  BY <1>0, AnswerTyped
<1> USE BoundsAssumption DEF TypeInv, Types, InSession, Phase, NoRequest, NoSession, SessionId,
       slotVars, childVars, callVars
<1>1. CASE SendRequest
  <2>1. /\ Append(toChild[slot], sent[slot] + 1) \in Seq(0..MaxRequests)
        /\ sent[slot] + 1 \in 0..MaxRequests
    BY <1>c, <1>1
  <2>2. toChild' \in [Slot -> Seq(0..MaxRequests)]
    BY <2>1, <1>1 DEF SendRequest
  <2>3. sent' \in [Slot -> 0..MaxRequests]
    BY <2>1, <1>1 DEF SendRequest
  <2> QED
    BY <2>2, <2>3, <1>1 DEF SendRequest, Goto
<1>2. CASE SendFails
  BY <1>2 DEF SendFails, BreakSession, Goto
<1>3. CASE ReadAnswer
  <2>1. Tail(fromChild[slot]) \in Seq(Response)
    BY <1>b, <1>3 DEF ReadAnswer
  <2>2. fromChild' \in [Slot -> Seq(Response)]
    BY <2>1, <1>3 DEF ReadAnswer
  <2> QED
    BY <2>2, <1>3 DEF ReadAnswer, Goto, Answers
<1>4. CASE ReadRpcError
  <2>1. Tail(fromChild[slot]) \in Seq(Response)
    BY <1>b, <1>4 DEF ReadRpcError
  <2>2. fromChild' \in [Slot -> Seq(Response)]
    BY <2>1, <1>4 DEF ReadRpcError
  <2> QED
    BY <2>2, <1>4 DEF ReadRpcError, Goto
<1>5. CASE ReadMismatch
  <2>1. Tail(fromChild[slot]) \in Seq(Response)
    BY <1>b, <1>5 DEF ReadMismatch
  <2>2. fromChild' \in [Slot -> Seq(Response)]
    BY <2>1, <1>5 DEF ReadMismatch
  <2> QED
    BY <2>2, <1>5 DEF ReadMismatch, BreakSession, Goto
<1>6. CASE ReadExtra
  <2>1. fromChild' \in [Slot -> Seq(Response)]
    BY <1>6 DEF ReadExtra
  <2> QED
    BY <2>1, <1>6 DEF ReadExtra, BreakSession, Goto
<1>7. CASE ReadEof
  BY <1>7 DEF ReadEof, BreakSession, Goto
<1>8. CASE ReadTimesOut
  BY <1>8 DEF ReadTimesOut, BreakSession, Goto
<1>9. CASE Initialized
  BY <1>9 DEF Initialized, Goto
<1>10. CASE Notify
  <2>1. Append(toChild[slot], 0) \in Seq(0..MaxRequests)
    BY <1>a
  <2>2. toChild' \in [Slot -> Seq(0..MaxRequests)]
    BY <2>1, <1>10 DEF Notify
  <2> QED
    BY <2>2, <1>10 DEF Notify
<1>11. CASE NotifyFails
  BY <1>11 DEF NotifyFails, BreakSession, Goto
<1>12. CASE Launched
  <2>1. id[slot] \in SessionId
    BY <1>a, <1>12 DEF Launched
  <2>2. handed' \in Seq(SessionId)
    BY <2>1, <1>12 DEF Launched
  <2> QED
    BY <2>2, <1>12 DEF Launched
<1>13. CASE Forwarded
  BY <1>13 DEF Forwarded, Goto
<1>14. CASE StartFailed
  BY <1>14 DEF StartFailed, Goto
<1>15. CASE ForwardFailed
  BY <1>15 DEF ForwardFailed, Goto
<1>16. CASE StopSession
  <2>1. /\ toChild' \in [Slot -> Seq(0..MaxRequests)] /\ fromChild' \in [Slot -> Seq(Response)]
        /\ busy' \in [Slot -> 0..MaxRequests] /\ sent' \in [Slot -> 0..MaxRequests]
        /\ stray' \in [Slot -> 0..MaxStray] /\ broken' \in [Slot -> BOOLEAN]
        /\ id' \in [Slot -> SessionId \cup {NoSession}]
        /\ child' \in [Slot -> {"none", "running", "exited"}]
    BY <1>d, <1>16 DEF StopSession
  <2>2. ASSUME NEW j \in Slot, id'[j] = NoSession
        PROVE  /\ child'[j] = "none" /\ ~broken'[j] /\ sent'[j] = 0 /\ busy'[j] = NoRequest
               /\ toChild'[j] = <<>> /\ fromChild'[j] = <<>>
    BY <1>16, <2>2 DEF StopSession, ClearSlot
  <2> QED
    BY <2>1, <2>2, <1>16 DEF StopSession, ClearSlot, Goto
<1>17. CASE CleanupEnds
  BY <1>17 DEF CleanupEnds, Goto
<1>18. CASE InputEnds
  BY <1>18 DEF InputEnds, Goto
<1>19. ASSUME NEW k \in Slot, CleanupSession(k) PROVE TypeInv'
  <2>1. /\ toChild' \in [Slot -> Seq(0..MaxRequests)] /\ fromChild' \in [Slot -> Seq(Response)]
        /\ busy' \in [Slot -> 0..MaxRequests] /\ sent' \in [Slot -> 0..MaxRequests]
        /\ stray' \in [Slot -> 0..MaxStray] /\ broken' \in [Slot -> BOOLEAN]
        /\ id' \in [Slot -> SessionId \cup {NoSession}]
        /\ child' \in [Slot -> {"none", "running", "exited"}]
    BY <1>d, <1>19 DEF CleanupSession
  <2>2. ASSUME NEW j \in Slot, id'[j] = NoSession
        PROVE  /\ child'[j] = "none" /\ ~broken'[j] /\ sent'[j] = 0 /\ busy'[j] = NoRequest
               /\ toChild'[j] = <<>> /\ fromChild'[j] = <<>>
    BY <1>19, <2>2 DEF CleanupSession, ClearSlot
  <2> QED
    BY <2>1, <2>2, <1>19 DEF CleanupSession, ClearSlot, Goto
<1>20. ASSUME NEW k \in Slot, StartSession(k) PROVE TypeInv'
  <2>1. /\ id' \in [Slot -> SessionId \cup {NoSession}] /\ id'[k] = nextId /\ nextId # NoSession
        /\ nextId' \in 1..(MaxSessions + 1) /\ asked' \in SessionId
        /\ child' \in [Slot -> {"none", "running", "exited"}]
    BY <1>20 DEF StartSession, NewSessionId
  <2>2. \A j \in Slot : j # k => id'[j] = id[j] /\ child'[j] = child[j]
    BY <1>20 DEF StartSession
  <2>3. UNCHANGED <<broken, sent, busy, toChild, fromChild, stray, handed>>
    BY <1>20 DEF StartSession
  <2>4. ASSUME NEW j \in Slot, id'[j] = NoSession
        PROVE  /\ child'[j] = "none" /\ ~broken'[j] /\ sent'[j] = 0 /\ busy'[j] = NoRequest
               /\ toChild'[j] = <<>> /\ fromChild'[j] = <<>>
    <3>1. j # k /\ id[j] = NoSession /\ child'[j] = child[j]
      BY <2>1, <2>2, <2>4
    <3> QED
      BY <2>3, <3>1
  <2>5. /\ pc' = "send" /\ slot' = k /\ step' = "initialize" /\ large' = FALSE
        /\ asked' = id'[slot']
    BY <2>1, <1>20 DEF StartSession, NewSessionId
  <2> QED
    BY <2>1, <2>3, <2>4, <2>5
<1>21. ASSUME NEW k \in Slot, CloseSession(k) PROVE TypeInv'
  BY <1>21 DEF CloseSession
<1>22. ASSUME NEW k \in Slot, NEW l \in BOOLEAN, ForwardTool(k, l) PROVE TypeInv'
  BY <1>22 DEF ForwardTool
<1>23. ASSUME NEW k \in Slot, ChildReads(k) PROVE TypeInv'
  <2>0. toChild[k] \in Seq(0..MaxRequests) /\ toChild[k] # <<>>
    BY <1>a, <1>23 DEF ChildReads
  <2>1. Head(toChild[k]) \in 0..MaxRequests
    BY <2>0, HeadTyped
  <2>4. Tail(toChild[k]) \in Seq(0..MaxRequests)
    BY <2>0
  <2>2. toChild' \in [Slot -> Seq(0..MaxRequests)] /\ busy' \in [Slot -> 0..MaxRequests]
    BY <2>1, <2>4, <1>23 DEF ChildReads
  <2>3. id[k] # NoSession
    BY <1>23 DEF ChildReads
  <2> QED
    BY <2>2, <2>3, <1>23 DEF ChildReads
<1>24. ASSUME NEW k \in Slot, StrayLine(k) PROVE TypeInv'
  <2>1. id[k] # NoSession /\ id[k] \in SessionId
    BY <1>24 DEF StrayLine
  <2>2. [kind |-> "stray", number |-> NoRequest, by |-> id[k]] \in Response
    BY <2>1, <1>a, <1>24 DEF StrayLine, Response
  <2>3. Append(fromChild[k], [kind |-> "stray", number |-> NoRequest, by |-> id[k]]) \in Seq(Response)
    BY <1>a, <2>2
  <2>4. fromChild' \in [Slot -> Seq(Response)]
    BY <2>3, <1>24 DEF StrayLine
  <2>6. stray[k] \in 0..MaxStray /\ stray[k] < MaxStray
    BY <1>24 DEF StrayLine
  <2>8. MaxStray \in Nat
    OBVIOUS
  <2>7. stray[k] + 1 \in 0..MaxStray
    BY <2>6, <2>8, CountUp
  <2>5. stray' \in [Slot -> 0..MaxStray]
    BY <2>7, <1>24 DEF StrayLine
  <2>9. ASSUME NEW j \in Slot, id'[j] = NoSession
        PROVE  /\ child'[j] = "none" /\ ~broken'[j] /\ sent'[j] = 0 /\ busy'[j] = NoRequest
               /\ toChild'[j] = <<>> /\ fromChild'[j] = <<>>
    <3>1. j # k /\ id[j] = NoSession
      BY <2>1, <2>9, <1>24 DEF StrayLine
    <3> QED
      BY <3>1, <1>24 DEF StrayLine
  <2> QED
    BY <2>1, <2>4, <2>5, <2>9, <1>24 DEF StrayLine
<1>25. ASSUME NEW k \in Slot, ChildExits(k) PROVE TypeInv'
  <2>1. id[k] # NoSession
    BY <1>25 DEF ChildExits
  <2>6. child' \in [Slot -> {"none", "running", "exited"}]
    BY <1>25 DEF ChildExits
  <2>5. busy' \in [Slot -> 0..MaxRequests]
    BY <1>25 DEF ChildExits
  <2>9. ASSUME NEW j \in Slot, id'[j] = NoSession
        PROVE  /\ child'[j] = "none" /\ ~broken'[j] /\ sent'[j] = 0 /\ busy'[j] = NoRequest
               /\ toChild'[j] = <<>> /\ fromChild'[j] = <<>>
    <3>1. j # k /\ id[j] = NoSession
      BY <2>1, <2>9, <1>25 DEF ChildExits
    <3> QED
      BY <3>1, <1>25 DEF ChildExits
  <2> QED
    BY <2>1, <2>5, <2>6, <2>9, <1>25 DEF ChildExits
<1>26. ASSUME NEW k \in Slot, NEW kind \in {"result", "isError", "error"}, ChildAnswers(k, kind)
       PROVE TypeInv'
  <2>1. id[k] # NoSession /\ busy[k] # NoRequest
    BY <1>26 DEF ChildAnswers
  <2>2. [kind |-> kind, number |-> busy[k], by |-> id[k]] \in Response
    BY <2>1, <1>e
  <2>3. Append(fromChild[k], [kind |-> kind, number |-> busy[k], by |-> id[k]]) \in Seq(Response)
    BY <1>a, <2>2, AppendTyped
  <2>4. fromChild' \in [Slot -> Seq(Response)]
    BY <2>3, <1>26 DEF ChildAnswers
  <2>5. busy' \in [Slot -> 0..MaxRequests]
    BY <1>26 DEF ChildAnswers
  <2>9. ASSUME NEW j \in Slot, id'[j] = NoSession
        PROVE  /\ child'[j] = "none" /\ ~broken'[j] /\ sent'[j] = 0 /\ busy'[j] = NoRequest
               /\ toChild'[j] = <<>> /\ fromChild'[j] = <<>>
    <3>1. j # k /\ id[j] = NoSession
      BY <2>1, <2>9, <1>26 DEF ChildAnswers
    <3> QED
      BY <3>1, <1>26 DEF ChildAnswers
  <2> QED
    BY <2>1, <2>4, <2>5, <2>9, <1>26 DEF ChildAnswers
<1>27. CASE UNCHANGED vars
  BY <1>27 DEF vars
<1> QED
  BY <1>1, <1>2, <1>3, <1>4, <1>5, <1>6, <1>7, <1>8, <1>9, <1>10, <1>11, <1>12, <1>13,
     <1>14, <1>15, <1>16, <1>17, <1>18, <1>19, <1>20, <1>21, <1>22, <1>23, <1>24, <1>25,
     <1>26, <1>27 DEF Next, RpcStep, CallerStep

-----------------------------------------------------------------------------
(* Whose the lines are *)

\* A line is written into the pipe of a living session only, and goes with the session.
LEMMA OwnStep ==
  ASSUME TypeInv, OwnLines, [Next]_vars
  PROVE  OwnLines'
<1> USE DEF OwnLines, slotVars, childVars, callVars
<1>a. fromChild \in [Slot -> Seq(Response)] /\ slot \in Slot /\ id \in [Slot -> SessionId \cup {NoSession}]
  BY DEF TypeInv, Types
<1>1. CASE SendRequest
  BY <1>1 DEF SendRequest, Goto
<1>2. CASE SendFails
  BY <1>2 DEF SendFails, BreakSession, Goto
<1>3. CASE ReadAnswer
  <2>1. fromChild[slot] \in Seq(Response) /\ fromChild[slot] # <<>>
    BY <1>a, <1>3 DEF ReadAnswer
  <2>2. Range(Tail(fromChild[slot])) \subseteq Range(fromChild[slot])
    BY <2>1, RangeTail
  <2>3. \A j \in Slot : Range(fromChild'[j]) \subseteq Range(fromChild[j])
    BY <2>2, <1>a, <1>3 DEF ReadAnswer
  <2> QED
    BY <2>3, <1>3 DEF ReadAnswer
<1>4. CASE ReadRpcError
  <2>1. fromChild[slot] \in Seq(Response) /\ fromChild[slot] # <<>>
    BY <1>a, <1>4 DEF ReadRpcError
  <2>2. Range(Tail(fromChild[slot])) \subseteq Range(fromChild[slot])
    BY <2>1, RangeTail
  <2>3. \A j \in Slot : Range(fromChild'[j]) \subseteq Range(fromChild[j])
    BY <2>2, <1>a, <1>4 DEF ReadRpcError
  <2> QED
    BY <2>3, <1>4 DEF ReadRpcError
<1>5. CASE ReadMismatch
  <2>1. fromChild[slot] \in Seq(Response) /\ fromChild[slot] # <<>>
    BY <1>a, <1>5 DEF ReadMismatch, BreakSession
  <2>2. Range(Tail(fromChild[slot])) \subseteq Range(fromChild[slot])
    BY <2>1, RangeTail
  <2>3. \A j \in Slot : Range(fromChild'[j]) \subseteq Range(fromChild[j])
    BY <2>2, <1>a, <1>5 DEF ReadMismatch, BreakSession
  <2> QED
    BY <2>3, <1>5 DEF ReadMismatch, BreakSession
<1>6. CASE ReadExtra
  <2>1. ASSUME NEW j \in Slot, NEW line \in Range(fromChild'[j])
        PROVE  line.by = id'[j]
    <3>1. j # slot
      <4>1. fromChild'[slot] = <<>> /\ Range(fromChild'[slot]) = {}
        BY <1>a, <1>6 DEF ReadExtra, BreakSession, ClearSlot, Range, TypeInv, Types
      <4> QED
        BY <4>1, <2>1
    <3> QED
      BY <3>1, <2>1, <1>a, <1>6 DEF ReadExtra, BreakSession, ClearSlot, TypeInv, Types
  <2> QED
    BY <2>1
<1>7. CASE ReadEof
  BY <1>7 DEF ReadEof, BreakSession, Goto
<1>8. CASE ReadTimesOut
  BY <1>8 DEF ReadTimesOut, BreakSession, Goto
<1>9. CASE Initialized
  BY <1>9 DEF Initialized, Goto
<1>10. CASE Notify
  BY <1>10 DEF Notify
<1>11. CASE NotifyFails
  BY <1>11 DEF NotifyFails, BreakSession, Goto
<1>12. CASE Launched
  BY <1>12 DEF Launched
<1>13. CASE Forwarded
  BY <1>13 DEF Forwarded, Goto
<1>14. CASE StartFailed
  BY <1>14 DEF StartFailed, Goto
<1>15. CASE ForwardFailed
  BY <1>15 DEF ForwardFailed, Goto
<1>16. CASE StopSession
  <2>1. ASSUME NEW j \in Slot, NEW line \in Range(fromChild'[j])
        PROVE  line.by = id'[j]
    <3>1. j # slot
      <4>1. fromChild'[slot] = <<>> /\ Range(fromChild'[slot]) = {}
        BY <1>a, <1>16 DEF StopSession, ClearSlot, Range, TypeInv, Types
      <4> QED
        BY <4>1, <2>1
    <3> QED
      BY <3>1, <2>1, <1>a, <1>16 DEF StopSession, ClearSlot, TypeInv, Types
  <2> QED
    BY <2>1
<1>17. CASE CleanupEnds
  BY <1>17 DEF CleanupEnds, Goto
<1>18. CASE InputEnds
  BY <1>18 DEF InputEnds, Goto
<1>19. ASSUME NEW k \in Slot, CleanupSession(k) PROVE OwnLines'
  <2>1. ASSUME NEW j \in Slot, NEW line \in Range(fromChild'[j])
        PROVE  line.by = id'[j]
    <3>1. j # k
      <4>1. fromChild'[k] = <<>> /\ Range(fromChild'[k]) = {}
        BY <1>a, <1>19 DEF CleanupSession, ClearSlot, Range, TypeInv, Types
      <4> QED
        BY <4>1, <2>1
    <3> QED
      BY <3>1, <2>1, <1>a, <1>19 DEF CleanupSession, ClearSlot, TypeInv, Types
  <2> QED
    BY <2>1
<1>20. ASSUME NEW k \in Slot, StartSession(k) PROVE OwnLines'
  <2>1. fromChild[k] = <<>> /\ Range(fromChild[k]) = {}
    BY <1>20 DEF StartSession, TypeInv, Types, Range
  <2> QED
    BY <2>1, <1>a, <1>20 DEF StartSession
<1>21. ASSUME NEW k \in Slot, CloseSession(k) PROVE OwnLines'
  BY <1>21 DEF CloseSession
<1>22. ASSUME NEW k \in Slot, NEW l \in BOOLEAN, ForwardTool(k, l) PROVE OwnLines'
  BY <1>22 DEF ForwardTool
<1>23. ASSUME NEW k \in Slot, ChildReads(k) PROVE OwnLines'
  BY <1>23 DEF ChildReads
<1>24. ASSUME NEW k \in Slot, StrayLine(k) PROVE OwnLines'
  <2>1. fromChild[k] \in Seq(Response) /\ [kind |-> "stray", number |-> NoRequest, by |-> id[k]] \in Response
    <3>1. id[k] \in SessionId
      BY <1>24 DEF StrayLine, TypeInv, Types
    <3> QED
      BY <3>1, <1>a, <1>24 DEF StrayLine, TypeInv, Types, Response, NoRequest
  <2>2. Range(Append(fromChild[k], [kind |-> "stray", number |-> NoRequest, by |-> id[k]]))
       = Range(fromChild[k]) \cup {[kind |-> "stray", number |-> NoRequest, by |-> id[k]]}
    BY <2>1, RangeAppend
  <2>3. ASSUME NEW j \in Slot, NEW line \in Range(fromChild'[j])
        PROVE  line.by = id'[j]
    <3>1. CASE j # k
      BY <3>1, <2>3, <1>a, <1>24 DEF StrayLine
    <3>2. CASE j = k
      <4>1. fromChild'[k] = Append(fromChild[k], [kind |-> "stray", number |-> NoRequest, by |-> id[k]])
        BY <1>a, <1>24 DEF StrayLine
      <4> QED
        BY <4>1, <3>2, <2>2, <2>3, <1>24 DEF StrayLine
    <3> QED
      BY <3>1, <3>2
  <2> QED
    BY <2>3
<1>25. ASSUME NEW k \in Slot, ChildExits(k) PROVE OwnLines'
  BY <1>25 DEF ChildExits
<1>26. ASSUME NEW k \in Slot, NEW kind \in {"result", "isError", "error"}, ChildAnswers(k, kind)
       PROVE OwnLines'
  <2>1. fromChild[k] \in Seq(Response) /\ [kind |-> kind, number |-> busy[k], by |-> id[k]] \in Response
    <3>1. id[k] \in SessionId
      BY <1>26 DEF ChildAnswers, TypeInv, Types
    <3> QED
      BY <3>1, <1>a, <1>26 DEF ChildAnswers, TypeInv, Types, Response, NoRequest
  <2>2. Range(Append(fromChild[k], [kind |-> kind, number |-> busy[k], by |-> id[k]]))
       = Range(fromChild[k]) \cup {[kind |-> kind, number |-> busy[k], by |-> id[k]]}
    BY <2>1, RangeAppend
  <2>3. ASSUME NEW j \in Slot, NEW line \in Range(fromChild'[j])
        PROVE  line.by = id'[j]
    <3>1. CASE j # k
      BY <3>1, <2>3, <1>a, <1>26 DEF ChildAnswers
    <3>2. CASE j = k
      <4>1. fromChild'[k] = Append(fromChild[k], [kind |-> kind, number |-> busy[k], by |-> id[k]])
        BY <1>a, <1>26 DEF ChildAnswers
      <4> QED
        BY <4>1, <3>2, <2>2, <2>3, <1>26 DEF ChildAnswers
    <3> QED
      BY <3>1, <3>2
  <2> QED
    BY <2>3
<1>27. CASE UNCHANGED vars
  BY <1>27 DEF vars
<1> QED
  BY <1>1, <1>2, <1>3, <1>4, <1>5, <1>6, <1>7, <1>8, <1>9, <1>10, <1>11, <1>12, <1>13,
     <1>14, <1>15, <1>16, <1>17, <1>18, <1>19, <1>20, <1>21, <1>22, <1>23, <1>24, <1>25,
     <1>26, <1>27 DEF Next, RpcStep, CallerStep

\* Only reading an answer takes a line for the result.
LEMMA ResultStep ==
  ASSUME TypeInv, OwnLines, [Next]_vars, pc = "read", pc' = "ok"
  PROVE  Head(fromChild[slot]).by = asked /\ Head(fromChild[slot]).number = sent[slot]
<1>1. ReadAnswer
  <2>1. CASE RpcStep
    BY <2>1 DEF RpcStep, SendRequest, SendFails, ReadRpcError, ReadMismatch, ReadExtra,
       ReadEof,
                BreakSession, Goto
  <2>2. CASE CallerStep
    BY <2>2 DEF CallerStep, Initialized, Notify, NotifyFails, Launched, Forwarded,
       StartFailed,
                ForwardFailed, StopSession, CleanupEnds, CleanupSession
  <2>3. CASE ReadTimesOut \/ InputEnds
    BY <2>3 DEF ReadTimesOut, InputEnds, BreakSession, Goto
  <2>4. ASSUME NEW k \in Slot,
              \/ StartSession(k) \/ CloseSession(k) \/ \E l \in BOOLEAN : ForwardTool(k, l)
        PROVE  FALSE
    BY <2>4 DEF StartSession, CloseSession, ForwardTool
  <2>5. ASSUME NEW k \in Slot,
              \/ ChildReads(k) \/ StrayLine(k) \/ ChildExits(k)
              \/ \E kind \in {"result", "isError", "error"} : ChildAnswers(k, kind)
        PROVE  FALSE
    BY <2>5 DEF ChildReads, StrayLine, ChildExits, ChildAnswers
  <2>6. CASE UNCHANGED vars
    BY <2>6 DEF vars
  <2> QED
    BY <2>1, <2>2, <2>3, <2>4, <2>5, <2>6 DEF Next
<1>2. fromChild[slot] \in Seq(Response) /\ fromChild[slot] # <<>> /\ slot \in Slot
  BY <1>1 DEF ReadAnswer, TypeInv, Types
<1>3. Head(fromChild[slot]) \in Range(fromChild[slot])
  BY <1>2, RangeTail
<1>4. asked = id[slot]
  BY <1>1 DEF ReadAnswer, TypeInv, InSession
<1> QED
  BY <1>1, <1>2, <1>3, <1>4 DEF ReadAnswer, Answers, OwnLines

-----------------------------------------------------------------------------
(* Ids *)

\* Sessions are numbered upwards, and a number reaches the client once.
LEMMA IdStep ==
  ASSUME TypeInv, IdInv, [Next]_vars
  PROVE  IdInv'
<1>0. Types /\ MaxSessions \in Nat
  BY BoundsAssumption DEF TypeInv
<1>a. /\ nextId \in Nat \ {0} /\ slot \in Slot /\ handed \in Seq(SessionId)
      /\ id \in [Slot -> SessionId \cup {NoSession}] /\ \A k \in Slot : id[k] \in Nat
  <2>1. \A k \in Slot : id[k] \in 0..MaxSessions
    BY <1>0, SlotTypes
  <2>2. \A k \in Slot : id[k] \in Nat
    BY <1>0, <2>1
  <2>3. nextId \in 1..(MaxSessions + 1)
    BY <1>0 DEF Types
  <2>4. nextId \in Nat \ {0}
    BY <1>0, <2>3
  <2> QED
    BY <1>0, <2>2, <2>4 DEF Types
<1> USE DEF IdInv, IdsHandedOnce, slotVars, childVars, callVars
<1>1. CASE SendRequest
  BY <1>1 DEF SendRequest, Goto
<1>2. CASE SendFails
  BY <1>2 DEF SendFails, BreakSession, Goto
<1>3. CASE ReadAnswer
  BY <1>3 DEF ReadAnswer, Goto, Answers
<1>4. CASE ReadRpcError
  BY <1>4 DEF ReadRpcError, Goto
<1>5. CASE ReadMismatch
  BY <1>5 DEF ReadMismatch, BreakSession, Goto
<1>6. CASE ReadExtra
  BY <1>6 DEF ReadExtra, BreakSession, Goto
<1>7. CASE ReadEof
  BY <1>7 DEF ReadEof, BreakSession, Goto
<1>8. CASE ReadTimesOut
  BY <1>8 DEF ReadTimesOut, BreakSession, Goto
<1>9. CASE Initialized
  BY <1>9 DEF Initialized, Goto
<1>10. CASE Notify
  BY <1>10 DEF Notify, TypeInv, InSession
<1>11. CASE NotifyFails
  BY <1>11 DEF NotifyFails, BreakSession, Goto
<1>12. CASE Launched
  <2> DEFINE n == Len(handed)
  <2>1. /\ n \in Nat /\ DOMAIN handed = 1..n /\ DOMAIN handed' = 1..(n + 1)
        /\ \A i \in 1..n : handed'[i] = handed[i]
        /\ handed'[n + 1] = id[slot]
    <3>1. id[slot] \in SessionId
      BY <1>12 DEF Launched, TypeInv, Types, InSession
    <3> QED
      BY <3>1, <1>a, <1>12 DEF Launched
  <2> HIDE DEF n
  <2>2. \A i \in DOMAIN handed' : i \in DOMAIN handed \/ i = n + 1
    BY <2>1
  <2>3. \A i \in DOMAIN handed : handed'[i] = handed[i] /\ handed[i] # id[slot] /\ handed[i] < nextId
    BY <2>1, <1>12 DEF Launched
  <2>4. /\ id' = id /\ nextId' = nextId /\ pc' = "idle" /\ id[slot] < nextId
    BY <1>a, <1>12 DEF Launched
  <2>5. \A i \in DOMAIN handed' : handed'[i] < nextId
    BY <2>1, <2>2, <2>3, <2>4
  <2>6. \A i, j \in DOMAIN handed' : handed'[i] = handed'[j] => i = j
    BY <2>1, <2>2, <2>3
  <2> QED
    BY <2>4, <2>5, <2>6
<1>13. CASE Forwarded
  BY <1>13 DEF Forwarded, Goto
<1>14. CASE StartFailed
  BY <1>14 DEF StartFailed, Goto
<1>15. CASE ForwardFailed
  BY <1>15 DEF ForwardFailed, Goto
<1>16. CASE StopSession
  <2>1. \A j \in Slot : id'[j] = id[j] \/ id'[j] = NoSession
    BY <1>a, <1>16 DEF StopSession, ClearSlot
  <2>2. nextId' = nextId /\ handed' = handed /\ pc' \in {"idle", "cleanup"} /\ NoSession < nextId
    BY <1>a, <1>16 DEF StopSession, ClearSlot, Goto, NoSession
  <2>3. \A j \in Slot : id'[j] < nextId'
    BY <2>1, <2>2
  <2>4. \A i, j \in Slot : id'[i] = id'[j] /\ i # j => id'[i] = NoSession
    BY <2>1
  <2> QED
    BY <2>2, <2>3, <2>4
<1>17. CASE CleanupEnds
  BY <1>17 DEF CleanupEnds, Goto
<1>18. CASE InputEnds
  BY <1>18 DEF InputEnds, Goto
<1>19. ASSUME NEW k \in Slot, CleanupSession(k) PROVE IdInv'
  <2>1. \A j \in Slot : id'[j] = id[j] \/ id'[j] = NoSession
    BY <1>a, <1>19 DEF CleanupSession, ClearSlot
  <2>2. nextId' = nextId /\ handed' = handed /\ pc' \in {"idle", "cleanup"} /\ NoSession < nextId
    BY <1>a, <1>19 DEF CleanupSession, ClearSlot, Goto, NoSession
  <2>3. \A j \in Slot : id'[j] < nextId'
    BY <2>1, <2>2
  <2>4. \A i, j \in Slot : id'[i] = id'[j] /\ i # j => id'[i] = NoSession
    BY <2>1
  <2> QED
    BY <2>2, <2>3, <2>4
<1>20. ASSUME NEW k \in Slot, StartSession(k) PROVE IdInv'
  <2>1. /\ nextId' = nextId + 1 /\ handed' = handed /\ slot' = k /\ id'[k] = nextId
        /\ \A j \in Slot : j # k => id'[j] = id[j]
    BY <1>a, <1>20 DEF StartSession, NewSessionId
  <2>2. \A i \in DOMAIN handed : handed[i] \in Nat /\ handed[i] < nextId
    <3>1. \A i \in DOMAIN handed : handed[i] \in SessionId
      BY <1>a
    <3> QED
      BY <3>1, BoundsAssumption DEF SessionId
  <2>3. \A j \in Slot : id'[j] < nextId'
    BY <2>1, <1>a
  <2>4. \A i, j \in Slot : id'[i] = id'[j] /\ i # j => id'[i] = NoSession
    <3>1. \A j \in Slot : j # k => id'[j] # nextId
      BY <2>1, <1>a
    <3> QED
      BY <2>1, <3>1
  <2>5. \A i \in DOMAIN handed : handed[i] < nextId + 1 /\ handed[i] # nextId
    BY <2>2, <1>a
  <2> QED
    BY <2>1, <2>3, <2>4, <2>5
<1>21. ASSUME NEW k \in Slot, CloseSession(k) PROVE IdInv'
  BY <1>21 DEF CloseSession
<1>22. ASSUME NEW k \in Slot, NEW l \in BOOLEAN, ForwardTool(k, l) PROVE IdInv'
  BY <1>22 DEF ForwardTool
<1>23. ASSUME NEW k \in Slot, ChildReads(k) PROVE IdInv'
  BY <1>23 DEF ChildReads
<1>24. ASSUME NEW k \in Slot, StrayLine(k) PROVE IdInv'
  BY <1>24 DEF StrayLine
<1>25. ASSUME NEW k \in Slot, ChildExits(k) PROVE IdInv'
  BY <1>25 DEF ChildExits
<1>26. ASSUME NEW k \in Slot, NEW kind \in {"result", "isError", "error"}, ChildAnswers(k, kind)
       PROVE IdInv'
  BY <1>26 DEF ChildAnswers
<1>27. CASE UNCHANGED vars
  BY <1>27 DEF vars
<1> QED
  BY <1>1, <1>2, <1>3, <1>4, <1>5, <1>6, <1>7, <1>8, <1>9, <1>10, <1>11, <1>12, <1>13,
     <1>14, <1>15, <1>16, <1>17, <1>18, <1>19, <1>20, <1>21, <1>22, <1>23, <1>24, <1>25,
     <1>26, <1>27 DEF Next, RpcStep, CallerStep

-----------------------------------------------------------------------------
(* Sessions in step *)

\* A child is as quiet as the session's state says.
LEMMA SameSlot ==
  ASSUME NEW j \in Slot, broken'[j] = broken[j], busy'[j] = busy[j],
         toChild'[j] = toChild[j], fromChild'[j] = fromChild[j]
  PROVE  (Quiet(j) => Quiet(j)') /\ (OneOutstanding(j) => OneOutstanding(j)')
BY DEF Quiet, OneOutstanding, Plain, Single

\* Whatever the children do, a quiet session stays quiet and no second answer comes
\* to a request.
LEMMA ChildStep ==
  ASSUME TypeInv, NEW k \in Slot,
         \/ ChildReads(k) \/ StrayLine(k) \/ ChildExits(k)
         \/ \E kind \in {"result", "isError", "error"} : ChildAnswers(k, kind)
  PROVE  \A j \in Slot : /\ Quiet(j) => Quiet(j)'
                         /\ OneOutstanding(j) => OneOutstanding(j)'
                         /\ broken'[j] = broken[j]
<1>1. /\ toChild \in [Slot -> Seq(0..MaxRequests)] /\ fromChild \in [Slot -> Seq(Response)]
      /\ busy \in [Slot -> 0..MaxRequests] /\ id \in [Slot -> SessionId \cup {NoSession}]
  BY DEF TypeInv, Types
<1>2. broken' = broken
  BY DEF ChildReads, StrayLine, ChildExits, ChildAnswers, slotVars
<1>3. ASSUME NEW j \in Slot, j # k
      PROVE  (Quiet(j) => Quiet(j)') /\ (OneOutstanding(j) => OneOutstanding(j)')
  <2>1. busy'[j] = busy[j] /\ toChild'[j] = toChild[j] /\ fromChild'[j] = fromChild[j]
    BY <1>1, <1>3 DEF ChildReads, StrayLine, ChildExits, ChildAnswers
  <2> QED
    BY <2>1, <1>2, SameSlot
<1>4. CASE ChildReads(k)
  <2>1. /\ busy[k] = NoRequest /\ busy'[k] = Head(toChild[k]) /\ toChild[k] # <<>>
        /\ toChild'[k] = Tail(toChild[k]) /\ fromChild'[k] = fromChild[k]
    BY <1>4, <1>1 DEF ChildReads
  <2>2. toChild[k] \in Seq(0..MaxRequests)
    BY <1>1
  <2>3. /\ Plain(toChild[k], Notices) => Head(toChild[k]) \in Notices /\ Plain(Tail(toChild[k]), Notices)
        /\ Single(toChild[k], Notices) => Single(Tail(toChild[k]), Notices)
        /\ Single(toChild[k], Notices) /\ Head(toChild[k]) \notin Notices =>
             Plain(Tail(toChild[k]), Notices)
    BY <2>1, <2>2, TailPlain
  <2>4. Head(toChild[k]) \in Notices <=> Head(toChild[k]) = NoRequest
    BY DEF Notices
  <2> QED
    BY <1>2, <1>3, <2>1, <2>3, <2>4 DEF Quiet, OneOutstanding
<1>5. CASE StrayLine(k)
  <2>1. /\ busy' = busy /\ toChild' = toChild
        /\ fromChild'[k] = Append(fromChild[k], [kind |-> "stray", number |-> NoRequest, by |-> id[k]])
    BY <1>5, <1>1 DEF StrayLine
  <2>2. fromChild[k] \in Seq(Response) /\ [kind |-> "stray", number |-> NoRequest, by |-> id[k]] \in Response
    <3>1. id[k] \in SessionId
      BY <1>5 DEF StrayLine, TypeInv, Types
    <3> QED
      BY <3>1, <1>1 DEF Response
  <2>3. [kind |-> "stray", number |-> NoRequest, by |-> id[k]] \in Strays
    BY <2>2 DEF Strays
  <2>4. /\ Plain(fromChild[k], Strays) <=> Plain(fromChild'[k], Strays)
        /\ Single(fromChild[k], Strays) => Single(fromChild'[k], Strays)
    BY <2>1, <2>2, <2>3, AppendPlain
  <2> QED
    BY <1>2, <1>3, <2>1, <2>4 DEF Quiet, OneOutstanding
<1>6. CASE ChildExits(k)
  <2>1. busy'[k] = NoRequest /\ toChild' = toChild /\ fromChild' = fromChild
    BY <1>6, <1>1 DEF ChildExits
  <2> QED
    BY <1>2, <1>3, <2>1 DEF Quiet, OneOutstanding
<1>7. ASSUME NEW kind \in {"result", "isError", "error"}, ChildAnswers(k, kind)
      PROVE  (Quiet(k) => Quiet(k)') /\ (OneOutstanding(k) => OneOutstanding(k)')
  <2>1. /\ busy[k] # NoRequest /\ busy'[k] = NoRequest /\ toChild' = toChild
        /\ fromChild'[k] = Append(fromChild[k], [kind |-> kind, number |-> busy[k], by |-> id[k]])
    BY <1>7, <1>1 DEF ChildAnswers
  <2>2. fromChild[k] \in Seq(Response) /\ [kind |-> kind, number |-> busy[k], by |-> id[k]] \in Response
    <3>1. child[k] = "running" /\ busy[k] # NoRequest
      BY <1>7 DEF ChildAnswers
    <3>2. id[k] # NoSession /\ Types
      BY <3>1 DEF TypeInv, Types
    <3>3. [kind |-> kind, number |-> busy[k], by |-> id[k]] \in Response
      BY <3>1, <3>2, <1>7, AnswerTyped
    <3> QED
      BY <3>3, <1>1
  <2>3. Plain(fromChild[k], Strays) => Single(fromChild'[k], Strays)
    BY <2>1, <2>2, AppendSingle
  <2> QED
    BY <1>2, <2>1, <2>3 DEF Quiet, OneOutstanding
<1> QED
  BY <1>2, <1>3, <1>4, <1>5, <1>6, <1>7

\* One request is out at a time, and a session whose exchange went wrong is broken.
LEMMA InStep ==
  ASSUME TypeInv, StepInv, [Next]_vars
  PROVE  StepInv'
<1> USE DEF StepInv, slotVars, childVars, callVars
<1>a. /\ slot \in Slot /\ broken \in [Slot -> BOOLEAN]
      /\ busy \in [Slot -> 0..MaxRequests]
      /\ toChild \in [Slot -> Seq(0..MaxRequests)] /\ fromChild \in [Slot -> Seq(Response)]
  BY DEF TypeInv, Types
<1>1. CASE SendRequest
  <2>1. /\ UNCHANGED <<broken, busy, fromChild, slot>> /\ pc' = "read"
        /\ toChild'[slot] = Append(toChild[slot], sent[slot] + 1)
        /\ \A j \in Slot : j # slot => toChild'[j] = toChild[j]
    BY <1>a, <1>1 DEF SendRequest, Goto
  <2>2. Quiet(slot)
    BY <1>a, <1>1 DEF SendRequest
  <2>3. Single(toChild'[slot], Notices)
    <3>1. sent[slot] + 1 \in 0..MaxRequests
      BY <1>1, SendTyped DEF TypeInv
    <3>2. toChild[slot] \in Seq(0..MaxRequests)
      BY <1>a
    <3> QED
      BY <2>1, <2>2, <3>1, <3>2, AppendSingle DEF Quiet
  <2>4. OneOutstanding(slot)'
    BY <2>1, <2>2, <2>3 DEF Quiet, OneOutstanding, Plain, Single
  <2>5. \A j \in Slot : j # slot => Quiet(j)'
    <3>1. \A j \in Slot : Quiet(j)
      BY <1>1 DEF SendRequest
    <3> QED
      BY <2>1, <3>1, SameSlot
  <2> QED
    BY <2>1, <2>4, <2>5
<1>2. CASE SendFails
  <2>1. /\ broken'[slot] = TRUE /\ slot' = slot /\ pc' = "failed"
        /\ \A j \in Slot : j # slot => /\ broken'[j] = broken[j] /\ busy'[j] = busy[j]
                                        /\ toChild'[j] = toChild[j] /\ fromChild'[j] = fromChild[j]
    BY <1>a, <1>2 DEF SendFails, BreakSession, Goto
  <2>2. \A j \in Slot : j # slot => Quiet(j)
    BY <1>2 DEF SendFails
  <2> QED
    BY <2>1, <2>2, SameSlot
<1>3. CASE ReadAnswer
  <2>1. /\ fromChild[slot] \in Seq(Response) /\ fromChild[slot] # <<>>
        /\ Head(fromChild[slot]) \notin Strays
    BY <1>a, <1>3 DEF ReadAnswer, Answers, Strays
  <2>2. /\ ~Plain(fromChild[slot], Strays)
        /\ Single(fromChild[slot], Strays) => Plain(Tail(fromChild[slot]), Strays)
    BY <2>1, TailPlain
  <2>3. Quiet(slot)'
    <3>1. /\ fromChild'[slot] = Tail(fromChild[slot])
          /\ UNCHANGED <<broken, busy, toChild, slot>>
      BY <1>a, <1>3 DEF ReadAnswer, Goto
    <3> QED
      BY <3>1, <2>2, <1>3 DEF ReadAnswer, OneOutstanding, Quiet
  <2>4. ASSUME NEW j \in Slot, j # slot PROVE Quiet(j)'
    <3>1. /\ fromChild'[j] = fromChild[j] /\ UNCHANGED <<broken, busy, toChild>>
      BY <1>a, <2>4, <1>3 DEF ReadAnswer
    <3> QED
      BY <3>1, <2>4, SameSlot, <1>3 DEF ReadAnswer
  <2>5. slot' = slot /\ pc' \in {"ok", "failed"}
    BY <1>3 DEF ReadAnswer, Goto
  <2> QED
    BY <2>3, <2>4, <2>5
<1>4. CASE ReadRpcError
  <2>1. /\ fromChild[slot] \in Seq(Response) /\ fromChild[slot] # <<>>
        /\ Head(fromChild[slot]) \notin Strays
    BY <1>a, <1>4 DEF ReadRpcError, Answers, Strays
  <2>2. /\ ~Plain(fromChild[slot], Strays)
        /\ Single(fromChild[slot], Strays) => Plain(Tail(fromChild[slot]), Strays)
    BY <2>1, TailPlain
  <2>3. Quiet(slot)'
    <3>1. /\ fromChild'[slot] = Tail(fromChild[slot])
          /\ UNCHANGED <<broken, busy, toChild, slot>>
      BY <1>a, <1>4 DEF ReadRpcError, Goto
    <3> QED
      BY <3>1, <2>2, <1>4 DEF ReadRpcError, OneOutstanding, Quiet
  <2>4. ASSUME NEW j \in Slot, j # slot PROVE Quiet(j)'
    <3>1. /\ fromChild'[j] = fromChild[j] /\ UNCHANGED <<broken, busy, toChild>>
      BY <1>a, <2>4, <1>4 DEF ReadRpcError
    <3> QED
      BY <3>1, <2>4, SameSlot, <1>4 DEF ReadRpcError
  <2>5. slot' = slot /\ pc' \in {"ok", "failed"}
    BY <1>4 DEF ReadRpcError, Goto
  <2> QED
    BY <2>3, <2>4, <2>5
<1>5. CASE ReadMismatch
  <2>1. /\ broken'[slot] = TRUE /\ slot' = slot /\ pc' = "failed"
        /\ \A j \in Slot : j # slot => /\ broken'[j] = broken[j] /\ busy'[j] = busy[j]
                                        /\ toChild'[j] = toChild[j] /\ fromChild'[j] = fromChild[j]
    BY <1>a, <1>5 DEF ReadMismatch, BreakSession, Goto
  <2>2. \A j \in Slot : j # slot => Quiet(j)
    BY <1>5 DEF ReadMismatch
  <2> QED
    BY <2>1, <2>2, SameSlot
<1>6. CASE ReadExtra
  <2>1. /\ broken'[slot] = TRUE /\ slot' = slot /\ pc' = "failed"
        /\ \A j \in Slot : j # slot => /\ broken'[j] = broken[j] /\ busy'[j] = busy[j]
                                        /\ toChild'[j] = toChild[j] /\ fromChild'[j] = fromChild[j]
    BY <1>a, <1>6 DEF ReadExtra, BreakSession, Goto
  <2>2. \A j \in Slot : j # slot => Quiet(j)
    BY <1>6 DEF ReadExtra
  <2> QED
    BY <2>1, <2>2, SameSlot
<1>7. CASE ReadEof
  <2>1. /\ broken'[slot] = TRUE /\ slot' = slot /\ pc' = "failed"
        /\ \A j \in Slot : j # slot => /\ broken'[j] = broken[j] /\ busy'[j] = busy[j]
                                        /\ toChild'[j] = toChild[j] /\ fromChild'[j] = fromChild[j]
    BY <1>a, <1>7 DEF ReadEof, BreakSession, Goto
  <2>2. \A j \in Slot : j # slot => Quiet(j)
    BY <1>7 DEF ReadEof
  <2> QED
    BY <2>1, <2>2, SameSlot
<1>8. CASE ReadTimesOut
  <2>1. /\ broken'[slot] = TRUE /\ slot' = slot /\ pc' = "failed"
        /\ \A j \in Slot : j # slot => /\ broken'[j] = broken[j] /\ busy'[j] = busy[j]
                                        /\ toChild'[j] = toChild[j] /\ fromChild'[j] = fromChild[j]
    BY <1>a, <1>8 DEF ReadTimesOut, BreakSession, Goto
  <2>2. \A j \in Slot : j # slot => Quiet(j)
    BY <1>8 DEF ReadTimesOut
  <2> QED
    BY <2>1, <2>2, SameSlot
<1>9. CASE Initialized
  <2>1. /\ UNCHANGED <<broken, busy, toChild, fromChild>> /\ pc' = "notify" /\ slot' = slot
    BY <1>9 DEF Initialized, Goto
  <2>2. \A j \in Slot : Quiet(j) => Quiet(j)'
    BY <2>1, SameSlot
  <2> QED
    BY <2>1, <2>2, <1>9 DEF Initialized, Goto
<1>10. CASE Notify
  <2>1. /\ UNCHANGED <<broken, busy, fromChild, slot>> /\ pc' = "send"
        /\ toChild'[slot] = Append(toChild[slot], NoRequest)
        /\ \A j \in Slot : j # slot => toChild'[j] = toChild[j]
    BY <1>a, <1>10 DEF Notify
  <2>2. \A j \in Slot : Quiet(j)
    BY <1>a, <1>10 DEF Notify
  <2>3. Plain(toChild'[slot], Notices)
    <3>1. NoRequest \in 0..MaxRequests /\ NoRequest \in Notices
      BY BoundsAssumption DEF NoRequest, Notices
    <3>2. toChild[slot] \in Seq(0..MaxRequests)
      BY <1>a
    <3>3. Plain(toChild[slot], Notices)
      BY <2>2, <1>a DEF Quiet
    <3> QED
      BY <2>1, <3>1, <3>2, <3>3, AppendPlain
  <2>4. Quiet(slot)'
    BY <2>1, <2>2, <2>3, <1>a DEF Quiet
  <2>5. \A j \in Slot : j # slot => Quiet(j)'
    BY <2>1, <2>2, SameSlot
  <2> QED
    BY <2>1, <2>4, <2>5
<1>11. CASE NotifyFails
  <2>1. /\ broken'[slot] = TRUE /\ slot' = slot /\ pc' = "failed"
        /\ \A j \in Slot : j # slot => /\ broken'[j] = broken[j] /\ busy'[j] = busy[j]
                                        /\ toChild'[j] = toChild[j] /\ fromChild'[j] = fromChild[j]
    BY <1>a, <1>11 DEF NotifyFails, BreakSession, Goto
  <2>2. \A j \in Slot : j # slot => Quiet(j)
    BY <1>11 DEF NotifyFails
  <2> QED
    BY <2>1, <2>2, SameSlot
<1>12. CASE Launched
  <2>1. /\ UNCHANGED <<broken, busy, toChild, fromChild>> /\ pc' = "idle" /\ slot' = slot
    BY <1>12 DEF Launched
  <2>2. \A j \in Slot : Quiet(j) => Quiet(j)'
    BY <2>1, SameSlot
  <2> QED
    BY <2>1, <2>2, <1>12 DEF Launched
<1>13. CASE Forwarded
  <2>1. /\ UNCHANGED <<broken, busy, toChild, fromChild>> /\ pc' = "idle" /\ slot' = slot
    BY <1>13 DEF Forwarded, Goto
  <2>2. \A j \in Slot : Quiet(j) => Quiet(j)'
    BY <2>1, SameSlot
  <2> QED
    BY <2>1, <2>2, <1>13 DEF Forwarded, Goto
<1>14. CASE StartFailed
  <2>1. /\ UNCHANGED <<broken, busy, toChild, fromChild>> /\ pc' = "stop" /\ slot' = slot
    BY <1>14 DEF StartFailed, Goto
  <2>2. \A j \in Slot : Quiet(j) => Quiet(j)'
    BY <2>1, SameSlot
  <2> QED
    BY <2>1, <2>2, <1>14 DEF StartFailed, Goto
<1>15. CASE ForwardFailed
  <2>1. /\ UNCHANGED <<broken, busy, toChild, fromChild, slot>>
        /\ pc' = IF broken[slot] THEN "stop" ELSE "idle"
    BY <1>15 DEF ForwardFailed, Goto
  <2>2. \A j \in Slot : Quiet(j) => Quiet(j)'
    BY <2>1, SameSlot
  <2>3. CASE broken[slot]
    BY <2>1, <2>2, <2>3, <1>15 DEF ForwardFailed
  <2>4. CASE ~broken[slot]
    BY <2>1, <2>2, <2>4, <1>15 DEF ForwardFailed
  <2> QED
    BY <2>3, <2>4
<1>16. CASE StopSession
  <2>1. /\ slot' = slot /\ pc' = "idle"
        /\ broken'[slot] = FALSE /\ busy'[slot] = NoRequest
        /\ toChild'[slot] = <<>> /\ fromChild'[slot] = <<>>
        /\ \A j \in Slot : j # slot => /\ broken'[j] = broken[j] /\ busy'[j] = busy[j]
                                        /\ toChild'[j] = toChild[j] /\ fromChild'[j] = fromChild[j]
    BY <1>a, <1>16 DEF StopSession, ClearSlot, Goto, TypeInv, Types
  <2>2. Quiet(slot)'
    BY <2>1 DEF Quiet, Plain
  <2>3. \A j \in Slot : j # slot => Quiet(j)
    BY <1>16 DEF StopSession
  <2> QED
    BY <2>1, <2>2, <2>3, SameSlot
<1>17. CASE CleanupEnds
  <2>1. pc' \in {"cleanup", "ended"}
    BY <1>17 DEF CleanupEnds, Goto
  <2> QED
    BY <2>1
<1>18. CASE InputEnds
  <2>1. pc' \in {"cleanup", "ended"}
    BY <1>18 DEF InputEnds, Goto
  <2> QED
    BY <2>1
<1>19. ASSUME NEW k \in Slot, CleanupSession(k) PROVE StepInv'
  <2>1. pc' \in {"cleanup", "ended"}
    BY <1>19 DEF CleanupSession, Goto
  <2> QED
    BY <2>1
<1>20. ASSUME NEW k \in Slot, StartSession(k) PROVE StepInv'
  <2>1. /\ UNCHANGED <<broken, busy, toChild, fromChild>> /\ pc' = "send" /\ slot' = k
    BY <1>20 DEF StartSession
  <2>2. \A j \in Slot : Quiet(j) => Quiet(j)'
    BY <2>1, SameSlot
  <2> QED
    BY <2>1, <2>2, <1>20 DEF StartSession
<1>21. ASSUME NEW k \in Slot, CloseSession(k) PROVE StepInv'
  <2>1. /\ UNCHANGED <<broken, busy, toChild, fromChild>> /\ pc' = "stop" /\ slot' = k
    BY <1>21 DEF CloseSession
  <2>2. \A j \in Slot : Quiet(j) => Quiet(j)'
    BY <2>1, SameSlot
  <2> QED
    BY <2>1, <2>2, <1>21 DEF CloseSession
<1>22. ASSUME NEW k \in Slot, NEW l \in BOOLEAN, ForwardTool(k, l) PROVE StepInv'
  <2>1. /\ UNCHANGED <<broken, busy, toChild, fromChild>> /\ pc' = "send" /\ slot' = k
    BY <1>22 DEF ForwardTool
  <2>2. \A j \in Slot : Quiet(j) => Quiet(j)'
    BY <2>1, SameSlot
  <2> QED
    BY <2>1, <2>2, <1>22 DEF ForwardTool
<1>23. ASSUME NEW k \in Slot, ChildReads(k) PROVE StepInv'
  <2>1. pc' = pc /\ slot' = slot
    BY <1>23 DEF ChildReads
  <2> QED
    BY <2>1, <1>a, <1>23, ChildStep
<1>24. ASSUME NEW k \in Slot, StrayLine(k) PROVE StepInv'
  <2>1. pc' = pc /\ slot' = slot
    BY <1>24 DEF StrayLine
  <2> QED
    BY <2>1, <1>a, <1>24, ChildStep
<1>25. ASSUME NEW k \in Slot, ChildExits(k) PROVE StepInv'
  <2>1. pc' = pc /\ slot' = slot
    BY <1>25 DEF ChildExits
  <2> QED
    BY <2>1, <1>a, <1>25, ChildStep
<1>26. ASSUME NEW k \in Slot, NEW kind \in {"result", "isError", "error"}, ChildAnswers(k, kind)
       PROVE StepInv'
  <2>1. pc' = pc /\ slot' = slot
    BY <1>26 DEF ChildAnswers
  <2> QED
    BY <2>1, <1>a, <1>26, ChildStep
<1>27. CASE UNCHANGED vars
  <2>1. UNCHANGED <<pc, slot, broken, busy, toChild, fromChild>>
    BY <1>27 DEF vars
  <2> QED
    BY <2>1 DEF Quiet, OneOutstanding, Plain, Single
<1> QED
  BY <1>1, <1>2, <1>3, <1>4, <1>5, <1>6, <1>7, <1>8, <1>9, <1>10, <1>11, <1>12, <1>13,
     <1>14, <1>15, <1>16, <1>17, <1>18, <1>19, <1>20, <1>21, <1>22, <1>23, <1>24, <1>25,
     <1>26, <1>27 DEF Next, RpcStep, CallerStep

-----------------------------------------------------------------------------
(* Theorems *)

\* The parts of the inductive invariant hold together.
LEMMA Invariant == Spec => [](TypeInv /\ OwnLines /\ IdInv /\ StepInv)
<1> DEFINE Inv == TypeInv /\ OwnLines /\ IdInv /\ StepInv
<1>1. Init => Inv
  <2> SUFFICES ASSUME Init PROVE Inv
    OBVIOUS
  <2>1. OwnLines
    BY DEF Init, OwnLines, Range
  <2>2. IdInv
    BY DEF Init, IdInv, IdsHandedOnce, NoSession
  <2>3. StepInv
    BY DEF Init, StepInv, Quiet, Plain
  <2> QED
    BY <2>1, <2>2, <2>3, InitTyped
<1>2. Inv /\ [Next]_vars => Inv'
  BY TypeStep, OwnStep, IdStep, InStep
<1> QED
  BY <1>1, <1>2, PTL DEF Spec

\* The ranges hold, and a slot whose session ended keeps nothing of it
\* (close_session of csrc/sessions.c clears the whole entry).
THEOREM SessionTyped == Spec => []TypeOK
<1>1. TypeInv => TypeOK
  BY TypesImply DEF TypeInv
<1> QED
  BY <1>1, Invariant, PTL

\* What a call returns is the answer of its own session's child to its own request
\* (the id comparison of child_rpc), whatever else is in the pipe.
THEOREM OwnResult == Spec => ResultIsOwn
<1>1. TypeInv /\ OwnLines /\ [Next]_vars =>
        [pc = "read" /\ pc' = "ok" =>
           LET line == Head(fromChild[slot])
           IN  /\ line.by = asked
               /\ line.number = sent[slot]]_vars
  BY ResultStep
<1> QED
  BY <1>1, Invariant, PTL DEF Spec, ResultIsOwn

\* Between calls no session is broken and none has an answer or a request under way:
\* what went wrong was stopped before the call returned (sessions_forward_tool).
THEOREM InStepBetweenCalls == Spec => []SessionsInStep
<1>1. TypeInv /\ StepInv => SessionsInStep
  <2> SUFFICES ASSUME TypeInv, StepInv, pc = "idle", NEW k \in Slot
               PROVE  /\ ~broken[k]
                      /\ busy[k] = NoRequest
                      /\ \A n \in Range(toChild[k]) : n = NoRequest
                      /\ \A line \in Range(fromChild[k]) : line.kind = "stray"
    BY DEF SessionsInStep
  <2>1. Quiet(k)
    BY DEF StepInv
  <2> QED
    BY <2>1 DEF Quiet, Plain, Range, Notices, Strays
<1> QED
  BY <1>1, Invariant, PTL

\* launch_isolated_app never returns the same session id twice (g_next_session_id).
THEOREM IdsUnique == Spec => []IdsHandedOnce
<1>1. IdInv => IdsHandedOnce
  BY DEF IdInv
<1> QED
  BY <1>1, Invariant, PTL
=============================================================================
