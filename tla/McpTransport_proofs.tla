------------------------- MODULE McpTransport_proofs -------------------------
(***************************************************************************)
(* What the input transport and the main loop promise, for any number of   *)
(* requests, lines and queue entries.                                      *)
(*                                                                         *)
(* The argument follows the lines: what was served, the queue, the buffer  *)
(* and the pipe ascend, each one and each before the next (OrderInv); a    *)
(* line leaves them only for a reason (LossInv); and the answers are those *)
(* to the lines served before the current one (AnswerInv).                 *)
(***************************************************************************)
EXTENDS McpTransport, SequenceTheorems, TLAPS

\* Ranges, with the channel's parts as sequences.
Types ==
  /\ lines \in Seq(Message) /\ Len(lines) <= MaxLines
  /\ pipe \in Seq(Unit) /\ buffer \in Seq(Unit)
  /\ queued \in Seq(Line) /\ served \in Seq(Line) /\ answered \in Seq(Line)
  /\ Len(queued) <= QueueLimit
  /\ torn \in BOOLEAN /\ closed \in BOOLEAN /\ eof \in BOOLEAN /\ failed \in BOOLEAN
  /\ cancelled \in BOOLEAN /\ disconnected \in BOOLEAN /\ lost \in BOOLEAN
  /\ pc \in Phase /\ current \in Unit
  /\ active \in Id \cup {NoId}
  /\ active # NoId <=> pc \in {"call", "poll"}
  /\ rc \in {"running", "clean", "failed"}

\* Only lines that were written are on their way or in hand.
Written ==
  \A i \in Range(served) \cup Range(queued) \cup Range(buffer) \cup Range(pipe) :
    i <= Len(lines)

InHand == pc \in {"serve", "call", "poll", "reply"} => current \in 1..Len(lines)

\* A body is followed by a newline, and a newline by a body.
Alternates(units) ==
  /\ \A i \in DOMAIN units : i = 1 => units[i] # NL
  /\ \A i, j \in DOMAIN units : j = i + 1 => (units[i] = NL <=> units[j] # NL)

Unread == buffer \o pipe

\* What is unread is framed, and ends with a newline unless the host still owes it.
\* The input ends when the pipe of a host that is gone is empty.
FrameInv ==
  /\ Alternates(Unread)
  /\ ~closed => \A i \in DOMAIN Unread : i = Len(Unread) => (torn <=> Unread[i] # NL)
  /\ ~closed /\ torn => Unread # <<>>
  /\ eof => closed /\ pipe = <<>>

\* Every line of s precedes every line of t.
Precedes(s, t) ==
  \A m \in Range(s) \ {NL}, n \in Range(t) \ {NL} : m < n

\* The parts of the channel ascend, each one and each before the next.
OrderInv ==
  /\ Ascending(served) /\ Ascending(queued) /\ Ascending(buffer) /\ Ascending(pipe)
  /\ Precedes(served, queued) /\ Precedes(served, buffer) /\ Precedes(served, pipe)
  /\ Precedes(queued, buffer) /\ Precedes(queued, pipe)
  /\ Precedes(buffer, pipe)

InChannel(i) ==
  i \in Range(served) \/ i \in Range(queued) \/ i \in Range(buffer) \/ i \in Range(pipe)

\* A line that is nowhere was a cancellation, or the transport failed.
LossInv ==
  \A i \in DOMAIN lines : InChannel(i) \/ lines[i].kind = "cancel" \/ failed

\* The loop knows that the transport failed, or has ended.
FailInv == failed => lost \/ pc = "ended"

\* What was served before the current line and needed an answer has got it.
AnswerInv ==
  /\ Ascending(answered)
  /\ pc = "next" =>
       Range(answered) = {i \in Range(served) : Answerable(i)}
  /\ pc \in {"serve", "call", "poll", "reply"} =>
       /\ current \in Range(served)
       /\ \A i \in Range(served) : i <= current
       /\ Range(answered) = {i \in Range(served) \ {current} : Answerable(i)}
  /\ pc \in {"call", "poll", "reply"} => Answerable(current)
  /\ pc # "ended" => rc = "running"
  /\ rc = "clean" => eof /\ CleanEndAnswersAll

\* A poll that has seen a reason to stop has one.
WaitInv ==
  pc \in {"call", "poll"} =>
    /\ disconnected => closed \/ failed
    /\ cancelled => \E i \in DOMAIN lines :
                      lines[i].kind = "cancel" /\ lines[i].id = active

Inv ==
  /\ Types /\ Written /\ InHand /\ FrameInv
  /\ OrderInv /\ LossInv /\ FailInv /\ AnswerInv /\ WaitInv

-----------------------------------------------------------------------------
(* Sequences *)

\* Where the members of a concatenation are.
LEMMA Concat ==
  ASSUME NEW S, NEW s \in Seq(S), NEW t \in Seq(S)
  PROVE  /\ s \o t \in Seq(S)
         /\ Len(s) \in Nat /\ Len(t) \in Nat /\ Len(s \o t) = Len(s) + Len(t)
         /\ DOMAIN s = 1..Len(s) /\ DOMAIN t = 1..Len(t)
         /\ DOMAIN (s \o t) = 1..(Len(s) + Len(t))
         /\ \A i \in 1..Len(s) : (s \o t)[i] = s[i]
         /\ \A i \in 1..Len(t) : (s \o t)[Len(s) + i] = t[i]
OBVIOUS

\* A concatenation ascends when its parts do, one before the other.
LEMMA ConcatAscending ==
  ASSUME NEW s \in Seq(Nat), NEW t \in Seq(Nat),
         Ascending(s), Ascending(t), Precedes(s, t)
  PROVE  Ascending(s \o t)
<1> SUFFICES ASSUME NEW i \in DOMAIN (s \o t), NEW j \in DOMAIN (s \o t), i < j,
                    (s \o t)[i] # NL, (s \o t)[j] # NL
             PROVE  (s \o t)[i] < (s \o t)[j]
  BY DEF Ascending
<1>1. CASE j \in DOMAIN s
  <2>1. i \in DOMAIN s /\ (s \o t)[i] = s[i] /\ (s \o t)[j] = s[j]
    BY <1>1, Concat
  <2> QED
    BY <2>1, <1>1 DEF Ascending
<1>2. CASE i \in DOMAIN s /\ j \notin DOMAIN s
  <2>1. /\ (s \o t)[i] = s[i]
        /\ j - Len(s) \in DOMAIN t /\ (s \o t)[j] = t[j - Len(s)]
    <3>1. j - Len(s) \in DOMAIN t /\ j = Len(s) + (j - Len(s))
      BY <1>2, Concat
    <3> QED
      BY <3>1, <1>2, Concat
  <2>2. s[i] \in Range(s) \ {NL} /\ t[j - Len(s)] \in Range(t) \ {NL}
    BY <2>1, <1>2 DEF Range
  <2> QED
    BY <2>1, <2>2 DEF Precedes
<1>3. CASE i \notin DOMAIN s /\ j \notin DOMAIN s
  <2>1. /\ i - Len(s) \in DOMAIN t /\ i = Len(s) + (i - Len(s))
        /\ j - Len(s) \in DOMAIN t /\ j = Len(s) + (j - Len(s))
        /\ i - Len(s) < j - Len(s)
    BY <1>3, Concat
  <2>2. (s \o t)[i] = t[i - Len(s)] /\ (s \o t)[j] = t[j - Len(s)]
    BY <2>1, Concat
  <2> QED
    BY <2>1, <2>2 DEF Ascending
<1>4. i \in DOMAIN s \/ j \notin DOMAIN s \/ j \in DOMAIN s
  OBVIOUS
<1> QED
  BY <1>1, <1>2, <1>3

\* A member that exceeds all the others may be added, and a newline anyhow.
LEMMA AppendAscending ==
  ASSUME NEW s \in Seq(Nat), NEW e \in Nat, Ascending(s),
         e # NL => \A m \in Range(s) : m < e
  PROVE  /\ Ascending(Append(s, e))
         /\ Range(Append(s, e)) = Range(s) \cup {e}
<1>1. /\ DOMAIN s = 1..Len(s) /\ Len(s) \in Nat
      /\ DOMAIN Append(s, e) = 1..(Len(s) + 1)
      /\ \A i \in 1..Len(s) : Append(s, e)[i] = s[i]
      /\ Append(s, e)[Len(s) + 1] = e
  OBVIOUS
<1>2. \A i, j \in DOMAIN Append(s, e) : i < j => i \in DOMAIN s /\ (j \in DOMAIN s \/ j = Len(s) + 1)
  BY <1>1
<1>3. \A i \in DOMAIN s : Append(s, e)[i] = s[i] /\ s[i] \in Range(s)
  BY <1>1 DEF Range
<1>4. Ascending(Append(s, e))
  <2> SUFFICES ASSUME NEW i \in DOMAIN Append(s, e), NEW j \in DOMAIN Append(s, e), i < j,
                      Append(s, e)[i] # NL, Append(s, e)[j] # NL
               PROVE  Append(s, e)[i] < Append(s, e)[j]
    BY DEF Ascending
  <2>1. i \in DOMAIN s /\ Append(s, e)[i] = s[i] /\ s[i] \in Range(s)
    BY <1>2, <1>3
  <2>2. CASE j \in DOMAIN s
    BY <2>1, <2>2, <1>3 DEF Ascending
  <2>3. CASE j = Len(s) + 1
    BY <2>1, <2>3, <1>1
  <2> QED
    BY <2>2, <2>3, <1>2
<1>5. Range(Append(s, e)) = Range(s) \cup {e}
  BY <1>1 DEF Range
<1> QED
  BY <1>4, <1>5

\* The head and the rest make up a sequence.
LEMMA HeadTailRange ==
  ASSUME NEW S, NEW s \in Seq(S), s # <<>>
  PROVE  Range(s) = {Head(s)} \cup Range(Tail(s))
<1>1. /\ DOMAIN s = 1..Len(s) /\ Len(s) \in Nat \ {0}
      /\ DOMAIN Tail(s) = 1..(Len(s) - 1)
      /\ \A i \in 1..(Len(s) - 1) : Tail(s)[i] = s[i + 1]
      /\ Head(s) = s[1]
  OBVIOUS
<1>2. \A i \in DOMAIN Tail(s) : i + 1 \in DOMAIN s /\ Tail(s)[i] = s[i + 1]
  BY <1>1
<1>3. \A i \in DOMAIN s : i = 1 \/ (i - 1 \in DOMAIN Tail(s) /\ Tail(s)[i - 1] = s[i])
  BY <1>1
<1>4. 1 \in DOMAIN s
  BY <1>1
<1>5. \A i \in DOMAIN s : s[i] \in {Head(s)} \cup Range(Tail(s))
  BY <1>1, <1>3 DEF Range
<1>6. Head(s) \in Range(s) /\ Range(Tail(s)) \subseteq Range(s)
  BY <1>1, <1>2, <1>4 DEF Range
<1> QED
  BY <1>5, <1>6 DEF Range

\* A sequence without its head ascends too, beyond the head.
LEMMA TailAscending ==
  ASSUME NEW s \in Seq(Nat), s # <<>>, Ascending(s)
  PROVE  /\ Ascending(Tail(s)) /\ Tail(s) \in Seq(Nat)
         /\ Range(s) = {Head(s)} \cup Range(Tail(s))
         /\ Head(s) # NL => \A n \in Range(Tail(s)) \ {NL} : Head(s) < n
<1>1. /\ DOMAIN s = 1..Len(s) /\ Len(s) \in Nat \ {0}
      /\ DOMAIN Tail(s) = 1..(Len(s) - 1)
      /\ \A i \in 1..(Len(s) - 1) : Tail(s)[i] = s[i + 1]
      /\ Head(s) = s[1] /\ Tail(s) \in Seq(Nat)
  OBVIOUS
<1>2. \A i \in DOMAIN Tail(s) : i + 1 \in DOMAIN s /\ 1 < i + 1 /\ Tail(s)[i] = s[i + 1]
  BY <1>1
<1>3. \A i, j \in DOMAIN Tail(s) : i < j => i + 1 < j + 1
  BY <1>1
<1>4. \A i \in DOMAIN s : i = 1 \/ (i - 1 \in DOMAIN Tail(s) /\ Tail(s)[i - 1] = s[i])
  BY <1>1
<1>5. 1 \in DOMAIN s
  BY <1>1
<1>6. Ascending(Tail(s))
  BY <1>2, <1>3 DEF Ascending
<1>7. Range(s) = {Head(s)} \cup Range(Tail(s))
  BY HeadTailRange
<1>8. Head(s) # NL => \A n \in Range(Tail(s)) \ {NL} : Head(s) < n
  BY <1>1, <1>2, <1>5 DEF Range, Ascending
<1> QED
  BY <1>1, <1>6, <1>7, <1>8

\* What Tail leaves.
LEMMA TailFacts ==
  ASSUME NEW S, NEW s \in Seq(S), s # <<>>
  PROVE  /\ Tail(s) \in Seq(S) /\ Len(Tail(s)) = Len(s) - 1
         /\ DOMAIN Tail(s) = 1..(Len(s) - 1)
         /\ \A i \in 1..(Len(s) - 1) : Tail(s)[i] = s[i + 1]
         /\ DOMAIN s = 1..Len(s) /\ Len(s) \in Nat \ {0}
OBVIOUS

\* Framing survives the loss of a whole line, and the next unit due.
LEMMA AlternatesTail ==
  ASSUME NEW s \in Seq(Unit), Alternates(s), Len(s) >= 2
  PROVE  /\ s[1] # NL /\ s[2] = NL
         /\ Alternates(Tail(Tail(s)))
         /\ \A i \in DOMAIN Tail(Tail(s)) : i = Len(Tail(Tail(s))) =>
              Len(s) \in DOMAIN s /\ Tail(Tail(s))[i] = s[Len(s)]
         /\ Tail(Tail(s)) = <<>> => Len(s) = 2
<1>0. s # <<>>
  OBVIOUS
<1>1. /\ DOMAIN s = 1..Len(s) /\ Len(s) \in Nat
      /\ Tail(s) \in Seq(Unit) /\ Len(Tail(s)) = Len(s) - 1
      /\ \A i \in 1..(Len(s) - 1) : Tail(s)[i] = s[i + 1]
  BY <1>0, TailFacts
<1>2. /\ DOMAIN Tail(Tail(s)) = 1..(Len(s) - 2) /\ Len(Tail(Tail(s))) = Len(s) - 2
      /\ \A i \in 1..(Len(s) - 2) : Tail(Tail(s))[i] = Tail(s)[i + 1]
  <2>1. Len(Tail(s)) # 0
    BY <1>1
  <2>2. Tail(s) # <<>>
    BY <1>1, <2>1, EmptySeq
  <2>3. /\ DOMAIN Tail(Tail(s)) = 1..(Len(Tail(s)) - 1)
        /\ Len(Tail(Tail(s))) = Len(Tail(s)) - 1
        /\ \A i \in 1..(Len(Tail(s)) - 1) : Tail(Tail(s))[i] = Tail(s)[i + 1]
    BY <1>1, <2>2, TailFacts
  <2>4. Len(Tail(s)) - 1 = Len(s) - 2
    BY <1>1
  <2> QED
    BY <2>3, <2>4
<1>3. \A i \in 1..(Len(s) - 2) : Tail(Tail(s))[i] = s[i + 2]
  <2> TAKE i \in 1..(Len(s) - 2)
  <2>1. i + 1 \in 1..(Len(s) - 1) /\ (i + 1) + 1 = i + 2
    BY <1>1
  <2> QED
    BY <1>1, <1>2, <2>1
<1>4. 1 \in DOMAIN s /\ 2 \in DOMAIN s /\ 2 = 1 + 1
  BY <1>1
<1>5. s[1] # NL /\ s[2] = NL
  BY <1>4 DEF Alternates
<1>6. 3 \in DOMAIN s => s[3] # NL
  <2>1. 3 = 2 + 1
    OBVIOUS
  <2> QED
    BY <2>1, <1>4, <1>5 DEF Alternates
<1>7. \A i \in DOMAIN Tail(Tail(s)) : i + 2 \in DOMAIN s /\ Tail(Tail(s))[i] = s[i + 2]
  BY <1>1, <1>2, <1>3
<1>8. \A i, j \in DOMAIN Tail(Tail(s)) : j = i + 1 => j + 2 = (i + 2) + 1
  BY <1>2
<1>9. \A i \in DOMAIN Tail(Tail(s)) : i = 1 => Tail(Tail(s))[i] # NL
  <2>1. 1 + 2 = 3
    OBVIOUS
  <2> QED
    BY <2>1, <1>6, <1>7
<1>10. Alternates(Tail(Tail(s)))
  BY <1>7, <1>8, <1>9 DEF Alternates
<1>11. \A i \in DOMAIN Tail(Tail(s)) : i = Len(Tail(Tail(s))) =>
         Len(s) \in DOMAIN s /\ Tail(Tail(s))[i] = s[Len(s)]
  <2>1. Len(s) \in DOMAIN s /\ (Len(s) - 2) + 2 = Len(s)
    BY <1>1
  <2> QED
    BY <2>1, <1>2, <1>7
<1>12. Tail(Tail(s)) = <<>> => Len(s) = 2
  <2>1. Tail(Tail(s)) = <<>> => Len(Tail(Tail(s))) = 0
    BY EmptySeq
  <2> QED
    BY <2>1, <1>1, <1>2
<1> QED
  BY <1>5, <1>10, <1>11, <1>12

\* The last unit decides what may follow.
LEMMA AlternatesAppend ==
  ASSUME NEW s \in Seq(Unit), Alternates(s), NEW e \in Unit,
         s = <<>> => e # NL,
         \A i \in DOMAIN s : i = Len(s) => (s[i] = NL <=> e # NL)
  PROVE  Alternates(Append(s, e))
<1>1. /\ DOMAIN s = 1..Len(s) /\ Len(s) \in Nat
      /\ DOMAIN Append(s, e) = 1..(Len(s) + 1)
      /\ \A i \in 1..Len(s) : Append(s, e)[i] = s[i]
      /\ Append(s, e)[Len(s) + 1] = e
      /\ s = <<>> <=> Len(s) = 0
  OBVIOUS
<1>2. \A i \in DOMAIN Append(s, e) : i \in DOMAIN s \/ i = Len(s) + 1
  BY <1>1
<1>3. \A i \in DOMAIN s : Append(s, e)[i] = s[i]
  BY <1>1
<1>4. ASSUME NEW i \in DOMAIN Append(s, e), i = 1 PROVE Append(s, e)[i] # NL
  <2>1. CASE i \in DOMAIN s
    BY <2>1, <1>3, <1>4 DEF Alternates
  <2>2. CASE i = Len(s) + 1
    BY <2>2, <1>1, <1>4
  <2> QED
    BY <2>1, <2>2, <1>2
<1>5. ASSUME NEW i \in DOMAIN Append(s, e), NEW j \in DOMAIN Append(s, e), j = i + 1
      PROVE  Append(s, e)[i] = NL <=> Append(s, e)[j] # NL
  <2>1. i \in DOMAIN s /\ (j = Len(s) + 1 => i = Len(s))
    BY <1>1, <1>5
  <2>2. CASE j \in DOMAIN s
    BY <2>1, <2>2, <1>3, <1>5 DEF Alternates
  <2>3. CASE j = Len(s) + 1
    BY <2>1, <2>3, <1>1, <1>3
  <2> QED
    BY <2>2, <2>3, <1>2
<1> QED
  BY <1>4, <1>5 DEF Alternates

\* The tail of a concatenation is that of its first part.
LEMMA TailConcat ==
  ASSUME NEW S, NEW s \in Seq(S), NEW t \in Seq(S), s # <<>>
  PROVE  Tail(s \o t) = Tail(s) \o t
<1>1. /\ Len(s) \in Nat \ {0} /\ Len(t) \in Nat /\ s \o t \in Seq(S)
      /\ Len(s \o t) = Len(s) + Len(t) /\ Tail(s) \in Seq(S) /\ Len(Tail(s)) = Len(s) - 1
      /\ s \o t # <<>>
  OBVIOUS
<1>2. /\ Tail(s \o t) \in Seq(S) /\ Len(Tail(s \o t)) = Len(s) + Len(t) - 1
      /\ \A i \in 1..(Len(s) + Len(t) - 1) : Tail(s \o t)[i] = (s \o t)[i + 1]
  BY <1>1
<1>3. /\ Tail(s) \o t \in Seq(S) /\ Len(Tail(s) \o t) = Len(s) + Len(t) - 1
  BY <1>1
<1>4. ASSUME NEW i \in 1..(Len(s) + Len(t) - 1)
      PROVE  Tail(s \o t)[i] = (Tail(s) \o t)[i]
  <2>1. CASE i <= Len(s) - 1
    <3>1. (Tail(s) \o t)[i] = Tail(s)[i] /\ Tail(s)[i] = s[i + 1]
      BY <2>1, <1>1
    <3>2. (s \o t)[i + 1] = s[i + 1]
      BY <2>1, <1>1
    <3> QED
      BY <3>1, <3>2, <1>2
  <2>2. CASE i > Len(s) - 1
    <3>1. (Tail(s) \o t)[i] = t[i - (Len(s) - 1)]
      BY <2>2, <1>1
    <3>2. (s \o t)[i + 1] = t[(i + 1) - Len(s)] /\ (i + 1) - Len(s) = i - (Len(s) - 1)
      BY <2>2, <1>1
    <3> QED
      BY <3>1, <3>2, <1>2
  <2> QED
    BY <2>1, <2>2, <1>1
<1> QED
  BY <1>2, <1>3, <1>4, SeqEqual

\* A sequence that ascends does so in its parts, one before the other.
LEMMA SplitAscending ==
  ASSUME NEW s \in Seq(Nat), NEW t \in Seq(Nat), Ascending(s \o t)
  PROVE  Ascending(s) /\ Ascending(t) /\ Precedes(s, t)
<1>1. \A i \in DOMAIN s : i \in DOMAIN (s \o t) /\ (s \o t)[i] = s[i]
  BY Concat
<1>2. \A i \in DOMAIN t : Len(s) + i \in DOMAIN (s \o t) /\ (s \o t)[Len(s) + i] = t[i]
  BY Concat
<1>3. /\ \A i, j \in DOMAIN t : i < j => Len(s) + i < Len(s) + j
      /\ \A i \in DOMAIN s, j \in DOMAIN t : i < Len(s) + j
  BY Concat
<1>4. Ascending(s)
  BY <1>1 DEF Ascending
<1>5. Ascending(t)
  BY <1>2, <1>3 DEF Ascending
<1>6. \A i \in DOMAIN s, j \in DOMAIN t : s[i] # NL /\ t[j] # NL => s[i] < t[j]
  <2> SUFFICES ASSUME NEW i \in DOMAIN s, NEW j \in DOMAIN t, s[i] # NL, t[j] # NL
               PROVE  s[i] < t[j]
    OBVIOUS
  <2>1. i < Len(s) + j /\ i \in DOMAIN (s \o t) /\ Len(s) + j \in DOMAIN (s \o t)
    BY <1>1, <1>2, <1>3
  <2>2. (s \o t)[i] = s[i] /\ (s \o t)[Len(s) + j] = t[j]
    BY <1>1, <1>2
  <2>3. (s \o t)[i] < (s \o t)[Len(s) + j]
    BY <2>1, <2>2 DEF Ascending
  <2> QED
    BY <2>2, <2>3
<1>7. Precedes(s, t)
  BY <1>6 DEF Precedes, Range
<1> QED
  BY <1>4, <1>5, <1>7

-----------------------------------------------------------------------------
(* Lines in the buffer *)

\* Units are numbers.
LEMMA Numbers ==
  /\ Line \subseteq Nat /\ Unit \subseteq Nat /\ Line \subseteq Unit
  /\ Unit \ {NL} = Line /\ NL \in Unit
  /\ Seq(Unit) \subseteq Seq(Nat) /\ Seq(Line) \subseteq Seq(Nat)
<1>1. Line \subseteq Nat /\ Unit \subseteq Nat /\ Line \subseteq Unit /\ NL \in Unit
  BY LimitsAssumption DEF Line, Unit, NL
<1>2. Unit \ {NL} = Line
  BY LimitsAssumption DEF Line, Unit, NL
<1> QED
  BY <1>1, <1>2, SeqMonotonic

\* What extract_line takes is a body, its newline if any, and nothing else.
LEMMA LineTaken ==
  ASSUME Types, FrameInv, WholeLine \/ FinalLine
  PROVE  /\ buffer # <<>> /\ Head(buffer) \in Line
         /\ RestOfBuffer \in Seq(Unit)
         /\ Range(buffer) \ {NL} = {Head(buffer)} \cup (Range(RestOfBuffer) \ {NL})
         /\ Range(RestOfBuffer) \subseteq Range(buffer)
         /\ Alternates(RestOfBuffer \o pipe)
         /\ WholeLine => /\ RestOfBuffer \o pipe = Tail(Tail(Unread))
                         /\ Unread \in Seq(Unit) /\ Len(Unread) >= 2
         /\ Ascending(buffer) =>
              /\ Ascending(RestOfBuffer)
              /\ \A n \in Range(RestOfBuffer) \ {NL} : Head(buffer) < n
<1>1. /\ buffer \in Seq(Unit) /\ pipe \in Seq(Unit) /\ Unread \in Seq(Unit)
      /\ Len(buffer) \in Nat /\ Len(Unread) = Len(buffer) + Len(pipe)
      /\ DOMAIN buffer = 1..Len(buffer) /\ DOMAIN Unread = 1..Len(Unread)
      /\ \A i \in DOMAIN buffer : i \in DOMAIN Unread /\ Unread[i] = buffer[i]
  BY Concat DEF Types, Unread
<1>2. Len(buffer) >= 1
  BY <1>1 DEF WholeLine, FinalLine
<1>3. buffer # <<>> /\ Head(buffer) = buffer[1] /\ 1 \in DOMAIN buffer
  BY <1>1, <1>2
<1>4. Head(buffer) \in Unit /\ Head(buffer) # NL /\ Head(buffer) \in Line
  <2>1. Unread[1] # NL
    BY <1>1, <1>3 DEF FrameInv, Alternates
  <2>2. buffer[1] \in Unit
    BY <1>1, <1>3
  <2> QED
    BY <2>1, <2>2, <1>1, <1>3, Numbers
<1>5. CASE WholeLine
  <2>1. Len(Unread) >= 2 /\ 2 \in DOMAIN buffer
    BY <1>1, <1>5 DEF WholeLine
  <2>2. Unread[2] = NL /\ Alternates(Tail(Tail(Unread)))
    BY <1>1, <2>1, AlternatesTail DEF FrameInv
  <2>3. buffer[2] = NL
    BY <2>1, <2>2, <1>1
  <2>4. /\ Tail(buffer) \in Seq(Unit) /\ Tail(buffer) # <<>>
        /\ Head(Tail(buffer)) = NL
        /\ Tail(Tail(buffer)) \in Seq(Unit)
    BY <1>1, <2>1, <2>3
  <2>5. /\ Range(buffer) = {Head(buffer)} \cup Range(Tail(buffer))
        /\ Range(Tail(buffer)) = {NL} \cup Range(Tail(Tail(buffer)))
    BY <1>1, <1>3, <2>4, HeadTailRange
  <2>6. Tail(Tail(buffer)) \o pipe = Tail(Tail(Unread))
    <3>1. Tail(Unread) = Tail(buffer) \o pipe
      BY <1>1, <1>3, TailConcat DEF Unread
    <3>2. Tail(Tail(buffer) \o pipe) = Tail(Tail(buffer)) \o pipe
      BY <1>1, <2>4, TailConcat
    <3> QED
      BY <3>1, <3>2
  <2>7. ASSUME Ascending(buffer)
        PROVE  /\ Ascending(Tail(Tail(buffer)))
               /\ \A n \in Range(Tail(Tail(buffer))) \ {NL} : Head(buffer) < n
    <3>1. /\ Ascending(Tail(buffer))
          /\ \A n \in Range(Tail(buffer)) \ {NL} : Head(buffer) < n
      BY <1>1, <1>3, <1>4, <2>7, TailAscending, Numbers
    <3>2. Ascending(Tail(Tail(buffer)))
      BY <3>1, <2>4, TailAscending, Numbers
    <3> QED
      BY <3>1, <3>2, <2>5
  <2> QED
    BY <1>1, <1>3, <1>4, <1>5, <2>1, <2>2, <2>4, <2>5, <2>6, <2>7 DEF RestOfBuffer
<1>6. CASE ~WholeLine
  <2>1. Len(buffer) = 1 /\ eof
    BY <1>6 DEF FinalLine
  <2>2. pipe = <<>> /\ RestOfBuffer = <<>>
    BY <2>1, <1>6 DEF FrameInv, RestOfBuffer
  <2>3. RestOfBuffer \in Seq(Unit) /\ RestOfBuffer \o pipe = <<>> /\ Range(RestOfBuffer) = {}
    BY <2>2 DEF Range
  <2>4. Alternates(RestOfBuffer \o pipe) /\ Ascending(RestOfBuffer)
    BY <2>2, <2>3 DEF Alternates, Ascending
  <2>5. Range(buffer) = {Head(buffer)}
    <3>1. \A i \in DOMAIN buffer : i = 1
      BY <1>1, <2>1
    <3> QED
      BY <3>1, <1>3 DEF Range
  <2> QED
    BY <1>3, <1>4, <1>6, <2>3, <2>4, <2>5
<1> QED
  BY <1>5, <1>6

-----------------------------------------------------------------------------
(* Types *)

\* The members of a sequence of numbers are numbers.
LEMMA RangeInNat == ASSUME NEW s \in Seq(Nat) PROVE Range(s) \subseteq Nat
BY DEF Range

\* Three sequences set one behind the other, whichever pair is joined first.
LEMMA ThreeInOrder ==
  ASSUME NEW S, NEW x \in Seq(S), NEW y \in Seq(S), NEW z \in Seq(S)
  PROVE  (x \o y) \o z = x \o (y \o z)
BY ConcatAssociative

\* What read_more moves from the pipe into the buffer.
LEMMA Reading ==
  ASSUME Types, ReadSome
  PROVE  /\ buffer' \in Seq(Unit) /\ pipe' \in Seq(Unit)
         /\ Unread' = Unread
         /\ \E a \in Seq(Unit) : pipe = a \o pipe' /\ buffer' = buffer \o a
<1>1. PICK n \in 1..Len(pipe) :
        /\ buffer' = buffer \o SubSeq(pipe, 1, n)
        /\ pipe' = SubSeq(pipe, n + 1, Len(pipe))
  BY DEF ReadSome
<1>2. pipe \in Seq(Unit) /\ buffer \in Seq(Unit) /\ Len(pipe) \in Nat
  BY DEF Types
<1>3. SubSeq(pipe, 1, n) \in Seq(Unit) /\ SubSeq(pipe, n + 1, Len(pipe)) \in Seq(Unit)
  <2>1. \A i \in 1..Len(pipe) : pipe[i] \in Unit
    BY <1>2
  <2>2. \A i \in 1..n : pipe[i] \in Unit
    BY <1>2, <2>1
  <2>3. \A i \in (n + 1)..Len(pipe) : pipe[i] \in Unit
    BY <1>2, <2>1
  <2>4. 1 \in Int /\ n \in Int /\ n + 1 \in Int /\ Len(pipe) \in Int
    BY <1>2
  <2> QED
    BY <2>2, <2>3, <2>4, SubSeqProperties
<1>4. SubSeq(pipe, 1, n) \o SubSeq(pipe, n + 1, Len(pipe)) = pipe
  <2>1. 1 \in 1..(Len(pipe) + 1) /\ n \in (1 - 1)..Len(pipe) /\ Len(pipe) \in n..Len(pipe)
    BY <1>2
  <2>2. SubSeq(pipe, 1, n) \o SubSeq(pipe, n + 1, Len(pipe)) = SubSeq(pipe, 1, Len(pipe))
    BY <1>2, <2>1, ConcatAdjacentSubSeq
  <2> QED
    BY <1>2, <2>2, SubSeqFull
<1>5. Unread' = Unread
  <2>1. (buffer \o SubSeq(pipe, 1, n)) \o SubSeq(pipe, n + 1, Len(pipe)) = buffer \o pipe
    <3>1. ASSUME NEW x \in Seq(Unit), NEW y \in Seq(Unit), NEW z \in Seq(Unit), y \o z = pipe
          PROVE  (x \o y) \o z = x \o pipe
      <4>1. (x \o y) \o z = x \o (y \o z)
        BY ThreeInOrder
      <4> QED
        BY <3>1, <4>1, Zenon
    <3> QED
      BY <1>2, <1>3, <1>4, <3>1, Zenon
  <2> QED
    BY <1>1, <2>1 DEF Unread
<1>6. buffer' \in Seq(Unit)
  BY <1>1, <1>2, <1>3, ConcatProperties
<1> QED
  BY <1>1, <1>3, <1>4, <1>5, <1>6

\* Every step keeps the ranges.
LEMMA TypeStep ==
  ASSUME Types, InHand, FrameInv, [Next]_vars
  PROVE  Types'
<1> USE DEF Types, Phase, hostVars, inputVars, callVars, loopVars
<1>a. /\ Line \subseteq Nat /\ Line \subseteq Unit /\ NL \in Unit /\ MaxLines \in Nat /\ QueueLimit \in Nat
  BY Numbers, LimitsAssumption
<1>b. ASSUME WholeLine \/ FinalLine
      PROVE  Head(buffer) \in Line /\ RestOfBuffer \in Seq(Unit)
  BY <1>b, LineTaken
<1>c. \A i \in Line : Append(served, i) \in Seq(Line)
  OBVIOUS
<1>1. ASSUME NEW m \in Message, HostWrites(m) PROVE Types'
  <2>1. Append(lines, m) \in Seq(Message) /\ Len(Append(lines, m)) <= MaxLines
    <3>1. Append(lines, m) \in Seq(Message) /\ Len(Append(lines, m)) = Len(lines) + 1
      OBVIOUS
    <3>2. Len(lines) \in Nat /\ Len(lines) < MaxLines
      BY <1>1 DEF HostWrites
    <3> QED
      BY <3>1, <3>2, <1>a
  <2>2. Len(lines) + 1 \in Line
    BY <1>1, <1>a DEF HostWrites, Line
  <2>3. Append(pipe, Len(lines) + 1) \in Seq(Unit)
    BY <2>2, <1>a
  <2> QED
    BY <2>1, <2>3, <1>1 DEF HostWrites
<1>2. CASE HostEndsLine
  <2>1. Append(pipe, NL) \in Seq(Unit)
    BY <1>a
  <2> QED
    BY <2>1, <1>2 DEF HostEndsLine
<1>3. CASE HostCloses
  BY <1>3 DEF HostCloses
<1>4. CASE NextQueued
  <2>1. Head(queued) \in Line /\ Tail(queued) \in Seq(Line) /\ Len(Tail(queued)) <= QueueLimit
    BY <1>4, <1>a DEF NextQueued
  <2>2. Append(served, Head(queued)) \in Seq(Line) /\ Head(queued) \in Unit
    BY <2>1, <1>a, <1>c
  <2> QED
    BY <2>1, <2>2, <1>4 DEF NextQueued, Serve
<1>5. CASE NextLine
  <2>1. Head(buffer) \in Line /\ RestOfBuffer \in Seq(Unit)
    BY <1>5, <1>b DEF NextLine
  <2>2. Append(served, Head(buffer)) \in Seq(Line) /\ Head(buffer) \in Unit
    BY <2>1, <1>a, <1>c
  <2> QED
    BY <2>1, <2>2, <1>5 DEF NextLine, Serve
<1>6. CASE NextRejects
  BY <1>6 DEF NextRejects, Leave
<1>7. CASE NextEnds
  BY <1>7 DEF NextEnds, Leave
<1>8. CASE NextReads
  <2>1. CASE ReadSome
    BY <2>1, <1>8, Reading DEF NextReads, ReadSome
  <2>2. CASE ReadEof
    BY <2>2, <1>8 DEF NextReads, ReadEof
  <2> QED
    BY <2>1, <2>2, <1>8 DEF NextReads
<1>9. CASE NextReadFails
  BY <1>9 DEF NextReadFails, ReadFails, Leave
<1>10. CASE ServeSilent
  BY <1>10 DEF ServeSilent
<1>11. CASE ServeOther
  BY <1>11 DEF ServeOther
<1>12. CASE ServeCall
  <2>1. lines[current] \in Message /\ lines[current].kind = "call"
    BY <1>12 DEF ServeCall, InHand
  <2>2. lines[current].id \in Id
    BY <2>1 DEF Message
  <2>3. active' \in Id /\ active' # NoId
    BY <2>2, <1>12, NoIdAssumption DEF ServeCall
  <2> QED
    BY <2>3, <1>12 DEF ServeCall
<1>13. CASE Reply
  <2>1. current \in Line
    BY <1>13, <1>a DEF Reply, InHand, Line
  <2>2. Append(answered, current) \in Seq(Line)
    BY <2>1
  <2> QED
    BY <2>2, <1>13 DEF Reply
<1>14. CASE ReplyFails
  BY <1>14 DEF ReplyFails, Leave
<1>15. CASE CallFinishes
  BY <1>15 DEF CallFinishes
<1>16. CASE CallPolls
  BY <1>16 DEF CallPolls
<1>17. CASE PollCancel
  <2>1. RestOfBuffer \in Seq(Unit) /\ (cancelled \/ IsCancelFor(Head(buffer))) \in BOOLEAN
    BY <1>17, <1>b DEF PollCancel, IsCancelFor
  <2>2. /\ buffer' \in Seq(Unit) /\ cancelled' \in BOOLEAN
    BY <2>1, <1>17 DEF PollCancel
  <2> QED
    BY <2>2, <1>17 DEF PollCancel
<1>18. CASE PollQueues
  <2>1. Head(buffer) \in Line /\ RestOfBuffer \in Seq(Unit)
    BY <1>18, <1>b DEF PollQueues
  <2>2. Append(queued, Head(buffer)) \in Seq(Line) /\ Len(Append(queued, Head(buffer))) <= QueueLimit
    BY <2>1, <1>18, <1>a DEF PollQueues
  <2> QED
    BY <2>1, <2>2, <1>18 DEF PollQueues
<1>19. CASE PollOverflows
  <2>1. RestOfBuffer \in Seq(Unit)
    BY <1>19, <1>b DEF PollOverflows
  <2> QED
    BY <2>1, <1>19 DEF PollOverflows, PollFails
<1>20. CASE PollRejects
  BY <1>20 DEF PollRejects, PollFails
<1>21. CASE PollReads
  BY <1>21, Reading DEF PollReads, ReadSome
<1>22. CASE PollEnds
  <2>1. (disconnected \/ closed) \in BOOLEAN
    OBVIOUS
  <2>2. disconnected' \in BOOLEAN /\ eof' \in BOOLEAN
    BY <2>1, <1>22 DEF PollEnds
  <2>3. CASE cancelled' \/ disconnected'
    BY <2>2, <2>3, <1>22 DEF PollEnds, PollReturns
  <2>4. CASE ~(cancelled' \/ disconnected')
    BY <2>2, <2>4, <1>22 DEF PollEnds, PollReturns
  <2> QED
    BY <2>3, <2>4
<1>23. CASE PollReadFails
  BY <1>23 DEF PollReadFails, ReadFails, PollFails
<1>24. CASE UNCHANGED vars
  BY <1>24 DEF vars
<1> QED
  BY <1>1, <1>2, <1>3, <1>4, <1>5, <1>6, <1>7, <1>8, <1>9, <1>10, <1>11, <1>12, <1>13,
     <1>14, <1>15, <1>16, <1>17, <1>18, <1>19, <1>20, <1>21, <1>22, <1>23, <1>24 DEF
     Next, HostStep, NextStep, ServeStep, PollStep

-----------------------------------------------------------------------------
(* The channel *)

\* A step that moves no line; the input may be found to have ended.
ChannelKept ==
  /\ UNCHANGED <<lines, torn, closed, served, queued, buffer, pipe>>
  /\ eof' = eof \/ (eof' = closed /\ pipe = <<>>)
  /\ failed => failed'

ReadStep ==
  ReadSome /\ UNCHANGED <<lines, torn, closed, served, queued>>

\* A step that takes a line out of the buffer.
TakeStep == NextLine \/ PollCancel \/ PollQueues \/ PollOverflows

\* Few actions touch the channel.
LEMMA ChannelStep ==
  ASSUME [Next]_vars
  PROVE  \/ ChannelKept \/ ReadStep \/ HostCloses \/ HostEndsLine
         \/ \E m \in Message : HostWrites(m)
         \/ NextQueued \/ TakeStep
<1> USE DEF ChannelKept, hostVars, inputVars, callVars, loopVars
<1>1. CASE HostStep
  BY <1>1 DEF HostStep
<1>2. CASE NextStep
  <2>1. CASE NextRejects
    BY <2>1 DEF NextRejects, Leave
  <2>2. CASE NextEnds
    BY <2>2 DEF NextEnds, Leave
  <2>3. CASE NextReads
    BY <2>3 DEF NextReads, ReadStep, ReadSome, ReadEof
  <2> QED
    BY <1>2, <2>1, <2>2, <2>3 DEF NextStep, TakeStep
<1>3. CASE NextReadFails
  BY <1>3 DEF NextReadFails, ReadFails, Leave
<1>4. CASE ServeStep
  BY <1>4 DEF ServeStep, ServeSilent, ServeOther, ServeCall, Reply
<1>5. CASE ReplyFails \/ CallFinishes
  BY <1>5 DEF ReplyFails, CallFinishes, Leave
<1>6. CASE PollStep
  <2>1. CASE CallPolls
    BY <2>1 DEF CallPolls
  <2>2. CASE PollRejects
    BY <2>2 DEF PollRejects, PollFails
  <2>3. CASE PollReads
    <3>1. ReadSome /\ UNCHANGED <<lines, torn, closed, served>>
      BY <2>3 DEF PollReads
    <3>2. queued' = queued
      BY <3>1 DEF ReadSome
    <3> QED
      BY <3>1, <3>2 DEF ReadStep
  <2>4. CASE PollEnds
    BY <2>4 DEF PollEnds
  <2> QED
    BY <1>6, <2>1, <2>2, <2>3, <2>4 DEF PollStep, TakeStep
<1>7. CASE PollReadFails
  BY <1>7 DEF PollReadFails, ReadFails, PollFails
<1>8. CASE UNCHANGED vars
  BY <1>8 DEF vars
<1> QED
  BY <1>1, <1>2, <1>3, <1>4, <1>5, <1>6, <1>7, <1>8 DEF Next

\* Where the line taken goes.
LEMMA TakeEffect ==
  ASSUME TakeStep
  PROVE  /\ WholeLine \/ (FinalLine /\ NextLine)
         /\ buffer' = RestOfBuffer
         /\ UNCHANGED <<lines, torn, closed, pipe, eof>>
         /\ failed => failed'
         /\ \/ queued = <<>> /\ served' = Append(served, Head(buffer)) /\ queued' = queued
            \/ queued' = Append(queued, Head(buffer)) /\ served' = served
            \/ /\ UNCHANGED <<queued, served>>
               /\ lines[Head(buffer)].kind = "cancel" \/ failed'
BY DEF TakeStep, NextLine, PollCancel, PollQueues, PollOverflows, PollFails, Serve,
       hostVars, inputVars, callVars, loopVars

\* The members of a sequence that got one more.
LEMMA AppendRange ==
  ASSUME NEW S, NEW s \in Seq(S), NEW e \in S
  PROVE  Range(Append(s, e)) = Range(s) \cup {e}
<1>1. /\ DOMAIN s = 1..Len(s) /\ Len(s) \in Nat
      /\ DOMAIN Append(s, e) = 1..(Len(s) + 1)
      /\ \A i \in 1..Len(s) : Append(s, e)[i] = s[i]
      /\ Append(s, e)[Len(s) + 1] = e
  OBVIOUS
<1> QED
  BY <1>1 DEF Range

\* A unit added to the pipe is added to what is unread.
LEMMA AppendUnread ==
  ASSUME Types, NEW e \in Unit
  PROVE  /\ buffer \o Append(pipe, e) = Append(Unread, e)
         /\ Unread \in Seq(Unit)
BY DEF Types, Unread

\* Lines stay in the range of those that were written.
LEMMA WrittenStep ==
  ASSUME Types, FrameInv, Written, [Next]_vars
  PROVE  Written'
<1> USE DEF Written
<1>a. /\ pipe \in Seq(Unit) /\ buffer \in Seq(Unit) /\ served \in Seq(Line) /\ queued \in Seq(Line)
      /\ lines \in Seq(Message) /\ Len(lines) \in Nat /\ Len(lines) <= MaxLines
  BY DEF Types
<1>1. CASE ChannelKept
  BY <1>1 DEF ChannelKept
<1>2. CASE ReadStep
  <2>1. PICK a \in Seq(Unit) : pipe = a \o pipe' /\ buffer' = buffer \o a
    BY <1>2, Reading DEF ReadStep
  <2>2. pipe' \in Seq(Unit)
    BY <1>2, Reading DEF ReadStep
  <2>3. Range(pipe) = Range(a) \cup Range(pipe') /\ Range(buffer') = Range(buffer) \cup Range(a)
    BY <1>a, <2>1, <2>2, RangeConcatenation
  <2> QED
    BY <1>2, <2>3 DEF ReadStep
<1>3. CASE HostCloses
  BY <1>3 DEF HostCloses, inputVars, loopVars
<1>4. CASE HostEndsLine
  <2>1. Range(pipe') = Range(pipe) \cup {NL}
    BY <1>4, <1>a, AppendRange, Numbers DEF HostEndsLine
  <2>2. NL <= Len(lines)
    BY <1>a DEF NL
  <2> QED
    BY <1>4, <2>1, <2>2 DEF HostEndsLine, loopVars
<1>5. ASSUME NEW m \in Message, HostWrites(m) PROVE Written'
  <2>1. Len(lines) + 1 \in Line
    BY <1>5, <1>a, LimitsAssumption DEF HostWrites, Line
  <2>2. Range(pipe') = Range(pipe) \cup {Len(lines) + 1}
    BY <1>5, <1>a, <2>1, AppendRange, Numbers DEF HostWrites
  <2>3. Len(lines') = Len(lines) + 1
    BY <1>5, <1>a DEF HostWrites
  <2>4. \A i \in Range(served) \cup Range(queued) \cup Range(buffer) \cup Range(pipe) :
          i \in Nat
    <3>1. \A s \in Seq(Nat) : Range(s) \subseteq Nat
      BY RangeInNat
    <3>2. served \in Seq(Nat) /\ queued \in Seq(Nat) /\ buffer \in Seq(Nat) /\ pipe \in Seq(Nat)
      BY <1>a, Numbers
    <3> QED
      BY <3>1, <3>2
  <2>5. \A i \in Range(served) \cup Range(queued) \cup Range(buffer) \cup Range(pipe) :
          i <= Len(lines) + 1
    BY <1>a, <2>4
  <2>6. UNCHANGED <<served, queued, buffer>>
    BY <1>5 DEF HostWrites, loopVars
  <2> QED
    BY <1>a, <2>2, <2>3, <2>5, <2>6
<1>6. CASE NextQueued
  <2>1. queued # <<>> /\ queued' = Tail(queued) /\ served' = Append(served, Head(queued))
    BY <1>6 DEF NextQueued, Serve
  <2>2. Head(queued) \in Line
    BY <1>a, <2>1
  <2>3. Range(queued) = {Head(queued)} \cup Range(queued')
    BY <1>a, <2>1, HeadTailRange
  <2>4. Range(served') = Range(served) \cup {Head(queued)}
    BY <1>a, <2>1, <2>2, AppendRange
  <2> QED
    BY <1>6, <2>3, <2>4 DEF NextQueued, hostVars
<1>7. CASE TakeStep
  <2>1. WholeLine \/ FinalLine
    BY <1>7, TakeEffect
  <2>2. /\ Head(buffer) \in Line /\ Range(RestOfBuffer) \subseteq Range(buffer)
        /\ Head(buffer) \in Range(buffer)
    BY <2>1, LineTaken
  <2>3. /\ Range(Append(served, Head(buffer))) = Range(served) \cup {Head(buffer)}
        /\ Range(Append(queued, Head(buffer))) = Range(queued) \cup {Head(buffer)}
    BY <1>a, <2>2, AppendRange
  <2>4. /\ Range(served') \cup Range(queued') \subseteq
             Range(served) \cup Range(queued) \cup {Head(buffer)}
        /\ buffer' = RestOfBuffer /\ pipe' = pipe /\ lines' = lines
    BY <1>7, <2>3, TakeEffect
  <2> QED
    BY <2>2, <2>4
<1> QED
  BY <1>1, <1>2, <1>3, <1>4, <1>5, <1>6, <1>7, ChannelStep

\* What is unread stays framed: the host alternates, and lines are taken whole.
LEMMA FrameStep ==
  ASSUME Types, FrameInv, [Next]_vars
  PROVE  FrameInv'
<1>a. /\ pipe \in Seq(Unit) /\ buffer \in Seq(Unit) /\ Unread \in Seq(Unit)
      /\ closed \in BOOLEAN /\ eof \in BOOLEAN /\ Len(Unread) \in Nat
  BY AppendUnread, Numbers DEF Types
<1>b. Alternates(Unread) /\ (eof => closed /\ pipe = <<>>)
  BY DEF FrameInv
<1>1. CASE ChannelKept
  BY <1>1 DEF FrameInv, ChannelKept, Unread
<1>2. CASE ReadStep
  <2>1. Unread' = Unread /\ UNCHANGED <<torn, closed, eof>> /\ ~eof
    BY <1>2, Reading DEF ReadStep, ReadSome
  <2> QED
    BY <2>1 DEF FrameInv
<1>3. CASE HostCloses
  BY <1>3 DEF HostCloses, inputVars, FrameInv, Unread
<1>4. ASSUME NEW e \in Unit, pipe' = Append(pipe, e), buffer' = buffer, ~closed,
             closed' = closed, eof' = eof, torn' = (e # NL), torn <=> e = NL
      PROVE  FrameInv'
  <2>1. Unread' = Append(Unread, e)
    BY <1>4, AppendUnread DEF Unread
  <2>2. \A i \in DOMAIN Unread : i = Len(Unread) => (torn <=> Unread[i] # NL)
    BY <1>4 DEF FrameInv
  <2>3. torn => Unread # <<>>
    BY <1>4 DEF FrameInv
  <2>4. Alternates(Append(Unread, e))
    <3>1. Unread = <<>> => e # NL
      BY <1>4, <2>3
    <3>2. \A i \in DOMAIN Unread : i = Len(Unread) => (Unread[i] = NL <=> e # NL)
      BY <1>4, <2>2
    <3> QED
      BY <1>a, <1>b, <3>1, <3>2, AlternatesAppend
  <2>5. \A i \in DOMAIN Append(Unread, e) : i = Len(Append(Unread, e)) =>
          Append(Unread, e)[i] = e
    BY <1>a
  <2>6. Append(Unread, e) # <<>>
    BY <1>a
  <2>7. ~eof
    BY <1>4, <1>b
  <2> QED
    BY <1>4, <2>1, <2>4, <2>5, <2>6, <2>7 DEF FrameInv
<1>5. CASE HostEndsLine
  BY <1>4, <1>5, Numbers DEF HostEndsLine
<1>6. ASSUME NEW m \in Message, HostWrites(m) PROVE FrameInv'
  <2>1. Len(lines) + 1 \in Unit /\ Len(lines) + 1 # NL
    BY <1>6, LimitsAssumption DEF HostWrites, Unit, Line, NL, Types
  <2> QED
    BY <1>4, <1>6, <2>1 DEF HostWrites
<1>7. CASE NextQueued
  BY <1>7 DEF NextQueued, hostVars, FrameInv, Unread
<1>8. CASE TakeStep
  <2>1. /\ WholeLine \/ FinalLine
        /\ Unread' = RestOfBuffer \o pipe
        /\ UNCHANGED <<torn, closed, pipe, eof>>
    BY <1>8, TakeEffect DEF Unread
  <2>2. Alternates(Unread')
    BY <2>1, LineTaken
  <2>3. ASSUME ~closed
        PROVE  /\ \A i \in DOMAIN Unread' : i = Len(Unread') => (torn <=> Unread'[i] # NL)
               /\ torn => Unread' # <<>>
    <3>1. WholeLine
      BY <2>1, <2>3, <1>b DEF FinalLine
    <3>2. Unread' = Tail(Tail(Unread)) /\ Len(Unread) >= 2
      BY <2>1, <3>1, LineTaken
    <3>3. /\ \A i \in DOMAIN Unread' : i = Len(Unread') =>
               Len(Unread) \in DOMAIN Unread /\ Unread'[i] = Unread[Len(Unread)]
          /\ Unread' = <<>> => Len(Unread) = 2 
          /\ Unread[2] = NL
      BY <1>a, <1>b, <3>2, AlternatesTail
    <3>4. \A i \in DOMAIN Unread : i = Len(Unread) => (torn <=> Unread[i] # NL)
      BY <2>3 DEF FrameInv
    <3>5. 2 \in DOMAIN Unread
      BY <1>a, <3>2
    <3> QED
      BY <3>3, <3>4, <3>5
  <2> QED
    BY <1>b, <2>1, <2>2, <2>3 DEF FrameInv
<1> QED
  BY <1>1, <1>2, <1>3, <1>5, <1>6, <1>7, <1>8, ChannelStep

\* Nothing precedes nothing, and an empty part ascends.
LEMMA EmptyOrder ==
  /\ Ascending(<<>>) /\ Range(<<>>) = {}
  /\ \A s : Precedes(s, <<>>) /\ Precedes(<<>>, s)
BY DEF Ascending, Precedes, Range

\* The order of the lines is the order in which they were written, wherever a line goes.
LEMMA OrderStep ==
  ASSUME Types, Written, FrameInv, OrderInv, [Next]_vars
  PROVE  OrderInv'
<1>a. /\ pipe \in Seq(Unit) /\ buffer \in Seq(Unit) /\ served \in Seq(Line) /\ queued \in Seq(Line)
      /\ lines \in Seq(Message) /\ Len(lines) \in Nat /\ Len(lines) <= MaxLines
  BY DEF Types
<1>b. /\ pipe \in Seq(Nat) /\ buffer \in Seq(Nat) /\ served \in Seq(Nat) /\ queued \in Seq(Nat)
  BY <1>a, Numbers
<1>c. \A i \in Range(served) \cup Range(queued) : i \in Nat /\ i # NL
  BY <1>a, Numbers DEF Range
<1>1. CASE ChannelKept
  BY <1>1 DEF OrderInv, ChannelKept
<1>2. CASE ReadStep
  <2>1. PICK a \in Seq(Unit) : pipe = a \o pipe' /\ buffer' = buffer \o a
    BY <1>2, Reading DEF ReadStep
  <2>2. pipe' \in Seq(Unit) /\ a \in Seq(Nat) /\ pipe' \in Seq(Nat)
    BY <1>2, Reading, Numbers DEF ReadStep
  <2>3. Range(pipe) = Range(a) \cup Range(pipe') /\ Range(buffer') = Range(buffer) \cup Range(a)
    BY <1>a, <2>1, <2>2, RangeConcatenation
  <2>4. Ascending(a) /\ Ascending(pipe') /\ Precedes(a, pipe')
    BY <2>1, <2>2, SplitAscending DEF OrderInv
  <2>5. Precedes(buffer, a) /\ Precedes(buffer, pipe')
    BY <2>3 DEF OrderInv, Precedes
  <2>6. Ascending(buffer')
    BY <1>b, <2>1, <2>2, <2>4, <2>5, ConcatAscending DEF OrderInv
  <2>7. Precedes(buffer', pipe')
    BY <2>3, <2>4, <2>5 DEF Precedes
  <2>8. UNCHANGED <<served, queued>>
    BY <1>2 DEF ReadStep
  <2>9. /\ Precedes(served, buffer') /\ Precedes(queued, buffer')
        /\ Precedes(served, pipe') /\ Precedes(queued, pipe')
    BY <2>3 DEF OrderInv, Precedes
  <2> QED
    BY <2>4, <2>6, <2>7, <2>8, <2>9 DEF OrderInv
<1>3. CASE HostCloses
  BY <1>3 DEF HostCloses, inputVars, loopVars, OrderInv
<1>4. ASSUME NEW e \in Unit, pipe' = Append(pipe, e), UNCHANGED <<served, queued, buffer>>,
             e # NL => \A i \in Range(served) \cup Range(queued) \cup Range(buffer) \cup Range(pipe) :
                         i < e
      PROVE  OrderInv'
  <2>1. Ascending(pipe') /\ Range(pipe') = Range(pipe) \cup {e}
    <3>1. e \in Nat
      BY Numbers
    <3> QED
      BY <1>4, <1>b, <3>1, AppendAscending DEF OrderInv
  <2>2. Precedes(served, pipe') /\ Precedes(queued, pipe') /\ Precedes(buffer, pipe')
    BY <1>4, <2>1 DEF OrderInv, Precedes
  <2> QED
    BY <1>4, <2>1, <2>2 DEF OrderInv
<1>5. CASE HostEndsLine
  BY <1>4, <1>5, Numbers DEF HostEndsLine, loopVars
<1>6. ASSUME NEW m \in Message, HostWrites(m) PROVE OrderInv'
  <2>1. Len(lines) + 1 \in Unit
    BY <1>6, <1>a, LimitsAssumption DEF HostWrites, Unit, Line, NL
  <2>2. \A i \in Range(served) \cup Range(queued) \cup Range(buffer) \cup Range(pipe) :
          i \in Nat /\ i <= Len(lines)
    BY <1>b DEF Range, Written
  <2>3. \A i \in Range(served) \cup Range(queued) \cup Range(buffer) \cup Range(pipe) :
          i < Len(lines) + 1
    BY <1>a, <2>2
  <2> QED
    BY <1>4, <1>6, <2>1, <2>3 DEF HostWrites, loopVars
<1>7. CASE NextQueued
  <2>1. /\ queued # <<>> /\ queued' = Tail(queued) /\ served' = Append(served, Head(queued))
        /\ UNCHANGED <<buffer, pipe>>
    BY <1>7 DEF NextQueued, Serve
  <2>2. /\ Ascending(queued') /\ Range(queued) = {Head(queued)} \cup Range(queued')
        /\ Head(queued) # NL => \A n \in Range(queued') \ {NL} : Head(queued) < n
    BY <1>b, <2>1, TailAscending DEF OrderInv
  <2>3. Head(queued) \in Nat /\ Head(queued) # NL
    BY <1>c, <2>2
  <2>4. \A m \in Range(served) : m < Head(queued)
    BY <1>c, <2>2, <2>3 DEF OrderInv, Precedes
  <2>5. Ascending(served') /\ Range(served') = Range(served) \cup {Head(queued)}
    BY <1>b, <2>1, <2>3, <2>4, AppendAscending DEF OrderInv
  <2>6. Precedes(served', queued')
    BY <2>2, <2>3, <2>5 DEF OrderInv, Precedes
  <2>7. /\ Precedes(served', buffer) /\ Precedes(served', pipe)
        /\ Precedes(queued', buffer) /\ Precedes(queued', pipe)
    BY <2>2, <2>3, <2>5 DEF OrderInv, Precedes
  <2> QED
    BY <2>1, <2>2, <2>5, <2>6, <2>7 DEF OrderInv
<1>8. CASE TakeStep
  <2> DEFINE h == Head(buffer)
  <2>1. WholeLine \/ FinalLine
    BY <1>8, TakeEffect
  <2>2. /\ h \in Line /\ h \in Nat /\ h # NL /\ h \in Range(buffer)
        /\ Range(RestOfBuffer) \subseteq Range(buffer)
        /\ Ascending(RestOfBuffer)
        /\ \A n \in Range(RestOfBuffer) \ {NL} : h < n
    BY <2>1, LineTaken, Numbers DEF OrderInv
  <2>3. buffer' = RestOfBuffer /\ pipe' = pipe
    BY <1>8, TakeEffect
  <2> HIDE DEF h
  <2>4. /\ Ascending(buffer') /\ Ascending(pipe') /\ Precedes(buffer', pipe')
        /\ Precedes(served, buffer') /\ Precedes(queued, buffer')
        /\ Precedes(served, pipe') /\ Precedes(queued, pipe')
    BY <2>2, <2>3 DEF OrderInv, Precedes
  <2>5. \A m \in Range(served) \cup Range(queued) : m < h
    BY <1>c, <2>2 DEF OrderInv, Precedes
  <2>6. \A n \in (Range(buffer') \cup Range(pipe')) \ {NL} : h < n
    BY <2>2, <2>3 DEF OrderInv, Precedes
  <2>7. CASE queued = <<>> /\ served' = Append(served, h) /\ queued' = queued
    <3>1. Ascending(served') /\ Range(served') = Range(served) \cup {h}
      BY <1>b, <2>2, <2>5, <2>7, AppendAscending DEF OrderInv
    <3>2. Precedes(served', buffer') /\ Precedes(served', pipe')
      BY <2>4, <2>6, <3>1 DEF Precedes
    <3>3. Precedes(served', queued')
      BY <2>7, EmptyOrder
    <3> QED
      BY <2>4, <2>7, <3>1, <3>2, <3>3 DEF OrderInv
  <2>8. CASE queued' = Append(queued, h) /\ served' = served
    <3>1. Ascending(queued') /\ Range(queued') = Range(queued) \cup {h}
      BY <1>b, <2>2, <2>5, <2>8, AppendAscending DEF OrderInv
    <3>2. Precedes(queued', buffer') /\ Precedes(queued', pipe')
      BY <2>4, <2>6, <3>1 DEF Precedes
    <3>3. Precedes(served', queued')
      BY <2>5, <2>8, <3>1 DEF OrderInv, Precedes
    <3> QED
      BY <2>4, <2>8, <3>1, <3>2, <3>3 DEF OrderInv
  <2>9. CASE UNCHANGED <<queued, served>>
    BY <2>4, <2>9 DEF OrderInv
  <2> QED
    BY <1>8, <2>7, <2>8, <2>9, TakeEffect DEF h
<1> QED
  BY <1>1, <1>2, <1>3, <1>5, <1>6, <1>7, <1>8, ChannelStep

\* A line leaves the channel as a consumed cancellation or with the transport.
LEMMA LossStep ==
  ASSUME Types, FrameInv, LossInv, [Next]_vars
  PROVE  LossInv'
<1>a. /\ pipe \in Seq(Unit) /\ buffer \in Seq(Unit) /\ served \in Seq(Line) /\ queued \in Seq(Line)
      /\ lines \in Seq(Message) /\ Len(lines) \in Nat /\ DOMAIN lines = 1..Len(lines)
  BY DEF Types
<1>b. \A i \in DOMAIN lines : i # NL
  BY <1>a DEF NL
<1>1. CASE ChannelKept
  BY <1>1 DEF LossInv, InChannel, ChannelKept
<1>2. CASE ReadStep
  <2>1. PICK a \in Seq(Unit) : pipe = a \o pipe' /\ buffer' = buffer \o a
    BY <1>2, Reading DEF ReadStep
  <2>2. pipe' \in Seq(Unit)
    BY <1>2, Reading DEF ReadStep
  <2>3. Range(pipe) = Range(a) \cup Range(pipe') /\ Range(buffer') = Range(buffer) \cup Range(a)
    BY <1>a, <2>1, <2>2, RangeConcatenation
  <2>4. UNCHANGED <<lines, served, queued, failed>>
    BY <1>2 DEF ReadStep, ReadSome
  <2> QED
    BY <2>3, <2>4 DEF LossInv, InChannel
<1>3. CASE HostCloses
  BY <1>3 DEF HostCloses, inputVars, loopVars, LossInv, InChannel
<1>4. CASE HostEndsLine
  <2>1. Range(pipe') = Range(pipe) \cup {NL}
    BY <1>4, <1>a, AppendRange, Numbers DEF HostEndsLine
  <2>2. UNCHANGED <<lines, served, queued, buffer, failed>>
    BY <1>4 DEF HostEndsLine, loopVars
  <2> QED
    BY <2>1, <2>2 DEF LossInv, InChannel
<1>5. ASSUME NEW m \in Message, HostWrites(m) PROVE LossInv'
  <2>1. Len(lines) + 1 \in Unit
    BY <1>5, <1>a, LimitsAssumption DEF HostWrites, Unit, Line, Types
  <2>2. Range(pipe') = Range(pipe) \cup {Len(lines) + 1}
    BY <1>5, <1>a, <2>1, AppendRange DEF HostWrites
  <2>3. \A i \in DOMAIN lines' :
          i = Len(lines) + 1 \/ (i \in DOMAIN lines /\ lines'[i] = lines[i])
    BY <1>5, <1>a DEF HostWrites
  <2>4. UNCHANGED <<served, queued, buffer, failed>>
    BY <1>5 DEF HostWrites, loopVars
  <2> QED
    BY <2>2, <2>3, <2>4 DEF LossInv, InChannel
<1>6. CASE NextQueued
  <2>1. /\ queued # <<>> /\ queued' = Tail(queued) /\ served' = Append(served, Head(queued))
        /\ UNCHANGED <<lines, buffer, pipe, failed>>
    BY <1>6 DEF NextQueued, Serve, hostVars
  <2>2. Head(queued) \in Line
    BY <1>a, <2>1
  <2>3. Range(queued) = {Head(queued)} \cup Range(queued')
    BY <1>a, <2>1, HeadTailRange
  <2>4. Range(served') = Range(served) \cup {Head(queued)}
    BY <1>a, <2>1, <2>2, AppendRange
  <2> QED
    BY <2>1, <2>3, <2>4 DEF LossInv, InChannel
<1>7. CASE TakeStep
  <2>1. WholeLine \/ FinalLine
    BY <1>7, TakeEffect
  <2>2. /\ Head(buffer) \in Line
        /\ Range(buffer) \ {NL} = {Head(buffer)} \cup (Range(RestOfBuffer) \ {NL})
    BY <2>1, LineTaken
  <2>3. /\ Range(Append(served, Head(buffer))) = Range(served) \cup {Head(buffer)}
        /\ Range(Append(queued, Head(buffer))) = Range(queued) \cup {Head(buffer)}
    BY <1>a, <2>2, AppendRange
  <2>4. buffer' = RestOfBuffer /\ pipe' = pipe /\ lines' = lines /\ (failed => failed')
    BY <1>7, TakeEffect
  <2>5. \A i \in DOMAIN lines : i \in Range(buffer) => i = Head(buffer) \/ i \in Range(buffer')
    BY <1>b, <2>2, <2>4
  <2>6. CASE served' = Append(served, Head(buffer)) /\ queued' = queued
    BY <2>3, <2>4, <2>5, <2>6 DEF LossInv, InChannel
  <2>7. CASE queued' = Append(queued, Head(buffer)) /\ served' = served
    BY <2>3, <2>4, <2>5, <2>7 DEF LossInv, InChannel
  <2>8. CASE UNCHANGED <<queued, served>> /\ (lines[Head(buffer)].kind = "cancel" \/ failed')
    BY <2>4, <2>5, <2>8 DEF LossInv, InChannel
  <2> QED
    BY <1>7, <2>6, <2>7, <2>8, TakeEffect
<1> QED
  BY <1>1, <1>2, <1>3, <1>4, <1>5, <1>6, <1>7, ChannelStep

-----------------------------------------------------------------------------
(* The loop *)

\* Whoever sees the transport fail ends the loop or remembers it.
LEMMA FailStep ==
  ASSUME FailInv, [Next]_vars
  PROVE  FailInv'
<1> USE DEF FailInv, hostVars, inputVars, callVars, loopVars
<1>1. ASSUME NEW m \in Message, HostWrites(m) PROVE FailInv'
  BY <1>1 DEF HostWrites
<1>2. CASE HostEndsLine
  BY <1>2 DEF HostEndsLine
<1>3. CASE HostCloses
  BY <1>3 DEF HostCloses
<1>4. CASE NextQueued
  BY <1>4 DEF NextQueued, Serve
<1>5. CASE NextLine
  BY <1>5 DEF NextLine, Serve
<1>6. CASE NextRejects
  BY <1>6 DEF NextRejects, Leave
<1>7. CASE NextEnds
  BY <1>7 DEF NextEnds, Leave
<1>8. CASE NextReads
  BY <1>8 DEF NextReads, ReadSome, ReadEof
<1>9. CASE NextReadFails
  BY <1>9 DEF NextReadFails, ReadFails, Leave
<1>10. CASE ServeSilent
  BY <1>10 DEF ServeSilent
<1>11. CASE ServeOther
  BY <1>11 DEF ServeOther
<1>12. CASE ServeCall
  BY <1>12 DEF ServeCall
<1>13. CASE Reply
  BY <1>13 DEF Reply
<1>14. CASE ReplyFails
  BY <1>14 DEF ReplyFails, Leave
<1>15. CASE CallFinishes
  BY <1>15 DEF CallFinishes
<1>16. CASE CallPolls
  BY <1>16 DEF CallPolls
<1>17. CASE PollCancel
  BY <1>17 DEF PollCancel
<1>18. CASE PollQueues
  BY <1>18 DEF PollQueues
<1>19. CASE PollOverflows
  BY <1>19 DEF PollOverflows, PollFails
<1>20. CASE PollRejects
  BY <1>20 DEF PollRejects, PollFails
<1>21. CASE PollReads
  BY <1>21 DEF PollReads, ReadSome
<1>22. CASE PollEnds
  BY <1>22 DEF PollEnds, PollReturns
<1>23. CASE PollReadFails
  BY <1>23 DEF PollReadFails, ReadFails, PollFails
<1>24. CASE UNCHANGED vars
  BY <1>24 DEF vars
<1> QED
  BY <1>1, <1>2, <1>3, <1>4, <1>5, <1>6, <1>7, <1>8, <1>9, <1>10, <1>11, <1>12, <1>13,
     <1>14, <1>15, <1>16, <1>17, <1>18, <1>19, <1>20, <1>21, <1>22, <1>23, <1>24 DEF
     Next, HostStep, NextStep, ServeStep, PollStep

\* The line in hand is one that was written.
LEMMA InHandStep ==
  ASSUME Types, Written, FrameInv, InHand, [Next]_vars
  PROVE  InHand'
<1> USE DEF InHand, hostVars, inputVars, callVars, loopVars
<1>a. /\ lines \in Seq(Message) /\ Len(lines) \in Nat
      /\ queued \in Seq(Line) /\ Line = 1..MaxLines /\ MaxLines \in Nat
  BY LimitsAssumption DEF Types, Line
<1>b. \A i \in Line : i <= Len(lines) => i \in 1..Len(lines)
  BY <1>a
<1>1. ASSUME NEW m \in Message, HostWrites(m) PROVE InHand'
  <2>1. Len(lines') = Len(lines) + 1
    BY <1>1, <1>a DEF HostWrites
  <2>2. \A i \in 1..Len(lines) : i \in 1..(Len(lines) + 1)
    BY <1>a
  <2> QED
    BY <1>1, <2>1, <2>2 DEF HostWrites
<1>2. CASE HostEndsLine
  BY <1>2 DEF HostEndsLine
<1>3. CASE HostCloses
  BY <1>3 DEF HostCloses
<1>4. CASE NextQueued
  <2>1. Head(queued) \in Line /\ Head(queued) \in Range(queued)
    BY <1>4, <1>a, HeadTailRange DEF NextQueued
  <2> QED
    BY <1>4, <2>1, <1>b DEF NextQueued, Serve, Written
<1>5. CASE NextLine
  <2>1. Head(buffer) \in Line /\ Head(buffer) \in Range(buffer)
    BY <1>5, LineTaken DEF NextLine
  <2> QED
    BY <1>5, <2>1, <1>b DEF NextLine, Serve, Written
<1>6. CASE NextRejects
  BY <1>6 DEF NextRejects, Leave
<1>7. CASE NextEnds
  BY <1>7 DEF NextEnds, Leave
<1>8. CASE NextReads
  BY <1>8 DEF NextReads, ReadSome, ReadEof
<1>9. CASE NextReadFails
  BY <1>9 DEF NextReadFails, ReadFails, Leave
<1>10. CASE ServeSilent
  BY <1>10 DEF ServeSilent
<1>11. CASE ServeOther
  BY <1>11 DEF ServeOther
<1>12. CASE ServeCall
  BY <1>12 DEF ServeCall
<1>13. CASE Reply
  BY <1>13 DEF Reply
<1>14. CASE ReplyFails
  BY <1>14 DEF ReplyFails, Leave
<1>15. CASE CallFinishes
  BY <1>15 DEF CallFinishes
<1>16. CASE CallPolls
  BY <1>16 DEF CallPolls
<1>17. CASE PollCancel
  BY <1>17 DEF PollCancel
<1>18. CASE PollQueues
  BY <1>18 DEF PollQueues
<1>19. CASE PollOverflows
  BY <1>19 DEF PollOverflows, PollFails
<1>20. CASE PollRejects
  BY <1>20 DEF PollRejects, PollFails
<1>21. CASE PollReads
  BY <1>21 DEF PollReads, ReadSome
<1>22. CASE PollEnds
  BY <1>22 DEF PollEnds, PollReturns
<1>23. CASE PollReadFails
  BY <1>23 DEF PollReadFails, ReadFails, PollFails
<1>24. CASE UNCHANGED vars
  BY <1>24 DEF vars
<1> QED
  BY <1>1, <1>2, <1>3, <1>4, <1>5, <1>6, <1>7, <1>8, <1>9, <1>10, <1>11, <1>12, <1>13,
     <1>14, <1>15, <1>16, <1>17, <1>18, <1>19, <1>20, <1>21, <1>22, <1>23, <1>24 DEF
     Next, HostStep, NextStep, ServeStep, PollStep

\* A call starts without a reason to stop, and gets one from the host or the transport only.
LEMMA WaitStep ==
  ASSUME Types, Written, FrameInv, WaitInv, [Next]_vars
  PROVE  WaitInv'
<1> USE DEF WaitInv, hostVars, inputVars, callVars, loopVars
<1>a. lines \in Seq(Message) /\ Len(lines) \in Nat /\ DOMAIN lines = 1..Len(lines)
  BY DEF Types
<1>1. ASSUME NEW m \in Message, HostWrites(m) PROVE WaitInv'
  <2>1. \A i \in DOMAIN lines : i \in DOMAIN lines' /\ lines'[i] = lines[i]
    BY <1>1, <1>a DEF HostWrites
  <2>2. UNCHANGED <<pc, failed, closed, disconnected, cancelled, active>>
    BY <1>1 DEF HostWrites
  <2> QED
    BY <2>1, <2>2
<1>2. CASE HostEndsLine
  BY <1>2 DEF HostEndsLine
<1>3. CASE HostCloses
  BY <1>3 DEF HostCloses
<1>4. CASE NextQueued
  BY <1>4 DEF NextQueued, Serve
<1>5. CASE NextLine
  BY <1>5 DEF NextLine, Serve
<1>6. CASE NextRejects
  BY <1>6 DEF NextRejects, Leave
<1>7. CASE NextEnds
  BY <1>7 DEF NextEnds, Leave
<1>8. CASE NextReads
  BY <1>8 DEF NextReads, ReadSome, ReadEof
<1>9. CASE NextReadFails
  BY <1>9 DEF NextReadFails, ReadFails, Leave
<1>10. CASE ServeSilent
  BY <1>10 DEF ServeSilent
<1>11. CASE ServeOther
  BY <1>11 DEF ServeOther
<1>12. CASE ServeCall
  BY <1>12 DEF ServeCall
<1>13. CASE Reply
  BY <1>13 DEF Reply
<1>14. CASE ReplyFails
  BY <1>14 DEF ReplyFails, Leave
<1>15. CASE CallFinishes
  BY <1>15 DEF CallFinishes
<1>16. CASE CallPolls
  BY <1>16 DEF CallPolls
<1>17. CASE PollCancel
  <2>1. Head(buffer) \in Line /\ Head(buffer) \in Range(buffer)
    BY <1>17, LineTaken DEF PollCancel
  <2>2. Head(buffer) \in DOMAIN lines
    BY <2>1, <1>a, LimitsAssumption DEF Written, Line
  <2>3. UNCHANGED <<pc, lines, failed, closed, disconnected, active>>
    BY <1>17 DEF PollCancel
  <2>4. CASE IsCancelFor(Head(buffer))
    BY <2>2, <2>3, <2>4 DEF IsCancelFor
  <2>5. CASE ~IsCancelFor(Head(buffer))
    <3>1. cancelled' = (cancelled \/ IsCancelFor(Head(buffer)))
      BY <1>17 DEF PollCancel
    <3>2. cancelled' => cancelled
      BY <3>1, <2>5
    <3> QED
      BY <2>3, <3>2
  <2> QED
    BY <2>4, <2>5
<1>18. CASE PollQueues
  BY <1>18 DEF PollQueues
<1>19. CASE PollOverflows
  BY <1>19 DEF PollOverflows, PollFails
<1>20. CASE PollRejects
  BY <1>20 DEF PollRejects, PollFails
<1>21. CASE PollReads
  BY <1>21 DEF PollReads, ReadSome
<1>22. CASE PollEnds
  <2>1. CASE cancelled' \/ disconnected'
    BY <2>1, <1>22 DEF PollEnds, PollReturns
  <2>2. CASE ~(cancelled' \/ disconnected')
    BY <2>2
  <2> QED
    BY <2>1, <2>2
<1>23. CASE PollReadFails
  BY <1>23 DEF PollReadFails, ReadFails, PollFails
<1>24. CASE UNCHANGED vars
  BY <1>24 DEF vars
<1> QED
  BY <1>1, <1>2, <1>3, <1>4, <1>5, <1>6, <1>7, <1>8, <1>9, <1>10, <1>11, <1>12, <1>13,
     <1>14, <1>15, <1>16, <1>17, <1>18, <1>19, <1>20, <1>21, <1>22, <1>23, <1>24 DEF
     Next, HostStep, NextStep, ServeStep, PollStep

\* A buffer with neither two units nor one has none.
LEMMA NoUnit ==
  ASSUME NEW n \in Nat, ~(n >= 2), n # 1
  PROVE  n = 0
OBVIOUS

\* What was served and needs an answer is answered before the next line is taken.
LEMMA AnswerStep ==
  ASSUME Types, Written, InHand, FrameInv, OrderInv, LossInv, FailInv, AnswerInv, [Next]_vars
  PROVE  AnswerInv'
<1> USE DEF AnswerInv, CleanEndAnswersAll, Answerable, hostVars, inputVars, callVars, loopVars
<1>a. /\ lines \in Seq(Message) /\ Len(lines) \in Nat /\ DOMAIN lines = 1..Len(lines)
      /\ served \in Seq(Line) /\ queued \in Seq(Line) /\ answered \in Seq(Line)
      /\ answered \in Seq(Nat) /\ pc \in Phase
  BY Numbers DEF Types
<1>b. \A i \in Range(served) : i \in Line /\ i \in Nat /\ i # NL /\ i \in DOMAIN lines
  <2>1. \A i \in Range(served) : i \in Line /\ i <= Len(lines)
    BY <1>a DEF Range, Written
  <2>2. \A i \in Line : i <= Len(lines) => i \in DOMAIN lines
    BY <1>a, LimitsAssumption DEF Line
  <2>3. \A i \in Line : i \in Nat /\ i # NL
    BY Numbers
  <2> QED
    BY <2>1, <2>2, <2>3
<1>q. pc = "next" /\ queued # <<>> =>
        Head(queued) \in Line /\ \A n \in Range(served) : n < Head(queued)
  <2> SUFFICES ASSUME queued # <<>>
               PROVE  Head(queued) \in Line /\ \A n \in Range(served) : n < Head(queued)
    OBVIOUS
  <2>1. Head(queued) \in Line /\ Head(queued) \in Range(queued)
    BY <1>a, HeadTailRange
  <2> QED
    BY <1>b, <2>1, Numbers DEF OrderInv, Precedes
<1>l. WholeLine \/ FinalLine =>
        Head(buffer) \in Line /\ \A n \in Range(served) : n < Head(buffer)
  <2> SUFFICES ASSUME WholeLine \/ FinalLine
               PROVE  Head(buffer) \in Line /\ \A n \in Range(served) : n < Head(buffer)
    OBVIOUS
  <2>1. Head(buffer) \in Line /\ Head(buffer) \in Range(buffer)
    BY LineTaken
  <2> QED
    BY <1>b, <2>1, Numbers DEF OrderInv, Precedes
<1>s. ASSUME NEW h \in Line, \A n \in Range(served) : n < h, pc = "next",
             served' = Append(served, h), current' = h, pc' = "serve",
             UNCHANGED <<answered, rc, lines>>
      PROVE  AnswerInv'
  <2>1. Range(served') = Range(served) \cup {h}
    BY <1>a, <1>s, AppendRange
  <2>2. h \notin Range(served) /\ h <= h
    BY <1>b, <1>s, Numbers
  <2>3. \A i \in Range(served') : i <= h
    BY <1>b, <1>s, <2>1, <2>2, Numbers
  <2>4. Range(answered) = {i \in Range(served') \ {h} : Answerable(i)}
    <3>1. Range(answered) = {i \in Range(served) : Answerable(i)}
      BY <1>s
    <3>2. Range(served') \ {h} = Range(served)
      BY <2>1, <2>2
    <3> QED
      BY <3>1, <3>2
  <2>5. rc' = "running"
    BY <1>s
  <2> QED
    BY <1>s, <2>1, <2>3, <2>4, <2>5
<1>1. ASSUME NEW m \in Message, HostWrites(m) PROVE AnswerInv'
  <2>1. \A i \in DOMAIN lines : lines'[i] = lines[i]
    BY <1>1, <1>a DEF HostWrites
  <2>2. UNCHANGED <<pc, served, answered, current, rc>> /\ rc # "clean"
    BY <1>1 DEF HostWrites, FrameInv
  <2>3. \A i \in Range(served) : Answerable(i)' <=> Answerable(i)
    BY <1>b, <2>1
  <2>4. pc \in {"serve", "call", "poll", "reply"} => current \in DOMAIN lines
    BY <1>a DEF InHand
  <2>5. ASSUME pc = "next"
        PROVE  Range(answered) = {i \in Range(served) : Answerable(i)'}
    <3>1. Range(answered) = {i \in Range(served) : Answerable(i)}
      BY <2>5
    <3> QED
      BY <3>1, <2>3
  <2>6. ASSUME pc \in {"serve", "call", "poll", "reply"}
        PROVE  Range(answered) = {i \in Range(served) \ {current} : Answerable(i)'}
    <3>1. Range(answered) = {i \in Range(served) \ {current} : Answerable(i)}
      BY <2>6
    <3> QED
      BY <3>1, <2>3
  <2>7. pc \in {"call", "poll", "reply"} => Answerable(current)'
    <3>1. pc \in {"call", "poll", "reply"} => current \in DOMAIN lines /\ Answerable(current)
      BY <2>4
    <3> QED
      BY <2>1, <2>2, <3>1
  <2> QED
    BY <2>2, <2>5, <2>6, <2>7
<1>2. CASE HostEndsLine
  BY <1>2 DEF HostEndsLine
<1>3. CASE HostCloses
  BY <1>3 DEF HostCloses
<1>4. CASE NextQueued
  <2>1. Head(queued) \in Line /\ \A n \in Range(served) : n < Head(queued)
    BY <1>4, <1>q DEF NextQueued
  <2> QED
    BY <1>4, <2>1, <1>s DEF NextQueued, Serve
<1>5. CASE NextLine
  <2>1. Head(buffer) \in Line /\ \A n \in Range(served) : n < Head(buffer)
    BY <1>5, <1>l DEF NextLine
  <2> QED
    BY <1>5, <2>1, <1>s DEF NextLine, Serve
<1>6. CASE NextRejects
  BY <1>6 DEF NextRejects, Leave
<1>7. CASE NextEnds
  <2>1. CASE lost
    BY <2>1, <1>7 DEF NextEnds, Leave
  <2>2. CASE ~lost
    <3>1. ~failed /\ pc = "next"
      BY <2>2, <1>7 DEF FailInv, NextEnds
    <3>2. queued = <<>> /\ buffer = <<>> /\ pipe = <<>>
      <4>1. buffer \in Seq(Unit) /\ ~(Len(buffer) >= 2) /\ Len(buffer) # 1
        BY <1>7 DEF NextEnds, WholeLine, FinalLine, Types
      <4>2. Len(buffer) \in Nat
        BY <4>1, LenProperties
      <4>3. Len(buffer) = 0
        BY <4>1, <4>2, NoUnit
      <4>5. buffer = <<>>
        BY <4>1, <4>3, EmptySeq
      <4> QED
        BY <1>7, <4>5 DEF NextEnds, FrameInv
    <3>3. \A i \in DOMAIN lines : i \in Range(served) \/ lines[i].kind = "cancel"
      BY <3>1, <3>2, EmptyOrder DEF LossInv, InChannel
    <3>4. Range(answered) = {i \in Range(served) : Answerable(i)}
      BY <3>1
    <3>5. Range(answered) = {i \in DOMAIN lines : Answerable(i)}
      BY <1>b, <3>3, <3>4
    <3>6. /\ rc' = "clean" /\ pc' = "ended"
          /\ UNCHANGED <<answered, served, lines, eof>> /\ eof
      BY <2>2, <1>7 DEF NextEnds, Leave
    <3> QED
      BY <3>5, <3>6
  <2> QED
    BY <2>1, <2>2
<1>8. CASE NextReads
  BY <1>8 DEF NextReads, ReadSome, ReadEof
<1>9. CASE NextReadFails
  BY <1>9 DEF NextReadFails, ReadFails, Leave
<1>10. CASE ServeSilent
  <2>1. ~Answerable(current) /\ pc = "serve" /\ pc' = "next"
    BY <1>10 DEF ServeSilent
  <2>2. UNCHANGED <<lines, answered, served, rc>>
    BY <1>10 DEF ServeSilent
  <2>3. {i \in Range(served) : Answerable(i)} = {i \in Range(served) \ {current} : Answerable(i)}
    BY <2>1
  <2>4. Range(answered) = {i \in Range(served) \ {current} : Answerable(i)}
    BY <2>1
  <2> QED
    BY <2>1, <2>2, <2>3, <2>4
<1>11. CASE ServeOther
  BY <1>11 DEF ServeOther
<1>12. CASE ServeCall
  BY <1>12 DEF ServeCall
<1>13. CASE Reply
  <2>1. /\ pc = "reply" /\ pc' = "next" /\ answered' = Append(answered, current)
        /\ UNCHANGED <<lines, served, rc>>
    BY <1>13 DEF Reply
  <2>2. /\ current \in Range(served) /\ Answerable(current)
        /\ \A i \in Range(served) : i <= current
        /\ Range(answered) = {i \in Range(served) \ {current} : Answerable(i)}
    BY <2>1
  <2>3. current \in Nat
    BY <1>b, <2>2
  <2>4. \A i \in Range(answered) : i \in Range(served) /\ i # current
    BY <2>2
  <2>5. \A i \in Range(answered) : i < current
    BY <1>b, <2>2, <2>3, <2>4
  <2>6. Ascending(answered') /\ Range(answered') = Range(answered) \cup {current}
    BY <1>a, <2>1, <2>3, <2>5, AppendAscending
  <2>7. Range(answered') = {i \in Range(served) : Answerable(i)}
    BY <2>2, <2>6
  <2> QED
    BY <2>1, <2>6, <2>7
<1>14. CASE ReplyFails
  BY <1>14 DEF ReplyFails, Leave
<1>15. CASE CallFinishes
  BY <1>15 DEF CallFinishes
<1>16. CASE CallPolls
  BY <1>16 DEF CallPolls
<1>17. CASE PollCancel
  BY <1>17 DEF PollCancel
<1>18. CASE PollQueues
  BY <1>18 DEF PollQueues
<1>19. CASE PollOverflows
  BY <1>19 DEF PollOverflows, PollFails
<1>20. CASE PollRejects
  BY <1>20 DEF PollRejects, PollFails
<1>21. CASE PollReads
  BY <1>21 DEF PollReads, ReadSome
<1>22. CASE PollEnds
  <2>1. UNCHANGED <<lines, answered, served, rc, current>> /\ pc = "poll" /\ pc' \in {"reply", "call"}
    <3>1. CASE cancelled' \/ disconnected'
      BY <3>1, <1>22 DEF PollEnds, PollReturns
    <3>2. CASE ~(cancelled' \/ disconnected')
      BY <3>2, <1>22 DEF PollEnds, PollReturns
    <3> QED
      BY <3>1, <3>2, <1>22 DEF PollEnds
  <2> QED
    BY <2>1
<1>23. CASE PollReadFails
  BY <1>23 DEF PollReadFails, ReadFails, PollFails
<1>24. CASE UNCHANGED vars
  BY <1>24 DEF vars
<1> QED
  BY <1>1, <1>2, <1>3, <1>4, <1>5, <1>6, <1>7, <1>8, <1>9, <1>10, <1>11, <1>12, <1>13,
     <1>14, <1>15, <1>16, <1>17, <1>18, <1>19, <1>20, <1>21, <1>22, <1>23, <1>24 DEF
     Next, HostStep, NextStep, ServeStep, PollStep

\* Whatever ends the wait of a call is a reason to.
LEMMA InterruptStep ==
  ASSUME Types, WaitInv, [Next]_vars, pc = "poll", pc' = "reply"
  PROVE  \/ closed \/ failed'
         \/ \E i \in DOMAIN lines : lines[i].kind = "cancel" /\ lines[i].id = active
<1>1. CASE PollOverflows \/ PollRejects \/ PollReadFails
  BY <1>1 DEF PollOverflows, PollRejects, PollReadFails, ReadFails
<1>2. CASE PollEnds
  <2>1. cancelled' \/ disconnected'
    BY <1>2 DEF PollEnds, PollReturns
  <2>2. cancelled' = cancelled /\ disconnected' = (disconnected \/ closed) /\ failed' = failed
    BY <1>2 DEF PollEnds
  <2> QED
    BY <2>1, <2>2 DEF WaitInv
<1>3. CASE HostStep
  BY <1>3 DEF HostStep, HostWrites, HostEndsLine, HostCloses, loopVars
<1>4. CASE NextStep \/ NextReadFails \/ ServeStep \/ ReplyFails \/ CallFinishes
  BY <1>4 DEF NextStep, NextQueued, NextLine, NextRejects, NextEnds, NextReads,
     NextReadFails,
              ServeStep, ServeSilent, ServeOther, ServeCall, Reply, ReplyFails, CallFinishes
<1>5. CASE CallPolls \/ PollCancel \/ PollQueues \/ PollReads
  BY <1>5 DEF CallPolls, PollCancel, PollQueues, PollReads, loopVars
<1>6. CASE UNCHANGED vars
  BY <1>6 DEF vars, loopVars
<1> QED
  BY <1>1, <1>2, <1>3, <1>4, <1>5, <1>6 DEF Next, PollStep

-----------------------------------------------------------------------------
(* Theorems *)

\* The inductive invariant.
LEMMA Invariant == Spec => []Inv
<1>1. Init => Inv
  <2> SUFFICES ASSUME Init PROVE Inv
    OBVIOUS
  <2>1. InHand /\ FailInv /\ WaitInv
    BY DEF Init, InHand, FailInv, WaitInv
  <2>7. Types
    <3>1. \A S : <<>> \in Seq(S) /\ Len(<<>>) = 0
      BY EmptySeq
    <3>2. 0 <= MaxLines /\ 0 <= QueueLimit /\ NL \in Unit
      BY LimitsAssumption, Numbers
    <3> QED
      BY <3>1, <3>2 DEF Init, Types, Phase
  <2>2. Written /\ OrderInv
    BY EmptyOrder DEF Init, Written, OrderInv
  <2>3. Unread = <<>>
    BY DEF Init, Unread
  <2>4. FrameInv
    BY <2>3 DEF Init, FrameInv, Alternates
  <2>5. LossInv
    BY DEF Init, LossInv
  <2>6. AnswerInv
    BY EmptyOrder DEF Init, AnswerInv
  <2> QED
    BY <2>1, <2>2, <2>4, <2>5, <2>6, <2>7 DEF Inv
<1>2. Inv /\ [Next]_vars => Inv'
  BY TypeStep, WrittenStep, InHandStep, FrameStep, OrderStep, LossStep, FailStep,
     AnswerStep,
     WaitStep DEF Inv
<1> QED
  BY <1>1, <1>2, PTL DEF Spec

\* The ranges hold; a request id is active exactly while its call runs, and the queue
\* stays within MCP_QUEUED_LINE_LIMIT.
THEOREM Typed == Spec => []TypeOK
<1>1. Inv => TypeOK
  <2> SUFFICES ASSUME Types PROVE TypeOK
    BY DEF Inv
  <2>1. /\ Range(pipe) \cup Range(buffer) \subseteq Unit
        /\ Range(queued) \cup Range(served) \cup Range(answered) \subseteq Line
    BY DEF Types, Range
  <2>2. {torn, closed, eof, failed, cancelled, disconnected, lost} \subseteq BOOLEAN
    BY DEF Types
  <2> QED
    BY <2>1, <2>2 DEF Types, TypeOK
<1> QED
  BY <1>1, Invariant, PTL

\* Lines reach mcp_run in the order in which they were written, none twice, although
\* polls inside calls queue some of them (mcp_input_transport_poll_cancelled).
THEOREM FirstInFirstOut == Spec => []LinesInOrder
<1>1. Inv => LinesInOrder
  <2> SUFFICES ASSUME Types, OrderInv PROVE LinesInOrder
    BY DEF Inv
  <2>1. /\ served \in Seq(Nat) /\ queued \in Seq(Nat) /\ buffer \in Seq(Nat) /\ pipe \in Seq(Nat)
    BY Numbers DEF Types
  <2> DEFINE a == served \o queued
             b == a \o buffer
  <2>2. a \in Seq(Nat) /\ Range(a) = Range(served) \cup Range(queued)
    BY <2>1, ConcatProperties, RangeConcatenation
  <2>3. Ascending(a)
    BY <2>1, ConcatAscending DEF OrderInv
  <2>4. Precedes(a, buffer) /\ Precedes(a, pipe)
    BY <2>2 DEF OrderInv, Precedes
  <2> HIDE DEF a
  <2>5. b \in Seq(Nat) /\ Range(b) = Range(a) \cup Range(buffer)
    BY <2>1, <2>2, ConcatProperties, RangeConcatenation
  <2>6. Ascending(b)
    BY <2>1, <2>2, <2>3, <2>4, ConcatAscending DEF OrderInv
  <2>7. Precedes(b, pipe)
    BY <2>4, <2>5 DEF OrderInv, Precedes
  <2> HIDE DEF b
  <2>8. Ascending(b \o pipe)
    BY <2>1, <2>5, <2>6, <2>7, ConcatAscending DEF OrderInv
  <2> QED
    BY <2>8 DEF LinesInOrder, InWork, a, b
<1> QED
  BY <1>1, Invariant, PTL

\* A line that never reaches the loop was a cancellation, or the transport failed and
\* says so: an overflowing queue drops nothing silently.
THEOREM NothingLost == Spec => []NothingLostUnnoticed
<1>1. Inv => NothingLostUnnoticed
  <2> SUFFICES ASSUME Types, LossInv PROVE NothingLostUnnoticed
    BY DEF Inv
  <2>1. /\ served \in Seq(Unit) /\ queued \in Seq(Unit) /\ buffer \in Seq(Unit) /\ pipe \in Seq(Unit)
    BY Numbers, SeqMonotonic DEF Types
  <2> DEFINE a == served \o queued
             b == a \o buffer
  <2>2. a \in Seq(Unit) /\ Range(a) = Range(served) \cup Range(queued)
    BY <2>1, ConcatProperties, RangeConcatenation
  <2> HIDE DEF a
  <2>3. b \in Seq(Unit) /\ Range(b) = Range(a) \cup Range(buffer)
    BY <2>1, <2>2, ConcatProperties, RangeConcatenation
  <2> HIDE DEF b
  <2>4. Range(b \o pipe) = Range(b) \cup Range(pipe)
    BY <2>1, <2>3, RangeConcatenation
  <2>5. \A i : InChannel(i) => i \in Range(InWork)
    BY <2>2, <2>3, <2>4 DEF InChannel, InWork, a, b
  <2> QED
    BY <2>5 DEF LossInv, NothingLostUnnoticed
<1> QED
  BY <1>1, Invariant, PTL

\* A server that ends with EXIT_SUCCESS has answered all its host asked, once and in
\* order (the end of mcp_run).
THEOREM CleanEnd == Spec => []CleanEndAnswersAll
<1>1. Inv => CleanEndAnswersAll
  BY DEF Inv, AnswerInv, CleanEndAnswersAll
<1> QED
  BY <1>1, Invariant, PTL

\* A waiting call stops for its own cancellation, a host that is gone or a failed
\* transport (mcp_request_cancelled): no flag of an earlier call reaches it.
THEOREM Interruption == Spec => InterruptedForCause
<1>1. Inv /\ [Next]_vars =>
        [pc = "poll" /\ pc' = "reply" =>
           \/ closed \/ failed'
           \/ \E i \in DOMAIN lines :
                lines[i].kind = "cancel" /\ lines[i].id = active]_vars
  BY InterruptStep DEF Inv
<1> QED
  BY <1>1, Invariant, PTL DEF Spec, InterruptedForCause
=============================================================================
