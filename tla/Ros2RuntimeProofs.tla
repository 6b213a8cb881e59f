--------------------------- MODULE Ros2RuntimeProofs ---------------------------
(* Proofs about Ros2Runtime, for any proposals and any number of lines the    *)
(* sidecar should not have written.                                          *)
EXTENDS Ros2Runtime, SequenceTheorems, TLAPS

-----------------------------------------------------------------------------
(* The inductive invariant. *)

Handled == {"observe", "refresh", "dispatch"}
Elements(s) == {s[i] : i \in 1 .. Len(s)}

\* The members of T in s are all different.
DistinctIn(s, T) == \A i, j \in 1 .. Len(s) : s[i] = s[j] /\ s[i] \in T => i = j

IsDispatch(n, p) == n \in 1 .. Len(requests) /\ requests[n] = [op |-> "dispatch", of |-> p]
ProposalLines == [proposal : Proposal]

\* The processor handles one proposal at a time, and knows it.
OneHandled ==
    /\ \A p, q \in Proposal : handling[p] \in Handled /\ handling[q] \in Handled => p = q
    /\ (\E p \in Proposal : handling[p] \in Handled) => active \/ once
    /\ once => slot = None
    /\ once /\ ~completed => \A p \in Proposal : handling[p] = "idle"

\* A proposal is in the pipe, in the slot or taken up: in one of them only.
OnePlace ==
    /\ slot # None => handling[slot] = "idle"
    /\ \A p \in Proposal : [proposal |-> p] \in Elements(stdout) =>
          handling[p] = "idle" /\ slot # p
    /\ DistinctIn(stdout, ProposalLines)

\* Nothing is taken up before the command has subscribed.
Subscribed ==
    /\ \A p \in Proposal : handling[p] # "idle" => subscribed
    /\ subscribed => stage \in {"serving", "close", "closing", "closed"}

\* A caller awaits one request at a time, and only where its progress says so.
OneAwaited ==
    \A n \in pending :
       /\ waitsFor[requests[n].of] = n
       /\ requests[n].of = Main =>
             \/ stage \in {"ping", "doctor"} /\ requests[n].op \in {"ping", "doctor"}
             \/ stage = "closing" /\ requests[n].op = "shutdown"
       /\ requests[n].of \in Proposal =>
             /\ handling[requests[n].of] \in Handled
             /\ requests[n].op \in {"doctor", "dispatch"}

\* A proposal is dispatched once, at the end of its handling, by Execute only.
DispatchOnce ==
    /\ \A n \in 1 .. Len(requests) : requests[n].op = "dispatch" => requests[n].of \in Proposal
    /\ \A p \in Proposal :
          /\ \A m, n \in 1 .. Len(requests) : IsDispatch(m, p) /\ IsDispatch(n, p) => m = n
          /\ (\E n \in 1 .. Len(requests) : IsDispatch(n, p)) =>
                handling[p] \in {"dispatch", "over"}
          /\ handling[p] = "dispatch" /\ waitsFor[p] # 0 => IsDispatch(waitsFor[p], p)

\* What a proposal's handling concluded is what became of its dispatch.
Concluded ==
    \A p \in Proposal :
       /\ outcome[p] # "none" => handling[p] = "over"
       /\ outcome[p] = "blocked" => \A n \in 1 .. Len(requests) : ~IsDispatch(n, p)
       /\ outcome[p] \in {"refused", "completed"} =>
             \E n \in 1 .. Len(requests) : IsDispatch(n, p) /\ answers[n] = outcome[p]

\* The sidecar is done with request n: it was read and answered, or lost.
Done(n) == n \notin Elements(stdin) /\ n # work
Truth(n, answer) ==
    requests[n].op = "dispatch" =>
       /\ answer = "refused" => goal[requests[n].of] \in {"none", "refused"}
       /\ answer = "completed" => goal[requests[n].of] = "done"

\* Each request is read once; an answer under way, or given, is true of a
\* request the sidecar will not come back to.
AnswersTrue ==
    /\ DistinctIn(stdin, Nat)
    /\ work \notin Elements(stdin)
    /\ \A line \in Elements(stdout) : line \in [id : Nat, answer : Answer] =>
          /\ line.id \in 1 .. Len(requests)
          /\ Done(line.id) /\ Truth(line.id, line.answer)
    /\ \A n \in 1 .. Len(requests) : answers[n] \in {"refused", "completed"} =>
          Done(n) /\ Truth(n, answers[n])
    /\ \A p \in Proposal : goal[p] # "none" => \E n \in 1 .. Len(requests) : IsDispatch(n, p)

\* The slot is used by a busy processor only; a proposal that arrived was taken
\* up, waits, or was turned away, and one in the pipe has not arrived.
Accounted ==
    /\ ~active => slot = None
    /\ \A p \in Proposal : [proposal |-> p] \in Elements(stdout) => p \notin overflowed
    /\ \A n \in 1 .. Len(arrived) :
          \/ arrived[n] \in overflowed
          \/ arrived[n] = slot
          \/ handling[arrived[n]] # "idle"

IInv ==
    /\ TypeOK
    /\ OneHandled
    /\ OnePlace
    /\ Subscribed
    /\ OneAwaited
    /\ DispatchOnce
    /\ Concluded
    /\ AnswersTrue
    /\ Accounted
    /\ ProposalsAccounted

-----------------------------------------------------------------------------
(* Pipes. *)

\* A line is written at the end of a pipe.
LEMMA Written ==
    ASSUME NEW S, NEW s \in Seq(S), NEW e \in S
    PROVE  /\ Append(s, e) \in Seq(S)
           /\ Len(Append(s, e)) = Len(s) + 1
           /\ \A i \in 1 .. Len(s) : Append(s, e)[i] = s[i]
           /\ Append(s, e)[Len(s) + 1] = e
           /\ Elements(Append(s, e)) = Elements(s) \cup {e}
<1>1. /\ Append(s, e) \in Seq(S)
      /\ Len(Append(s, e)) = Len(s) + 1
      /\ \A i \in 1 .. Len(s) : Append(s, e)[i] = s[i]
      /\ Append(s, e)[Len(s) + 1] = e
  BY AppendProperties
<1>2. Len(s) \in Nat
  BY LenProperties
<1>3. 1 .. (Len(s) + 1) = (1 .. Len(s)) \cup {Len(s) + 1}
  BY <1>2
<1>4. Elements(Append(s, e)) = Elements(s) \cup {e}
  BY <1>1, <1>3 DEF Elements
<1> QED
  BY <1>1, <1>4

\* What was written is as unique as it is new.
LEMMA WrittenDistinct ==
    ASSUME NEW S, NEW s \in Seq(S), NEW e \in S, NEW T,
           DistinctIn(s, T), e \in T => e \notin Elements(s)
    PROVE  DistinctIn(Append(s, e), T)
<1>1. /\ Len(Append(s, e)) = Len(s) + 1
      /\ \A i \in 1 .. Len(s) : Append(s, e)[i] = s[i]
      /\ Append(s, e)[Len(s) + 1] = e
  BY Written
<1>2. Len(s) \in Nat
  BY LenProperties
<1>3. \A i \in 1 .. (Len(s) + 1) : i \in 1 .. Len(s) \/ i = Len(s) + 1
  BY <1>2
<1>4. \A i \in 1 .. Len(s) : s[i] \in Elements(s)
  BY DEF Elements
<1> SUFFICES ASSUME NEW i \in 1 .. (Len(s) + 1), NEW j \in 1 .. (Len(s) + 1),
                    Append(s, e)[i] = Append(s, e)[j], Append(s, e)[i] \in T
             PROVE  i = j
  BY <1>1 DEF DistinctIn
<1>5. CASE i \in 1 .. Len(s) /\ j \in 1 .. Len(s)
  BY <1>1, <1>5 DEF DistinctIn
<1>6. CASE i = Len(s) + 1 /\ j \in 1 .. Len(s)
  BY <1>1, <1>4, <1>6
<1>7. CASE i \in 1 .. Len(s) /\ j = Len(s) + 1
  BY <1>1, <1>4, <1>7
<1> QED
  BY <1>3, <1>5, <1>6, <1>7

\* A line is read at the front of a pipe.
LEMMA Read ==
    ASSUME NEW S, NEW s \in Seq(S), s # <<>>
    PROVE  /\ Head(s) \in S /\ Tail(s) \in Seq(S)
           /\ Head(s) \in Elements(s) /\ Elements(Tail(s)) \subseteq Elements(s)
           /\ Elements(s) \subseteq Elements(Tail(s)) \cup {Head(s)}
           /\ \A T : DistinctIn(s, T) =>
                 /\ DistinctIn(Tail(s), T)
                 /\ Head(s) \in T => Head(s) \notin Elements(Tail(s))
<1>1. /\ Head(s) \in S /\ Tail(s) \in Seq(S)
      /\ Len(Tail(s)) = Len(s) - 1
      /\ \A i \in 1 .. Len(Tail(s)) : Tail(s)[i] = s[i + 1]
  BY HeadTailProperties
<1>2. Len(s) \in Nat \ {0} /\ 1 \in 1 .. Len(s)
  BY EmptySeq
<1>3. Head(s) = s[1]
  OBVIOUS
<1>4. \A i \in 1 .. Len(Tail(s)) : i + 1 \in 1 .. Len(s) /\ i \in Int /\ i + 1 # 1
  BY <1>1, <1>2
<1>5. \A i \in 1 .. Len(s) : i = 1 \/ (i - 1 \in 1 .. Len(Tail(s)) /\ (i - 1) + 1 = i)
  BY <1>1, <1>2
<1>6. Head(s) \in Elements(s) /\ Elements(Tail(s)) \subseteq Elements(s)
  BY <1>1, <1>2, <1>3, <1>4 DEF Elements
<1>7. Elements(s) \subseteq Elements(Tail(s)) \cup {Head(s)}
  BY <1>1, <1>3, <1>5 DEF Elements
<1>8. ASSUME NEW T, DistinctIn(s, T)
      PROVE  /\ DistinctIn(Tail(s), T)
             /\ Head(s) \in T => Head(s) \notin Elements(Tail(s))
  <2>1. ASSUME NEW i \in 1 .. Len(Tail(s)), NEW j \in 1 .. Len(Tail(s)),
               Tail(s)[i] = Tail(s)[j], Tail(s)[i] \in T
        PROVE  i = j
    <3>1. i + 1 = j + 1
      BY <1>1, <1>4, <1>8, <2>1 DEF DistinctIn
    <3> QED
      BY <1>4, <3>1
  <2>2. ASSUME Head(s) \in T, NEW i \in 1 .. Len(Tail(s)), Tail(s)[i] = Head(s)
        PROVE  FALSE
    BY <1>1, <1>2, <1>3, <1>4, <1>8, <2>2 DEF DistinctIn
  <2> QED
    BY <2>1, <2>2 DEF DistinctIn, Elements
<1> QED
  BY <1>1, <1>6, <1>7, <1>8

-----------------------------------------------------------------------------
(* The transport. *)

Operations == {"ping", "doctor", "dispatch", "shutdown"}

ChannelTypes ==
    /\ child \in BOOLEAN /\ terminal \in BOOLEAN
    /\ requests \in Seq(Request)
    /\ answers \in [1 .. Len(requests) -> Answer \cup {"none"}]
    /\ pending = {n \in 1 .. Len(requests) : answers[n] = "none"}
    /\ waitsFor \in [Caller -> 0 .. Len(requests)]
    /\ stdin \in Seq(1 .. Len(requests))
    /\ process \in {"none", "running", "killed", "gone"}
    /\ child => process \in {"running", "gone"} /\ ~terminal
    /\ work \in 0 .. Len(requests)

\* What a written request changes: it gets the next identity, nobody else's.
Wrote(x, op) ==
    LET id == Len(requests) + 1
    IN  /\ Len(requests') = id
        /\ requests'[id] = [op |-> op, of |-> x]
        /\ \A n \in 1 .. Len(requests) : requests'[n] = requests[n]
        /\ answers'[id] = "none"
        /\ \A n \in 1 .. Len(requests) : answers'[n] = answers[n]
        /\ pending' = pending \cup {id}
        /\ waitsFor'[x] = id
        /\ Elements(stdin') = Elements(stdin) \cup {id}
        /\ DistinctIn(stdin, Nat) => DistinctIn(stdin', Nat)

\* A request is refused at once, or written.
LEMMA Asked ==
    ASSUME NEW x \in Caller, NEW op \in Operations, ChannelTypes, Ask(x, op)
    PROVE  /\ waitsFor' \in [Caller -> 0 .. Len(requests')]
           /\ \A y \in Caller : y # x => waitsFor'[y] = waitsFor[y]
           /\ Len(requests) \in Nat
           /\ \/ /\ waitsFor'[x] = 0
                 /\ UNCHANGED <<child, process, requests, answers, pending, stdin>>
              \/ /\ Wrote(x, op)
                 /\ ~terminal /\ child' = TRUE
                 /\ process' = IF child THEN process ELSE "running"
                 /\ requests' \in Seq(Request)
                 /\ answers' \in [1 .. Len(requests') -> Answer \cup {"none"}]
                 /\ stdin' \in Seq(1 .. Len(requests'))
<1> USE DEF ChannelTypes
<1>1. Len(requests) \in Nat
  BY LenProperties
<1>2. CASE /\ waitsFor' = [waitsFor EXCEPT ![x] = 0]
           /\ UNCHANGED <<child, process, requests, answers, pending, stdin>>
  BY <1>1, <1>2
<1>3. ASSUME ~(terminal \/ Cardinality(pending) >= MaximumPendingRequests)
      PROVE  /\ waitsFor' \in [Caller -> 0 .. Len(requests')]
             /\ \A y \in Caller : y # x => waitsFor'[y] = waitsFor[y]
             /\ Wrote(x, op)
             /\ ~terminal /\ child' = TRUE
             /\ process' = IF child THEN process ELSE "running"
             /\ requests' \in Seq(Request)
             /\ answers' \in [1 .. Len(requests') -> Answer \cup {"none"}]
             /\ stdin' \in Seq(1 .. Len(requests'))
  <2> DEFINE id == Len(requests) + 1
  <2>1. /\ child' = TRUE
        /\ process' = IF child THEN process ELSE "running"
        /\ requests' = Append(requests, [op |-> op, of |-> x])
        /\ answers' = Append(answers, "none")
        /\ pending' = pending \cup {id}
        /\ waitsFor' = [waitsFor EXCEPT ![x] = id]
        /\ stdin' = Append(stdin, id)
    BY <1>3 DEF Ask
  <2>2. [op |-> op, of |-> x] \in Request
    BY DEF Request, Operations
  <2>3. /\ requests' \in Seq(Request) /\ Len(requests') = id
        /\ \A n \in 1 .. Len(requests) : requests'[n] = requests[n]
        /\ requests'[id] = [op |-> op, of |-> x]
    BY <2>1, <2>2, Written
  <2>4. answers \in Seq(Answer \cup {"none"}) /\ Len(answers) = Len(requests)
    BY <1>1
  <2>5. /\ answers' \in Seq(Answer \cup {"none"}) /\ Len(answers') = id
        /\ \A n \in 1 .. Len(requests) : answers'[n] = answers[n]
        /\ answers'[id] = "none"
    BY <2>1, <2>4, Written
  <2>6. answers' \in [1 .. id -> Answer \cup {"none"}]
    BY <2>5, LenProperties
  <2>7. 1 .. Len(requests) \subseteq 1 .. id /\ id \in 1 .. id /\ id \notin 1 .. Len(requests)
    BY <1>1
  <2>8. stdin \in Seq(1 .. id)
    BY <2>7, SeqMonotonic
  <2>9. /\ stdin' \in Seq(1 .. id)
        /\ Elements(stdin') = Elements(stdin) \cup {id}
    BY <2>1, <2>7, <2>8, Written
  <2>10. Elements(stdin) \subseteq 1 .. Len(requests)
    BY ElementOfSeq DEF Elements
  <2>11. DistinctIn(stdin, Nat) => DistinctIn(stdin', Nat)
    BY <2>1, <2>7, <2>8, <2>10, WrittenDistinct
  <2>12. waitsFor' \in [Caller -> 0 .. id] /\ waitsFor'[x] = id
         /\ \A y \in Caller : y # x => waitsFor'[y] = waitsFor[y]
    <3>1. \A y \in Caller : waitsFor[y] \in 0 .. id
      BY <1>1
    <3>2. id \in 0 .. id
      BY <1>1
    <3> HIDE DEF id
    <3> QED
      BY <2>1, <3>1, <3>2
  <2> QED
    BY <1>3, <2>1, <2>3, <2>5, <2>6, <2>9, <2>11, <2>12 DEF Wrote
<1> QED
  BY <1>1, <1>2, <1>3 DEF Ask

\* A request keeps the types of the channel, refused or written.
LEMMA AskTypes ==
    ASSUME NEW x \in Caller, NEW op \in Operations, ChannelTypes, Ask(x, op),
           UNCHANGED <<terminal, work>>
    PROVE  ChannelTypes'
<1>1. Len(requests) \in Nat /\ work \in 0 .. Len(requests)
  BY Asked DEF ChannelTypes
<1>2. CASE waitsFor'[x] = 0
             /\ UNCHANGED <<child, process, requests, answers, pending, stdin>>
  <2>1. waitsFor' \in [Caller -> 0 .. Len(requests')]
    BY Asked
  <2> QED
    BY <1>2, <2>1 DEF ChannelTypes
<1>3. CASE /\ Wrote(x, op)
           /\ ~terminal /\ child' = TRUE
           /\ process' = IF child THEN process ELSE "running"
           /\ requests' \in Seq(Request)
           /\ answers' \in [1 .. Len(requests') -> Answer \cup {"none"}]
           /\ stdin' \in Seq(1 .. Len(requests'))
  <2>1. waitsFor' \in [Caller -> 0 .. Len(requests')]
    BY Asked
  <2>2. /\ Len(requests') = Len(requests) + 1
        /\ answers'[Len(requests) + 1] = "none"
        /\ \A n \in 1 .. Len(requests) : answers'[n] = answers[n]
        /\ pending' = pending \cup {Len(requests) + 1}
    BY <1>3 DEF Wrote
  <2>3. 1 .. Len(requests') = (1 .. Len(requests)) \cup {Len(requests) + 1}
    BY <1>1, <2>2
  <2>4. pending' = {n \in 1 .. Len(requests') : answers'[n] = "none"}
    BY <2>2, <2>3 DEF ChannelTypes
  <2>5. work' \in 0 .. Len(requests')
    BY <1>1, <2>2
  <2>6. /\ child' \in BOOLEAN /\ terminal' \in BOOLEAN
        /\ process' \in {"none", "running", "killed", "gone"}
        /\ child' => process' \in {"running", "gone"} /\ ~terminal'
    BY <1>3 DEF ChannelTypes
  <2> QED
    BY <1>3, <2>1, <2>4, <2>5, <2>6 DEF ChannelTypes
<1> QED
  BY <1>2, <1>3, Asked

\* A failed channel has no pending request left.
LEMMA FailTypes ==
    ASSUME ChannelTypes, FailChannel, UNCHANGED <<stdin, work>>
    PROVE  ChannelTypes'
<1>1. answers' \in [1 .. Len(requests') -> Answer \cup {"none"}]
      /\ \A n \in 1 .. Len(requests) : answers'[n] # "none"
  BY DEF ChannelTypes, FailChannel, RejectedAnswers, Answer
<1>2. pending' = {} /\ requests' = requests /\ terminal' = TRUE /\ child' = FALSE
      /\ waitsFor' = waitsFor
      /\ process' \in {process, "killed"}
  BY DEF FailChannel
<1> QED
  BY <1>1, <1>2 DEF ChannelTypes

\* The answer of a pending request settles it.
LEMMA SettleTypes ==
    ASSUME NEW n \in pending, NEW a \in Answer, ChannelTypes,
           answers' = [answers EXCEPT ![n] = a], pending' = pending \ {n},
           UNCHANGED <<child, terminal, requests, waitsFor, stdin, process, work>>
    PROVE  ChannelTypes'
<1>1. a # "none"
  BY DEF Answer
<1>2. n \in 1 .. Len(requests)
  BY DEF ChannelTypes
<1>3. pending' = {m \in 1 .. Len(requests) : answers'[m] = "none"}
  BY <1>1, <1>2 DEF ChannelTypes
<1> QED
  BY <1>3 DEF ChannelTypes

-----------------------------------------------------------------------------
(* The steps, by what they do to the channel and to the proposals. *)

Fixed == UNCHANGED <<work, goal>>

MainAsks ==
    /\ UNCHANGED <<handling, outcome, terminal>> /\ Fixed
    /\ \/ stage = "new" /\ stage' = "ping" /\ Ask(Main, "ping")
       \/ stage = "ping" /\ stage' = "doctor" /\ Settled(Main) /\ Ask(Main, "doctor")
       \/ stage = "close" /\ stage' = "closing" /\ Ask(Main, "shutdown")

TakesUp(p) ==
    /\ UNCHANGED <<outcome, stage, terminal>> /\ Fixed
    /\ stdout # <<>> /\ Head(stdout) = [proposal |-> p] /\ subscribed
    /\ (~once /\ ~active) \/ (once /\ ~completed)
    /\ handling' = [handling EXCEPT ![p] = "observe"]
    /\ Ask(p, "doctor")

Advances(p) ==
    /\ UNCHANGED <<outcome, stage, terminal>> /\ Fixed
    /\ Settled(p)
    /\ \/ /\ handling[p] = "observe" /\ handling' = [handling EXCEPT ![p] = "refresh"]
          /\ Ask(p, "doctor")
       \/ /\ handling[p] = "refresh" /\ handling' = [handling EXCEPT ![p] = "dispatch"]
          /\ Ask(p, "dispatch")

Ends(p) ==
    /\ UNCHANGED <<stage, terminal>> /\ Fixed
    /\ Settled(p) /\ handling[p] \in Handled
    /\ IF handling[p] = "dispatch"
       THEN outcome' = [outcome EXCEPT ![p] = OutcomeOf(Result(p))]
       ELSE outcome' = [outcome EXCEPT ![p] = "blocked"]
    /\ \/ /\ ~once /\ slot \in Proposal
          /\ handling' = [handling EXCEPT ![p] = "over", ![slot] = "observe"]
          /\ Ask(slot, "doctor")
       \/ /\ handling' = [handling EXCEPT ![p] = "over"]
          /\ Waiting

Fails ==
    /\ FailChannel
    /\ UNCHANGED <<stdin, handling, outcome>> /\ Fixed

Settles ==
    /\ UNCHANGED <<stage, child, terminal, requests, waitsFor, stdin, process>>
    /\ UNCHANGED <<handling, outcome>> /\ Fixed
    /\ stdout # <<>>
    /\ \E n \in pending, a \in Answer :
          /\ Head(stdout) = [id |-> n, answer |-> a]
          /\ answers' = [answers EXCEPT ![n] = a]
          /\ pending' = pending \ {n}

Rests ==
    /\ UNCHANGED <<child, terminal, requests, answers, pending, waitsFor>>
    /\ UNCHANGED <<handling, outcome>>
    /\ \/ UNCHANGED <<stdin, process, work>>
       \/ TakeRequest
       \/ work' = 0 /\ process' \in {process, "gone"} /\ UNCHANGED stdin
    /\ stage' = stage \/ stage \notin {"ping", "doctor", "closing"} \/ Settled(Main)

Kinds ==
    \/ MainAsks \/ Fails \/ Settles \/ Rests
    \/ \E p \in Proposal : TakesUp(p) \/ Advances(p) \/ Ends(p)

\* A step of the command asks, ends the channel, or leaves it alone.
LEMMA CommandKinds ==
    ASSUME TypeOK, Command \/ Stop \/ ProposalTimeout
    PROVE  Kinds
<1> USE DEF Kinds, Onward, Unhandled, processor, Fixed
<1>1. CASE Start \/ Started
  BY <1>1 DEF Start, Started, Continues, MainAsks
<1>2. CASE Reported \/ Subscribe \/ Stop \/ ProposalTimeout
  BY <1>2 DEF Reported, Subscribe, Stop, ProposalTimeout, Continues, Rests, channel
<1>3. CASE StartFails
  <2>1. CASE FailChannel
    BY <1>3, <2>1 DEF StartFails, Fails
  <2>2. CASE stage \in {"ping", "doctor"} /\ Continues(Main) /\ UNCHANGED <<channel, process>>
    BY <1>3, <2>2 DEF StartFails, Continues, Rests, channel
  <2>3. CASE stage = "subscribe"
             /\ UNCHANGED <<child, terminal, requests, answers, pending, waitsFor, process>>
    BY <1>3, <2>3 DEF StartFails, Rests
  <2> QED
    BY <1>3, <2>1, <2>2, <2>3 DEF StartFails
<1>4. CASE Close
  BY <1>4 DEF Close, Rests, MainAsks, channel
<1>5. CASE Closed
  BY <1>5 DEF Closed, Fails
<1> QED
  BY <1>1, <1>2, <1>3, <1>4, <1>5 DEF Command

\* The handling that ends hands over to the proposal in the slot, if any.
LEMMA FinishKinds ==
    ASSUME TypeOK, NEW p \in Proposal, Finish(p)
    PROVE  /\ \/ /\ ~once /\ slot \in Proposal
                 /\ handling' = [handling EXCEPT ![p] = "over", ![slot] = "observe"]
                 /\ Ask(slot, "doctor")
              \/ /\ handling' = [handling EXCEPT ![p] = "over"]
                 /\ Waiting
           /\ UNCHANGED terminal
BY DEF Finish, TypeOK

\* The handling of a proposal advances, ends, or ends the channel.
LEMMA HandleKinds ==
    ASSUME TypeOK, NEW p \in Proposal, Handle(p)
    PROVE  Kinds
<1> USE DEF Kinds, Fixed
<1>1. CASE InvalidReport(p)
  BY <1>1 DEF InvalidReport, Fails
<1>2. CASE Evaluate(p)
  <2>1. CASE Blocked(p)
    <3>1. Ends(p)
      BY <1>2, <2>1, FinishKinds DEF Evaluate, Goes, Blocked, Continues, Ends, Handled
    <3> QED
      BY <3>1
  <2>2. CASE ~Blocked(p)
    <3>1. Advances(p)
      BY <1>2, <2>2 DEF Evaluate, Goes, Continues, Advances
    <3> QED
      BY <3>1
  <2> QED
    BY <2>1, <2>2
<1>3. CASE Execute(p)
  <2>1. CASE Blocked(p)
    <3>1. Ends(p)
      BY <1>3, <2>1, FinishKinds DEF Execute, Goes, Blocked, Continues, Ends, Handled
    <3> QED
      BY <3>1
  <2>2. CASE ~Blocked(p)
    <3>1. Advances(p)
      BY <1>3, <2>2 DEF Execute, Goes, Continues, Advances
    <3> QED
      BY <3>1
  <2> QED
    BY <2>1, <2>2
<1>4. CASE Conclude(p)
  <2>1. Ends(p)
    BY <1>4, FinishKinds DEF Conclude, Continues, Ends, Handled
  <2> QED
    BY <2>1
<1> QED
  BY <1>1, <1>2, <1>3, <1>4 DEF Handle

\* A line is garbage, an answer or a proposal.
LEMMA LineKinds ==
    ASSUME TypeOK, HandleLine
    PROVE  Kinds
<1> USE DEF Kinds, Fixed
<1>0. UNCHANGED <<once, stage, work, goal, babble, outcome>> /\ stdout # <<>>
  BY DEF HandleLine
<1>1. CASE HandleGarbage(Head(stdout))
  BY <1>0, <1>1 DEF HandleGarbage, Fails
<1>2. CASE HandleReply(Head(stdout))
  <2>1. CASE FailChannel
    BY <1>0, <1>2, <2>1 DEF HandleReply, Fails
  <2>2. CASE ~FailChannel
    <3>1. PICK n \in Nat, a \in Answer : Head(stdout) = [id |-> n, answer |-> a]
      BY <1>2 DEF HandleReply
    <3>2. Head(stdout).id = n /\ Head(stdout).answer = a
      BY <3>1
    <3>3. /\ n \in pending
          /\ answers' = [answers EXCEPT ![n] = a]
          /\ pending' = pending \ {n}
          /\ UNCHANGED <<subscribed, child, terminal, requests, waitsFor, process>>
          /\ UNCHANGED <<stdin, processor, handling>>
      BY <1>2, <2>2, <3>2 DEF HandleReply
    <3>4. Settles
      BY <1>0, <3>1, <3>3 DEF Settles
    <3> QED
      BY <3>4
  <2> QED
    BY <2>1, <2>2
<1>3. CASE HandleProposal(Head(stdout))
  <2>1. PICK p \in Proposal : Head(stdout) = [proposal |-> p] /\ Head(stdout).proposal = p
    BY <1>3 DEF HandleProposal
  <2>2. UNCHANGED terminal
    BY <1>3 DEF HandleProposal
  <2>3. CASE subscribed /\ ~once /\ Submit(p)
    <3>1. CASE TakeUp(p) /\ ~Busy
      <4>1. TakesUp(p)
        BY <1>0, <2>1, <2>2, <2>3, <3>1 DEF TakeUp, TakesUp, Busy
      <4> QED
        BY <4>1
    <3>2. CASE UNCHANGED handling /\ Waiting
      BY <1>0, <2>2, <3>2 DEF Waiting, Rests
    <3> QED
      BY <2>3, <3>1, <3>2 DEF Submit
  <2>4. CASE subscribed /\ once /\ SubmitOnce(p)
    <3>1. CASE TakeUp(p) /\ ~completed
      <4>1. TakesUp(p)
        BY <1>0, <2>1, <2>2, <2>4, <3>1 DEF TakeUp, TakesUp
      <4> QED
        BY <4>1
    <3>2. CASE UNCHANGED handling /\ Waiting
      BY <1>0, <2>2, <3>2 DEF Waiting, Rests
    <3> QED
      BY <2>4, <3>1, <3>2 DEF SubmitOnce
  <2>5. CASE UNCHANGED <<processor, handling>> /\ Waiting
    BY <1>0, <2>2, <2>5 DEF Waiting, Rests
  <2> QED
    BY <1>3, <2>1, <2>3, <2>4, <2>5 DEF HandleProposal
<1> QED
  BY <1>1, <1>2, <1>3 DEF HandleLine

\* The sidecar leaves the side of the command alone.
LEMMA SidecarKinds ==
    ASSUME Sidecar
    PROVE  Rests
<1> USE DEF Rests, Idle, channel
<1>1. CASE TakeRequest
  BY <1>1 DEF TakeRequest
<1>2. CASE SendGoal \/ Babble \/ \E p \in Proposal : PublishProposal(p) \/ Controller(p)
  BY <1>2 DEF SendGoal, Babble, PublishProposal, Controller
<1>3. CASE Reply \/ SidecarExits
  BY <1>3 DEF Reply, SidecarExits
<1> QED
  BY <1>1, <1>2, <1>3 DEF Sidecar

\* Every step is of one of these kinds.
LEMMA StepKinds ==
    ASSUME TypeOK, [Next]_vars
    PROVE  Kinds
<1>1. CASE ChildExits \/ Timeout
  BY <1>1 DEF ChildExits, Timeout, Fails, Kinds, Fixed
<1>2. CASE UNCHANGED vars
  BY <1>2 DEF vars, channel, sidecar, Rests, Kinds
<1>3. CASE Sidecar
  BY <1>3, SidecarKinds DEF Kinds
<1> QED
  BY <1>1, <1>2, <1>3, CommandKinds, HandleKinds, LineKinds DEF Next

-----------------------------------------------------------------------------
(* Types. *)

\* The types outside the channel.
OtherTypes ==
    /\ once \in BOOLEAN /\ subscribed \in BOOLEAN
    /\ stage \in Stages
    /\ stdout \in Seq(Frames)
    /\ goal \in [Proposal -> {"none", "sent", "refused", "done"}]
    /\ babble \in 0 .. MaxBabble
    /\ active \in BOOLEAN /\ completed \in BOOLEAN
    /\ slot \in Proposal \cup {None}
    /\ handling \in [Proposal -> {"idle", "observe", "refresh", "dispatch", "over"}]
    /\ outcome \in [Proposal -> {"none", "blocked", "refused", "completed", "unknown"}]
    /\ arrived \in Seq(Proposal) /\ handled \in Seq(Proposal)
    /\ overflowed \subseteq Proposal

\* The type invariant, split into the channel and the rest.
LEMMA TypesSplit == TypeOK <=> ChannelTypes /\ OtherTypes
BY DEF TypeOK, ChannelTypes, OtherTypes

\* A step that asks and settles nothing keeps the types of the channel.
LEMMA RestTypes ==
    ASSUME TypeOK, Rests
    PROVE  ChannelTypes'
<1> USE DEF Rests
<1>1. ChannelTypes
  BY TypesSplit
<1>2. Len(requests) \in Nat
  BY <1>1, LenProperties DEF ChannelTypes
<1>3. CASE UNCHANGED <<stdin, process, work>>
  BY <1>1, <1>3 DEF ChannelTypes
<1>4. CASE TakeRequest
  <2>1. Head(stdin) \in 1 .. Len(requests) /\ Tail(stdin) \in Seq(1 .. Len(requests))
    BY <1>1, <1>4, HeadTailProperties DEF ChannelTypes, TakeRequest
  <2> QED
    BY <1>1, <1>2, <1>4, <2>1 DEF ChannelTypes, TakeRequest
<1>5. CASE work' = 0 /\ process' \in {process, "gone"} /\ UNCHANGED stdin
  BY <1>1, <1>2, <1>5 DEF ChannelTypes
<1> QED
  BY <1>3, <1>4, <1>5

\* Every step keeps the types of the channel.
LEMMA ChannelStep ==
    ASSUME TypeOK, [Next]_vars
    PROVE  ChannelTypes'
<1> USE DEF Fixed
<1>1. ChannelTypes
  BY TypesSplit
<1>2. Main \in Caller /\ Proposal \subseteq Caller
  BY DEF Caller
<1>3. CASE MainAsks
  BY <1>1, <1>2, <1>3, AskTypes DEF MainAsks, Operations
<1>4. CASE Fails
  BY <1>1, <1>4, FailTypes DEF Fails
<1>5. CASE Settles
  BY <1>1, <1>5, SettleTypes DEF Settles
<1>6. CASE Rests
  BY <1>6, RestTypes
<1>7. ASSUME NEW p \in Proposal, TakesUp(p) \/ Advances(p)
      PROVE  ChannelTypes'
  BY <1>1, <1>2, <1>7, AskTypes DEF TakesUp, Advances, Operations
<1>8. ASSUME NEW p \in Proposal, Ends(p)
      PROVE  ChannelTypes'
  <2>1. CASE slot \in Proposal /\ Ask(slot, "doctor")
    BY <1>1, <1>2, <1>8, <2>1, AskTypes DEF Ends, Operations
  <2>2. CASE Waiting
    BY <1>1, <1>8, <2>2 DEF Ends, Waiting, ChannelTypes
  <2> QED
    BY <1>8, <2>1, <2>2 DEF Ends
<1> QED
  BY <1>3, <1>4, <1>5, <1>6, <1>7, <1>8, StepKinds DEF Kinds

\* Frames are what the sidecar writes.
LEMMA FrameTypes ==
    /\ \A p \in Proposal : [proposal |-> p] \in Frames
    /\ \A n \in Nat, a \in Answer : [id |-> n, answer |-> a] \in Frames
    /\ [garbage |-> TRUE] \in Frames
BY DEF Frames

\* Every step keeps the other types.
LEMMA OtherStep ==
    ASSUME TypeOK, [Next]_vars
    PROVE  OtherTypes'
<1>0. OtherTypes /\ ChannelTypes
  BY TypesSplit
<1> USE DEF OtherTypes, Stages
<1>1. ASSUME Command \/ Stop \/ ProposalTimeout
      PROVE  OtherTypes'
  <2>1. CASE Start \/ Started \/ Reported \/ Subscribe \/ Stop \/ ProposalTimeout
    BY <1>0, <2>1
    DEF Start, Started, Reported, Subscribe, Stop, ProposalTimeout, Onward, Unhandled,
        channel, processor
  <2>2. CASE StartFails \/ Close \/ Closed
    BY <1>0, <2>2
    DEF StartFails, Close, Closed, Onward, Unhandled, channel, processor, FailChannel
  <2> QED
    BY <1>1, <2>1, <2>2 DEF Command
<1>2. ASSUME HandleLine
      PROVE  OtherTypes'
  <2>1. stdout' \in Seq(Frames)
    BY <1>0, <1>2, HeadTailProperties DEF HandleLine
  <2>2. CASE HandleGarbage(Head(stdout)) \/ HandleReply(Head(stdout))
    BY <1>0, <1>2, <2>1, <2>2
    DEF HandleLine, HandleGarbage, HandleReply, FailChannel, processor
  <2>3. CASE HandleProposal(Head(stdout))
    <3>1. PICK p \in Proposal : Head(stdout).proposal = p
      BY <2>3 DEF HandleProposal
    <3>2. Append(arrived, p) \in Seq(Proposal) /\ Append(handled, p) \in Seq(Proposal)
      BY <1>0, AppendProperties
    <3>3. CASE Submit(p)
      BY <1>0, <1>2, <2>1, <2>3, <3>2, <3>3
      DEF HandleLine, HandleProposal, Submit, TakeUp
    <3>4. CASE SubmitOnce(p)
      BY <1>0, <1>2, <2>1, <2>3, <3>2, <3>4
      DEF HandleLine, HandleProposal, SubmitOnce, TakeUp
    <3>5. CASE UNCHANGED <<processor, handling>>
      BY <1>0, <1>2, <2>1, <2>3, <3>5
      DEF HandleLine, HandleProposal, processor
    <3> QED
      BY <2>3, <3>1, <3>3, <3>4, <3>5 DEF HandleProposal
  <2> QED
    BY <1>2, <2>2, <2>3 DEF HandleLine
<1>3. ASSUME ChildExits \/ Timeout
      PROVE  OtherTypes'
  BY <1>0, <1>3 DEF ChildExits, Timeout, FailChannel, processor
<1>4. ASSUME NEW p \in Proposal, Handle(p)
      PROVE  OtherTypes'
  <2>1. CASE InvalidReport(p)
    BY <1>0, <2>1 DEF InvalidReport, FailChannel, processor
  <2>2. ASSUME Finish(p), UNCHANGED <<once, stage, stdout, goal, babble>>,
               NEW o \in {"blocked", "refused", "completed", "unknown"},
               outcome' = [outcome EXCEPT ![p] = o]
        PROVE  OtherTypes'
    <3>1. slot # None => Append(handled, slot) \in Seq(Proposal)
      BY <1>0, AppendProperties
    <3> QED
      BY <1>0, <2>2, <3>1 DEF Finish, EmptySlot
  <2>3. CASE Evaluate(p)
    BY <1>0, <2>2, <2>3 DEF Evaluate, Goes, Blocked, processor
  <2>4. CASE Execute(p)
    BY <1>0, <2>2, <2>4 DEF Execute, Goes, Blocked, processor
  <2>5. CASE Conclude(p)
    BY <2>2, <2>5 DEF Conclude, OutcomeOf
  <2> QED
    BY <1>4, <2>1, <2>3, <2>4, <2>5 DEF Handle
<1>5. ASSUME Sidecar
      PROVE  OtherTypes'
  <2>0. work # 0 => work \in Nat
    BY <1>0, LenProperties DEF ChannelTypes
  <2>1. CASE TakeRequest \/ SendGoal \/ SidecarExits \/ \E p \in Proposal : Controller(p)
    BY <1>0, <2>1
    DEF TakeRequest, SendGoal, SidecarExits, Controller, Idle, channel, processor
  <2>2. CASE Reply
    <3>1. PICK answer \in Replies(requests[work]) : Emit([id |-> work, answer |-> answer])
      BY <2>2 DEF Reply
    <3>2. answer \in Answer
      <4>1. work \in 1 .. Len(requests) /\ requests[work] \in Request
        BY <1>0, <2>2, ElementOfSeq DEF Reply, ChannelTypes
      <4>2. requests[work].op \in {"ping", "doctor", "dispatch", "shutdown"}
        BY <4>1 DEF Request
      <4> QED
        BY <3>1, <4>2 DEF Replies, Answer
    <3>3. stdout' \in Seq(Frames)
      BY <1>0, <2>0, <2>2, <3>1, <3>2, FrameTypes, AppendProperties DEF Emit, Reply
    <3> QED
      BY <1>0, <2>2, <3>3 DEF Reply, channel, processor
  <2>3. CASE Babble
    <3>1. stdout' \in Seq(Frames)
      BY <1>0, <2>3, FrameTypes, AppendProperties DEF Emit, Babble
    <3>2. babble' \in 0 .. MaxBabble
      BY <1>0, <2>3, ConstantsAssumption DEF Babble
    <3> QED
      BY <1>0, <2>3, <3>1, <3>2 DEF Babble, Idle, channel, processor
  <2>4. ASSUME NEW p \in Proposal, PublishProposal(p)
        PROVE  OtherTypes'
    <3>1. stdout' \in Seq(Frames)
      BY <1>0, <2>4, FrameTypes, AppendProperties DEF Emit, PublishProposal
    <3> QED
      BY <1>0, <2>4, <3>1 DEF PublishProposal, Idle, channel, processor
  <2> QED
    BY <1>5, <2>1, <2>2, <2>3, <2>4 DEF Sidecar
<1>6. CASE UNCHANGED vars
  BY <1>0, <1>6 DEF vars, channel, sidecar, processor
<1> QED
  BY <1>1, <1>2, <1>3, <1>4, <1>5, <1>6 DEF Next

\* Every step keeps the type invariant.
LEMMA TypeStep == TypeOK /\ [Next]_vars => TypeOK'
<1>1. TypeOK' <=> ChannelTypes' /\ OtherTypes'
  BY DEF TypeOK, ChannelTypes, OtherTypes
<1> QED
  BY <1>1, ChannelStep, OtherStep

-----------------------------------------------------------------------------
(* The processor. *)

\* Nothing changes but the pipe, by a line read or written, and the flag of
\* --once; a proposal is written only while it is nowhere else.
Elsewhere ==
    /\ UNCHANGED <<handling, slot, active>> /\ (completed => completed')
    /\ \/ UNCHANGED stdout
       \/ stdout # <<>> /\ stdout' = Tail(stdout)
       \/ \E e \in Frames \ ProposalLines : stdout' = Append(stdout, e)
       \/ \E p \in Proposal :
             /\ [proposal |-> p] \notin Elements(stdout)
             /\ handling[p] = "idle" /\ p # slot
             /\ stdout' = Append(stdout, [proposal |-> p])

Admits(p) ==
    /\ stdout # <<>> /\ Head(stdout) = [proposal |-> p] /\ stdout' = Tail(stdout)
    /\ subscribed
    /\ \/ /\ ~once /\ ~active /\ active' = TRUE
          /\ handling' = [handling EXCEPT ![p] = "observe"]
          /\ UNCHANGED <<slot, completed>>
       \/ /\ ~once /\ active /\ slot = None
          /\ slot' = p
          /\ UNCHANGED <<active, handling, completed>>
       \/ /\ once /\ ~completed /\ completed' = TRUE
          /\ handling' = [handling EXCEPT ![p] = "observe"]
          /\ UNCHANGED <<active, slot>>

Moves(p) ==
    /\ UNCHANGED <<slot, active, completed, stdout>>
    /\ handling[p] \in Handled
    /\ \E to \in Handled : handling' = [handling EXCEPT ![p] = to]

Releases(p) ==
    /\ UNCHANGED <<completed, stdout>>
    /\ handling[p] \in Handled
    /\ \/ /\ ~once /\ slot # None
          /\ handling' = [handling EXCEPT ![p] = "over", ![slot] = "observe"]
          /\ slot' = None
          /\ UNCHANGED active
       \/ /\ once \/ slot = None
          /\ active' = FALSE
          /\ handling' = [handling EXCEPT ![p] = "over"]
          /\ UNCHANGED slot

ProcessorKinds == Elsewhere \/ \E p \in Proposal : Admits(p) \/ Moves(p) \/ Releases(p)

\* Replies and garbage are no proposals.
LEMMA NoProposalLine ==
    /\ \A n \in Nat, a \in Answer : [id |-> n, answer |-> a] \in Frames \ ProposalLines
    /\ [garbage |-> TRUE] \in Frames \ ProposalLines
BY DEF Frames, ProposalLines

\* Every step is one of these for the processor.
LEMMA StepProcessor ==
    ASSUME TypeOK, [Next]_vars
    PROVE  ProcessorKinds /\ UNCHANGED once
<1>1. ASSUME Command \/ Stop \/ ProposalTimeout \/ ChildExits \/ Timeout \/ UNCHANGED vars
      PROVE  ProcessorKinds /\ UNCHANGED once
  <2>1. UNCHANGED <<handling, slot, active, stdout, once>> /\ (completed => completed')
    BY <1>1
    DEF Command, Start, Started, Reported, StartFails, Subscribe, Close, Closed, Stop,
        ProposalTimeout, ChildExits, Timeout, Unhandled, processor, vars
  <2> QED
    BY <2>1 DEF ProcessorKinds, Elsewhere
<1>2. ASSUME HandleLine
      PROVE  ProcessorKinds /\ UNCHANGED once
  <2>0. UNCHANGED once /\ stdout # <<>> /\ stdout' = Tail(stdout)
    BY <1>2 DEF HandleLine
  <2>1. CASE UNCHANGED <<handling, slot, active, completed>>
    BY <2>0, <2>1 DEF ProcessorKinds, Elsewhere
  <2>2. CASE HandleProposal(Head(stdout)) /\ ~UNCHANGED <<handling, slot, active, completed>>
    <3>1. PICK p \in Proposal : Head(stdout) = [proposal |-> p] /\ Head(stdout).proposal = p
      BY <2>2 DEF HandleProposal
    <3>2. \/ subscribed /\ ~once /\ Submit(p)
          \/ subscribed /\ once /\ SubmitOnce(p)
      BY <2>2, <3>1 DEF HandleProposal, processor
    <3>3. CASE subscribed /\ ~once /\ Submit(p)
      <4>1. Admits(p)
        BY <2>0, <2>2, <3>1, <3>3 DEF Submit, TakeUp, Busy, Admits
      <4> QED
        BY <2>0, <4>1 DEF ProcessorKinds
    <3>4. CASE subscribed /\ once /\ SubmitOnce(p)
      <4>1. Admits(p)
        BY <2>0, <2>2, <3>1, <3>4 DEF SubmitOnce, TakeUp, Admits
      <4> QED
        BY <2>0, <4>1 DEF ProcessorKinds
    <3> QED
      BY <3>2, <3>3, <3>4
  <2>3. CASE HandleGarbage(Head(stdout)) \/ HandleReply(Head(stdout))
    BY <2>1, <2>3 DEF HandleGarbage, HandleReply, processor
  <2> QED
    BY <1>2, <2>1, <2>2, <2>3 DEF HandleLine
<1>3. ASSUME NEW p \in Proposal, Handle(p)
      PROVE  ProcessorKinds /\ UNCHANGED once
  <2>0. UNCHANGED <<once, stdout>>
    BY <1>3 DEF Handle, InvalidReport, Evaluate, Execute, Goes, Conclude
  <2>1. CASE InvalidReport(p)
    BY <2>0, <2>1 DEF InvalidReport, ProcessorKinds, Elsewhere, processor
  <2>2. ASSUME Finish(p), handling[p] \in Handled
        PROVE  ProcessorKinds
    <3>1. Releases(p)
      BY <2>0, <2>2 DEF Finish, EmptySlot, Releases
    <3> QED
      BY <3>1 DEF ProcessorKinds
  <2>3. CASE Evaluate(p) /\ ~Blocked(p)
    <3>1. Moves(p)
      BY <2>0, <2>3 DEF Evaluate, Goes, Moves, Handled, processor
    <3> QED
      BY <2>0, <3>1 DEF ProcessorKinds
  <2>4. CASE Execute(p) /\ ~Blocked(p)
    <3>1. Moves(p)
      BY <2>0, <2>4 DEF Execute, Goes, Moves, Handled, processor
    <3> QED
      BY <2>0, <3>1 DEF ProcessorKinds
  <2>5. CASE (Evaluate(p) \/ Execute(p)) /\ Blocked(p)
    BY <2>0, <2>2, <2>5 DEF Evaluate, Execute, Goes, Blocked, Handled
  <2>6. CASE Conclude(p)
    BY <2>0, <2>2, <2>6 DEF Conclude, Handled
  <2> QED
    BY <1>3, <2>0, <2>1, <2>3, <2>4, <2>5, <2>6 DEF Handle
<1>4. ASSUME Sidecar
      PROVE  ProcessorKinds /\ UNCHANGED once
  <2>0. UNCHANGED <<once, handling, slot, active, completed>>
    BY <1>4
    DEF Sidecar, TakeRequest, SendGoal, Reply, Babble, SidecarExits, PublishProposal,
        Controller, Idle, processor
  <2>1. CASE UNCHANGED stdout
    BY <2>0, <2>1 DEF ProcessorKinds, Elsewhere
  <2>2. ASSUME NEW e \in Frames \ ProposalLines, stdout' = Append(stdout, e)
        PROVE  ProcessorKinds
    BY <2>0, <2>2 DEF ProcessorKinds, Elsewhere
  <2>3. CASE Reply
    <3>1. PICK answer \in Replies(requests[work]) : Emit([id |-> work, answer |-> answer])
      BY <2>3 DEF Reply
    <3>2. work \in Nat /\ work \in 1 .. Len(requests)
      BY <2>3, LenProperties DEF Reply, TypeOK
    <3>3. requests[work].op \in {"ping", "doctor", "dispatch", "shutdown"}
      <4>1. requests[work] \in Request
        BY <3>2, ElementOfSeq DEF TypeOK
      <4> QED
        BY <4>1 DEF Request
    <3>4. answer \in Answer
      BY <3>1, <3>3 DEF Replies, Answer
    <3> QED
      BY <2>0, <2>2, <3>1, <3>2, <3>4, NoProposalLine DEF Emit
  <2>4. CASE Babble
    BY <2>0, <2>2, <2>4, NoProposalLine DEF Babble, Emit
  <2>5. ASSUME NEW p \in Proposal, PublishProposal(p)
        PROVE  ProcessorKinds
    BY <2>0, <2>5 DEF PublishProposal, Emit, Elements, ProcessorKinds, Elsewhere
  <2>6. CASE TakeRequest \/ SendGoal \/ SidecarExits \/ \E p \in Proposal : Controller(p)
    BY <2>1, <2>6 DEF TakeRequest, SendGoal, SidecarExits, Controller
  <2> QED
    BY <1>4, <2>0, <2>1, <2>3, <2>4, <2>5, <2>6 DEF Sidecar
<1> QED
  BY <1>1, <1>2, <1>3, <1>4 DEF Next

\* A proposal is taken up only when no other is being handled.
LEMMA OneHandledStep ==
    ASSUME TypeOK, OneHandled, OnePlace, [Next]_vars
    PROVE  OneHandled'
<1> USE DEF OneHandled, Handled
<1>0. /\ UNCHANGED once
      /\ handling \in [Proposal -> {"idle", "observe", "refresh", "dispatch", "over"}]
      /\ slot \in Proposal \cup {None} /\ None \notin Proposal
      /\ active \in BOOLEAN /\ once \in BOOLEAN /\ completed \in BOOLEAN
  BY StepProcessor, ConstantsAssumption DEF TypeOK
<1>1. CASE Elsewhere
  BY <1>0, <1>1 DEF Elsewhere
<1>2. ASSUME NEW p \in Proposal, Admits(p)
      PROVE  OneHandled'
  BY <1>0, <1>2 DEF Admits
<1>3. ASSUME NEW p \in Proposal, Moves(p)
      PROVE  OneHandled'
  BY <1>0, <1>3 DEF Moves
<1>4. ASSUME NEW p \in Proposal, Releases(p)
      PROVE  OneHandled'
  BY <1>0, <1>4 DEF Releases, OnePlace
<1> QED
  BY <1>1, <1>2, <1>3, <1>4, StepProcessor DEF ProcessorKinds

\* A proposal leaves one place for the next, and never comes back.
LEMMA OnePlaceStep ==
    ASSUME TypeOK, OneHandled, OnePlace, [Next]_vars
    PROVE  OnePlace'
<1> USE DEF OnePlace
<1>0. /\ stdout \in Seq(Frames)
      /\ handling \in [Proposal -> {"idle", "observe", "refresh", "dispatch", "over"}]
      /\ slot \in Proposal \cup {None} /\ None \notin Proposal
  BY ConstantsAssumption DEF TypeOK
<1>1. stdout # <<>> /\ stdout' = Tail(stdout) =>
         /\ Elements(stdout') \subseteq Elements(stdout)
         /\ DistinctIn(stdout', ProposalLines)
         /\ Head(stdout) \in Elements(stdout)
         /\ Head(stdout) \in ProposalLines => Head(stdout) \notin Elements(stdout')
  BY <1>0, Read
<1>2. \A p \in Proposal : [proposal |-> p] \in ProposalLines /\ [proposal |-> p] \in Frames
  BY FrameTypes DEF ProposalLines
<1>3. CASE Elsewhere
  <2>1. CASE UNCHANGED stdout \/ (stdout # <<>> /\ stdout' = Tail(stdout))
    BY <1>1, <1>3, <2>1 DEF Elsewhere
  <2>2. ASSUME NEW e \in Frames \ ProposalLines, stdout' = Append(stdout, e)
        PROVE  OnePlace'
    <3>1. DistinctIn(stdout', ProposalLines)
      BY <1>0, <2>2, WrittenDistinct
    <3>2. Elements(stdout') = Elements(stdout) \cup {e}
      BY <1>0, <2>2, Written
    <3> QED
      BY <1>2, <1>3, <2>2, <3>1, <3>2 DEF Elsewhere
  <2>3. ASSUME NEW p \in Proposal,
               [proposal |-> p] \notin Elements(stdout),
               handling[p] = "idle", p # slot,
               stdout' = Append(stdout, [proposal |-> p])
        PROVE  OnePlace'
    <3>1. DistinctIn(stdout', ProposalLines)
      BY <1>0, <1>2, <2>3, WrittenDistinct
    <3>2. Elements(stdout') = Elements(stdout) \cup {[proposal |-> p]}
      BY <1>0, <1>2, <2>3, Written
    <3>3. \A q \in Proposal : [proposal |-> q] = [proposal |-> p] => q = p
      OBVIOUS
    <3> QED
      BY <1>3, <2>3, <3>1, <3>2, <3>3 DEF Elsewhere
  <2> QED
    BY <1>3, <2>1, <2>2, <2>3 DEF Elsewhere
<1>4. ASSUME NEW p \in Proposal, Admits(p)
      PROVE  OnePlace'
  <2>1. handling[p] = "idle" /\ slot # p /\ [proposal |-> p] \notin Elements(stdout')
    BY <1>1, <1>2, <1>4 DEF Admits
  <2> QED
    BY <1>0, <1>1, <1>4, <2>1 DEF Admits
<1>5. ASSUME NEW p \in Proposal, Moves(p)
      PROVE  OnePlace'
  BY <1>0, <1>5 DEF Moves, Handled
<1>6. ASSUME NEW p \in Proposal, Releases(p)
      PROVE  OnePlace'
  BY <1>0, <1>6 DEF Releases, Handled
<1> QED
  BY <1>3, <1>4, <1>5, <1>6, StepProcessor DEF ProcessorKinds

\* The subscription stays, and precedes every proposal taken up.
LEMMA SubscribedStep ==
    ASSUME TypeOK, OnePlace, Subscribed, [Next]_vars
    PROVE  Subscribed'
<1> USE DEF Subscribed
<1>0. /\ handling \in [Proposal -> {"idle", "observe", "refresh", "dispatch", "over"}]
      /\ slot \in Proposal \cup {None}
  BY DEF TypeOK
<1>1. /\ subscribed => subscribed' = subscribed
      /\ subscribed' => stage' \in {"serving", "close", "closing", "closed"}
  <2>1. ASSUME Command \/ Stop \/ ProposalTimeout
        PROVE  /\ subscribed => subscribed' = subscribed
               /\ subscribed' => stage' \in {"serving", "close", "closing", "closed"}
    BY <2>1
    DEF Command, Start, Started, Reported, StartFails, Subscribe, Close, Closed, Stop,
        ProposalTimeout, Onward, channel, FailChannel
  <2>2. ASSUME HandleLine \/ ChildExits \/ Timeout \/ \E p \in Proposal : Handle(p)
        PROVE  UNCHANGED <<subscribed, stage>>
    BY <2>2
    DEF HandleLine, HandleGarbage, HandleReply, HandleProposal, ChildExits, Timeout,
        FailChannel, Handle, InvalidReport, Evaluate, Execute, Goes, Blocked, Finish,
        Conclude
  <2>3. ASSUME Sidecar \/ UNCHANGED vars
        PROVE  UNCHANGED <<subscribed, stage>>
    BY <2>3
    DEF Sidecar, TakeRequest, SendGoal, Reply, Babble, SidecarExits, PublishProposal,
        Controller, Idle, channel, vars
  <2> QED
    BY <2>1, <2>2, <2>3 DEF Next
<1>2. ASSUME NEW q \in Proposal, handling'[q] # "idle"
      PROVE  subscribed
  <2>1. CASE Elsewhere
    BY <1>2, <2>1 DEF Elsewhere
  <2>2. ASSUME NEW p \in Proposal, Admits(p)
        PROVE  subscribed
    BY <2>2 DEF Admits
  <2>3. ASSUME NEW p \in Proposal, Moves(p) \/ Releases(p)
        PROVE  subscribed
    BY <1>0, <2>3 DEF Moves, Releases, Handled
  <2> QED
    BY <2>1, <2>2, <2>3, StepProcessor DEF ProcessorKinds
<1> QED
  BY <1>1, <1>2

-----------------------------------------------------------------------------
(* What became of the proposals that arrived. *)

\* A step leaves what arrived and what was kept alone, adds an arrival that is
\* kept, or one that is turned away.
Unmoved == UNCHANGED <<arrived, overflowed>> /\ Queue' = Queue
Joins(p) ==
    /\ arrived' = Append(arrived, p) /\ Queue' = Append(Queue, p)
    /\ UNCHANGED overflowed
Leaves(p) ==
    /\ arrived' = Append(arrived, p) /\ Queue' = Queue
    /\ overflowed' = overflowed \cup {p}

\* The queue is a sequence of proposals.
LEMMA QueueTypes ==
    ASSUME TypeOK
    PROVE  /\ Queue \in Seq(Proposal) /\ DOMAIN Queue = 1 .. Len(Queue)
           /\ Len(Queue) \in Nat /\ Len(arrived) \in Nat
<1>1. handled \in Seq(Proposal) /\ arrived \in Seq(Proposal)
      /\ slot \in Proposal \cup {None}
  BY DEF TypeOK
<1>2. (IF slot = None THEN <<>> ELSE <<slot>>) \in Seq(Proposal)
  BY <1>1
<1>3. Queue \in Seq(Proposal)
  BY <1>1, <1>2, ConcatProperties DEF Queue
<1> QED
  BY <1>1, <1>3, LenProperties

\* The proposal in the slot is the last of the queue.
LEMMA QueueTail ==
    ASSUME NEW h \in Seq(Proposal), NEW s \in Proposal \cup {None}
    PROVE  h \o (IF s = None THEN <<>> ELSE <<s>>) =
              IF s = None THEN h ELSE Append(h, s)
<1>1. CASE s = None
  BY <1>1, ConcatEmptySeq
<1>2. CASE s # None
  BY <1>2, AppendIsConcat
<1> QED
  BY <1>1, <1>2

\* An arrival that is kept takes the last place.
LEMMA JoinsInOrder ==
    ASSUME TypeOK, ProposalsAccounted, NEW p \in Proposal, p \notin overflowed, Joins(p)
    PROVE  ProposalsAccounted'
<1>1. /\ Queue \in Seq(Proposal) /\ DOMAIN Queue = 1 .. Len(Queue)
      /\ Len(Queue) \in Nat /\ Len(arrived) \in Nat /\ arrived \in Seq(Proposal)
  BY QueueTypes DEF TypeOK
<1> DEFINE m == Len(Queue)
           k == Len(arrived)
<1>2. PICK place \in [1 .. m -> Kept] : InOrder(place)
  BY <1>1 DEF ProposalsAccounted
<1>3. /\ Len(arrived') = k + 1 /\ arrived'[k + 1] = p
      /\ \A n \in 1 .. k : arrived'[n] = arrived[n]
  BY <1>1, AppendProperties DEF Joins
<1>4. /\ Queue' \in Seq(Proposal) /\ Len(Queue') = m + 1 /\ Queue'[m + 1] = p
      /\ \A i \in 1 .. m : Queue'[i] = Queue[i]
  BY <1>1, AppendProperties DEF Joins
<1>5. DOMAIN Queue' = 1 .. (m + 1)
  BY <1>4, LenProperties
<1>6. Kept' = Kept \cup {k + 1} /\ Kept \subseteq 1 .. k
  <2>1. 1 .. (k + 1) = (1 .. k) \cup {k + 1}
    BY <1>1
  <2> QED
    BY <1>3, <2>1 DEF Kept, Joins
<1> DEFINE next == [i \in 1 .. (m + 1) |-> IF i = m + 1 THEN k + 1 ELSE place[i]]
<1>7. /\ m \in Nat /\ k \in Nat /\ next[m + 1] = k + 1
      /\ \A i \in 1 .. (m + 1) : i \in 1 .. m \/ i = m + 1
      /\ \A i \in 1 .. m : /\ i \in 1 .. (m + 1) /\ next[i] = place[i]
                           /\ place[i] \in Kept /\ place[i] \in 1 .. k
  <2>1. \A i \in 1 .. m : i \in 1 .. (m + 1) /\ i # m + 1
    BY <1>1
  <2>2. m + 1 \in 1 .. (m + 1)
    BY <1>1
  <2>3. \A i \in 1 .. (m + 1) : i \in 1 .. m \/ i = m + 1
    BY <1>1
  <2> HIDE DEF m, k
  <2> QED
    BY <1>1, <1>2, <1>6, <2>1, <2>2, <2>3 DEF m, k
<1>8. next \in [1 .. (m + 1) -> Kept']
  <2> SUFFICES ASSUME NEW i \in 1 .. (m + 1)
               PROVE  next[i] \in Kept'
    OBVIOUS
  <2> HIDE DEF next
  <2> QED
    BY <1>6, <1>7
<1> HIDE DEF next
<1>9. \A i \in 1 .. (m + 1) : Queue'[i] = arrived'[next[i]]
  <2>1. \A i \in 1 .. m : Queue[i] = arrived[place[i]]
    BY <1>1, <1>2 DEF InOrder
  <2> QED
    BY <2>1, <1>3, <1>4, <1>7
<1>10. \A i, j \in 1 .. (m + 1) : i < j => next[i] < next[j]
  <2>1. \A i, j \in 1 .. m : i < j => place[i] < place[j]
    BY <1>1, <1>2 DEF InOrder
  <2> SUFFICES ASSUME NEW i \in 1 .. (m + 1), NEW j \in 1 .. (m + 1), i < j
               PROVE  next[i] < next[j]
    OBVIOUS
  <2>2. i \in 1 .. m
    BY <1>7
  <2>3. CASE j \in 1 .. m
    BY <2>1, <2>2, <2>3, <1>7
  <2>4. CASE j = m + 1
    BY <2>2, <2>4, <1>7
  <2> QED
    BY <2>3, <2>4, <1>7
<1>11. \A n \in Kept' : \E i \in 1 .. (m + 1) : next[i] = n
  <2>1. \A n \in Kept : \E i \in 1 .. m : place[i] = n
    BY <1>1, <1>2 DEF InOrder
  <2>2. m + 1 \in 1 .. (m + 1)
    BY <1>7
  <2> QED
    BY <2>1, <2>2, <1>6, <1>7
<1>12. PICK f : f = next
  OBVIOUS
<1>13. InOrder(f)'
  BY <1>5, <1>9, <1>10, <1>11, <1>12 DEF InOrder
<1> QED
  BY <1>5, <1>8, <1>12, <1>13 DEF ProposalsAccounted

\* An arrival that is turned away takes no place, and no other's.
LEMMA LeavesInOrder ==
    ASSUME TypeOK, ProposalsAccounted, NEW p \in Proposal, Leaves(p),
           \A n \in 1 .. Len(arrived) : arrived[n] = p => p \in overflowed
    PROVE  ProposalsAccounted'
<1>1. /\ Len(arrived) \in Nat /\ Len(arrived') = Len(arrived) + 1
      /\ arrived'[Len(arrived) + 1] = p
      /\ \A n \in 1 .. Len(arrived) : arrived'[n] = arrived[n]
  <2>1. arrived \in Seq(Proposal)
    BY DEF TypeOK
  <2> QED
    BY <2>1, AppendProperties, LenProperties DEF Leaves
<1>2. Kept' = Kept /\ Kept \subseteq 1 .. Len(arrived)
  <2>1. 1 .. (Len(arrived) + 1) = (1 .. Len(arrived)) \cup {Len(arrived) + 1}
    BY <1>1
  <2> QED
    BY <1>1, <2>1 DEF Kept, Leaves
<1>3. PICK place \in [DOMAIN Queue -> Kept] : InOrder(place)
  BY DEF ProposalsAccounted
<1>4. Queue' = Queue
  BY DEF Leaves
<1>5. \A i \in DOMAIN Queue : place[i] \in 1 .. Len(arrived)
  BY <1>2, <1>3
<1>6. InOrder(place)'
  BY <1>1, <1>2, <1>3, <1>4, <1>5 DEF InOrder
<1> QED
  BY <1>2, <1>3, <1>4, <1>6 DEF ProposalsAccounted

\* What neither adds nor removes keeps the order.
LEMMA UnmovedInOrder ==
    ASSUME ProposalsAccounted, Unmoved
    PROVE  ProposalsAccounted'
BY DEF ProposalsAccounted, Unmoved, InOrder, Kept

\* The steps, as the account of the proposals sees them.
Silent ==
    /\ UNCHANGED <<arrived, handled, overflowed, slot, active>>
    /\ \A q \in Proposal : handling[q] # "idle" => handling'[q] # "idle"
    /\ \A q \in Proposal : [proposal |-> q] \in Elements(stdout') =>
          [proposal |-> q] \in Elements(stdout) \/ q \notin overflowed

Arrives(p) ==
    /\ stdout # <<>> /\ Head(stdout) = [proposal |-> p] /\ stdout' = Tail(stdout)
    /\ arrived' = Append(arrived, p)
    /\ \/ /\ ~once /\ ~active /\ active' = TRUE
          /\ handled' = Append(handled, p)
          /\ handling' = [handling EXCEPT ![p] = "observe"]
          /\ UNCHANGED <<slot, overflowed>>
       \/ /\ active /\ slot = None /\ slot' = p
          /\ UNCHANGED <<active, handled, overflowed, handling>>
       \/ /\ active /\ slot # None
          /\ overflowed' = overflowed \cup {p}
          /\ UNCHANGED <<active, slot, handled, handling>>
       \/ /\ once
          /\ handled' = Append(handled, p)
          /\ handling' = [handling EXCEPT ![p] = "observe"]
          /\ UNCHANGED <<active, slot, overflowed>>

Frees(p) ==
    /\ UNCHANGED <<arrived, overflowed, stdout>>
    /\ \/ /\ slot # None
          /\ handled' = Append(handled, slot)
          /\ handling' = [handling EXCEPT ![p] = "over", ![slot] = "observe"]
          /\ slot' = None
          /\ UNCHANGED active
       \/ /\ once \/ slot = None
          /\ handling' = [handling EXCEPT ![p] = "over"]
          /\ UNCHANGED <<slot, handled>>

AccountKinds == Silent \/ \E p \in Proposal : Arrives(p) \/ Frees(p)

\* The line of an answer is no proposal.
LEMMA ReplyLine ==
    ASSUME TypeOK, Reply
    PROVE  \E e \in Frames \ ProposalLines : stdout' = Append(stdout, e)
<1>1. PICK answer \in Replies(requests[work]) : Emit([id |-> work, answer |-> answer])
  BY DEF Reply
<1>2. work \in Nat /\ work \in 1 .. Len(requests)
  BY LenProperties DEF Reply, TypeOK
<1>3. requests[work].op \in {"ping", "doctor", "dispatch", "shutdown"}
  <2>1. requests[work] \in Request
    BY <1>2, ElementOfSeq DEF TypeOK
  <2> QED
    BY <2>1 DEF Request
<1>4. answer \in Answer
  BY <1>1, <1>3 DEF Replies, Answer
<1> QED
  BY <1>1, <1>2, <1>4, NoProposalLine DEF Emit

\* Every step is one of these for the account.
LEMMA StepAccount ==
    ASSUME TypeOK, [Next]_vars
    PROVE  AccountKinds
<1>0. /\ stdout \in Seq(Frames)
      /\ handling \in [Proposal -> {"idle", "observe", "refresh", "dispatch", "over"}]
  BY DEF TypeOK
<1>1. ASSUME Command \/ Stop \/ ProposalTimeout \/ ChildExits \/ Timeout \/ UNCHANGED vars
      PROVE  AccountKinds
  <2>1. UNCHANGED <<handling, slot, active, stdout, arrived, handled, overflowed>>
    BY <1>1
    DEF Command, Start, Started, Reported, StartFails, Subscribe, Close, Closed, Stop,
        ProposalTimeout, ChildExits, Timeout, Unhandled, processor, vars
  <2> QED
    BY <2>1 DEF AccountKinds, Silent
<1>2. ASSUME HandleLine
      PROVE  AccountKinds
  <2>0. stdout # <<>> /\ stdout' = Tail(stdout)
    BY <1>2 DEF HandleLine
  <2>1. CASE UNCHANGED <<handling, slot, active, arrived, handled, overflowed>>
    <3>1. Elements(stdout') \subseteq Elements(stdout)
      BY <1>0, <2>0, Read
    <3> QED
      BY <2>1, <3>1 DEF AccountKinds, Silent
  <2>2. CASE HandleProposal(Head(stdout))
             /\ ~UNCHANGED <<handling, slot, active, arrived, handled, overflowed>>
    <3>1. PICK p \in Proposal : Head(stdout) = [proposal |-> p] /\ Head(stdout).proposal = p
      BY <2>2 DEF HandleProposal
    <3>2. \/ subscribed /\ ~once /\ Submit(p)
          \/ subscribed /\ once /\ SubmitOnce(p)
      BY <2>2, <3>1 DEF HandleProposal, processor
    <3>3. CASE ~once /\ Submit(p)
      <4>1. Arrives(p)
        BY <2>0, <3>1, <3>3 DEF Submit, TakeUp, Busy, Arrives
      <4> QED
        BY <4>1 DEF AccountKinds
    <3>4. CASE once /\ SubmitOnce(p)
      <4>1. Arrives(p)
        BY <2>0, <2>2, <3>1, <3>4 DEF SubmitOnce, TakeUp, Arrives
      <4> QED
        BY <4>1 DEF AccountKinds
    <3> QED
      BY <3>2, <3>3, <3>4
  <2>3. CASE HandleGarbage(Head(stdout)) \/ HandleReply(Head(stdout))
    BY <2>1, <2>3 DEF HandleGarbage, HandleReply, processor
  <2> QED
    BY <1>2, <2>1, <2>2, <2>3 DEF HandleLine
<1>3. ASSUME NEW p \in Proposal, Handle(p)
      PROVE  AccountKinds
  <2>0. UNCHANGED <<once, stdout>>
    BY <1>3 DEF Handle, InvalidReport, Evaluate, Execute, Goes, Conclude
  <2>1. ASSUME UNCHANGED processor,
               \/ UNCHANGED handling
               \/ \E to \in {"refresh", "dispatch"} : handling' = [handling EXCEPT ![p] = to]
        PROVE  AccountKinds
    <3>1. \A q \in Proposal : handling[q] # "idle" => handling'[q] # "idle"
      BY <1>0, <2>1
    <3> QED
      BY <2>0, <2>1, <3>1 DEF AccountKinds, Silent, processor
  <2>2. ASSUME Finish(p)
        PROVE  AccountKinds
    <3>1. Frees(p)
      BY <2>0, <2>2 DEF Finish, EmptySlot, Frees
    <3> QED
      BY <3>1 DEF AccountKinds
  <2>3. CASE InvalidReport(p)
    BY <2>1, <2>3 DEF InvalidReport
  <2>4. CASE Evaluate(p) \/ Execute(p)
    BY <2>1, <2>2, <2>4 DEF Evaluate, Execute, Goes, Blocked
  <2>5. CASE Conclude(p)
    BY <2>2, <2>5 DEF Conclude
  <2> QED
    BY <1>3, <2>3, <2>4, <2>5 DEF Handle
<1>4. ASSUME Sidecar
      PROVE  AccountKinds
  <2>0. UNCHANGED <<handling, slot, active, arrived, handled, overflowed>>
    BY <1>4
    DEF Sidecar, TakeRequest, SendGoal, Reply, Babble, SidecarExits, PublishProposal,
        Controller, Idle, processor
  <2>1. CASE UNCHANGED stdout
    BY <2>0, <2>1 DEF AccountKinds, Silent
  <2>2. CASE \E e \in Frames \ ProposalLines : stdout' = Append(stdout, e)
    <3>1. PICK e \in Frames \ ProposalLines : stdout' = Append(stdout, e)
      BY <2>2
    <3>2. Elements(stdout') = Elements(stdout) \cup {e}
      BY <1>0, <3>1, Written
    <3> QED
      BY <2>0, <3>2 DEF AccountKinds, Silent, ProposalLines
  <2>3. ASSUME NEW p \in Proposal, PublishProposal(p)
        PROVE  AccountKinds
    <3>1. [proposal |-> p] \in Frames
      BY DEF Frames
    <3>2. Elements(stdout') = Elements(stdout) \cup {[proposal |-> p]}
      BY <1>0, <2>3, <3>1, Written DEF PublishProposal, Emit
    <3>3. p \notin overflowed
      BY <2>3 DEF PublishProposal
    <3>4. \A q \in Proposal : [proposal |-> q] = [proposal |-> p] => q = p
      OBVIOUS
    <3> QED
      BY <2>0, <3>2, <3>3, <3>4 DEF AccountKinds, Silent
  <2>4. CASE Reply
    BY <2>2, <2>4, ReplyLine
  <2>5. CASE Babble
    BY <2>2, <2>5, NoProposalLine DEF Babble, Emit
  <2>6. CASE TakeRequest \/ SendGoal \/ SidecarExits \/ \E p \in Proposal : Controller(p)
    BY <2>1, <2>6 DEF TakeRequest, SendGoal, SidecarExits, Controller
  <2> QED
    BY <1>4, <2>3, <2>4, <2>5, <2>6 DEF Sidecar
<1> QED
  BY <1>1, <1>2, <1>3, <1>4 DEF Next

\* The account stays complete and in order.
LEMMA AccountStep ==
    ASSUME TypeOK, OneHandled, OnePlace, Accounted, ProposalsAccounted, [Next]_vars
    PROVE  Accounted' /\ ProposalsAccounted'
<1>0. /\ stdout \in Seq(Frames) /\ arrived \in Seq(Proposal) /\ handled \in Seq(Proposal)
      /\ handling \in [Proposal -> {"idle", "observe", "refresh", "dispatch", "over"}]
      /\ slot \in Proposal \cup {None} /\ None \notin Proposal
      /\ active \in BOOLEAN /\ (once => slot = None)
      /\ \A n \in 1 .. Len(arrived) : arrived[n] \in Proposal
  BY ConstantsAssumption, ElementOfSeq DEF TypeOK, OneHandled
<1>1. Queue = IF slot = None THEN handled ELSE Append(handled, slot)
  BY <1>0, QueueTail DEF Queue
<1>2. Queue' = IF slot' = None THEN handled' ELSE Append(handled', slot')
  <2>1. handled' \in Seq(Proposal) /\ slot' \in Proposal \cup {None}
    <3>1. TypeOK'
      BY TypeStep
    <3> QED
      BY <3>1 DEF TypeOK
  <2> QED
    BY <2>1, QueueTail DEF Queue
<1>3. CASE Silent
  <2>1. Unmoved
    BY <1>1, <1>2, <1>3 DEF Silent, Unmoved
  <2>2. Accounted'
    BY <1>0, <1>3 DEF Silent, Accounted
  <2> QED
    BY <2>1, <2>2, UnmovedInOrder
<1>4. ASSUME NEW p \in Proposal, Arrives(p)
      PROVE  Accounted' /\ ProposalsAccounted'
  <2>1. /\ [proposal |-> p] \in Elements(stdout)
        /\ Elements(stdout') \subseteq Elements(stdout)
        /\ [proposal |-> p] \notin Elements(stdout')
    <3>1. [proposal |-> p] \in ProposalLines
      BY DEF ProposalLines
    <3>2. stdout # <<>> /\ Head(stdout) = [proposal |-> p] /\ stdout' = Tail(stdout)
      BY <1>4 DEF Arrives
    <3>3. DistinctIn(stdout, ProposalLines)
      BY DEF OnePlace
    <3>4. /\ Head(stdout) \in Elements(stdout) /\ Elements(Tail(stdout)) \subseteq Elements(stdout)
          /\ Head(stdout) \in ProposalLines => Head(stdout) \notin Elements(Tail(stdout))
      BY <1>0, <3>2, <3>3, Read
    <3> QED
      BY <3>1, <3>2, <3>4
  <2>2. handling[p] = "idle" /\ slot # p /\ p \notin overflowed
    BY <2>1 DEF OnePlace, Accounted
  <2>3. /\ Len(arrived') = Len(arrived) + 1 /\ arrived'[Len(arrived) + 1] = p
        /\ Len(arrived) \in Nat
        /\ \A n \in 1 .. Len(arrived) : arrived'[n] = arrived[n]
    BY <1>0, <1>4, AppendProperties, LenProperties DEF Arrives
  <2>4. \A n \in 1 .. Len(arrived') : n \in 1 .. Len(arrived) \/ n = Len(arrived) + 1
    BY <2>3
  <2>5. ASSUME \A q \in Proposal : handling[q] # "idle" => handling'[q] # "idle",
               slot' = slot \/ slot = None,
               ~active' => slot' = None,
               overflowed' = overflowed \/ overflowed' = overflowed \cup {p},
               p \in overflowed' \/ p = slot' \/ handling'[p] # "idle"
        PROVE  Accounted'
    <3>1. \A n \in 1 .. Len(arrived) :
             \/ arrived[n] \in overflowed'
             \/ arrived[n] = slot'
             \/ handling'[arrived[n]] # "idle"
      BY <1>0, <2>5 DEF Accounted
    <3>2. \A n \in 1 .. Len(arrived') :
             \/ arrived'[n] \in overflowed'
             \/ arrived'[n] = slot'
             \/ handling'[arrived'[n]] # "idle"
      BY <2>3, <2>4, <2>5, <3>1
    <3>3. \A q \in Proposal : [proposal |-> q] \in Elements(stdout') => q \notin overflowed'
      BY <2>1, <2>5 DEF Accounted
    <3> QED
      BY <2>5, <3>2, <3>3 DEF Accounted
  <2>6. CASE handled' = Append(handled, p) /\ slot = None
             /\ handling' = [handling EXCEPT ![p] = "observe"] /\ UNCHANGED <<slot, overflowed>>
    <3>1. Joins(p)
      BY <1>1, <1>2, <1>4, <2>6 DEF Joins, Arrives
    <3>2. Accounted'
      BY <1>0, <2>5, <2>6
    <3> QED
      BY <2>2, <3>1, <3>2, JoinsInOrder
  <2>7. CASE active /\ slot = None /\ slot' = p
             /\ UNCHANGED <<active, handled, overflowed, handling>>
    <3>1. Joins(p)
      BY <1>0, <1>1, <1>2, <1>4, <2>7 DEF Joins, Arrives
    <3>2. Accounted'
      BY <1>0, <2>5, <2>7
    <3> QED
      BY <2>2, <3>1, <3>2, JoinsInOrder
  <2>8. CASE active /\ slot # None /\ overflowed' = overflowed \cup {p}
             /\ UNCHANGED <<active, slot, handled, handling>>
    <3>1. Leaves(p)
      BY <1>1, <1>2, <1>4, <2>8 DEF Leaves, Arrives
    <3>2. Accounted'
      BY <1>0, <2>5, <2>8
    <3>3. \A n \in 1 .. Len(arrived) : arrived[n] = p => p \in overflowed
      BY <2>2 DEF Accounted
    <3> QED
      BY <3>1, <3>2, <3>3, LeavesInOrder
  <2> QED
    BY <1>0, <1>4, <2>6, <2>7, <2>8 DEF Arrives, Accounted
<1>5. ASSUME NEW p \in Proposal, Frees(p)
      PROVE  Accounted' /\ ProposalsAccounted'
  <2>1. CASE /\ slot # None /\ handled' = Append(handled, slot)
             /\ handling' = [handling EXCEPT ![p] = "over", ![slot] = "observe"]
             /\ slot' = None /\ UNCHANGED active
    <3>1. Unmoved
      BY <1>1, <1>2, <1>5, <2>1 DEF Unmoved, Frees
    <3>2. handling'[slot] # "idle"
          /\ \A q \in Proposal : handling[q] # "idle" => handling'[q] # "idle"
      BY <1>0, <2>1
    <3>3. Accounted'
      BY <1>0, <1>5, <2>1, <3>2 DEF Accounted, Frees
    <3> QED
      BY <3>1, <3>3, UnmovedInOrder
  <2>2. CASE slot = None /\ handling' = [handling EXCEPT ![p] = "over"]
             /\ UNCHANGED <<slot, handled>>
    <3>1. Unmoved
      BY <1>1, <1>2, <1>5, <2>2 DEF Unmoved, Frees
    <3>2. \A q \in Proposal : handling[q] # "idle" => handling'[q] # "idle"
      BY <1>0, <2>2
    <3>3. Accounted'
      BY <1>0, <1>5, <2>2, <3>2 DEF Accounted, Frees
    <3> QED
      BY <3>1, <3>3, UnmovedInOrder
  <2> QED
    BY <1>0, <1>5, <2>1, <2>2 DEF Frees
<1> QED
  BY <1>3, <1>4, <1>5, StepAccount DEF AccountKinds

-----------------------------------------------------------------------------
(* Who awaits what. *)

\* Callers are told apart from the command, and requests are records.
LEMMA Names ==
    /\ Main \in Caller /\ Main \notin Proposal /\ Proposal \subseteq Caller
    /\ \A x \in Caller : x = Main \/ x \in Proposal
BY ConstantsAssumption DEF Caller

\* A request is refused at once, or written under the next identity.
LEMMA AskedBriefly ==
    ASSUME NEW x \in Caller, NEW op \in Operations, TypeOK, Ask(x, op)
    PROVE  /\ \A y \in Caller : y # x => waitsFor'[y] = waitsFor[y]
           /\ Len(requests) \in Nat
           /\ \/ waitsFor'[x] = 0 /\ UNCHANGED <<requests, answers, pending, stdin>>
              \/ Wrote(x, op)
<1>1. ChannelTypes
  BY TypesSplit
<1> QED
  BY <1>1, Asked

\* A caller whose promise is settled awaits nothing.
LEMMA SettledAwaitsNothing ==
    ASSUME NEW x \in Caller, OneAwaited, Settled(x)
    PROVE  \A n \in pending : requests[n].of # x
BY DEF OneAwaited, Settled

\* A caller that awaits nothing may ask.
LEMMA AskKeepsAwaited ==
    ASSUME NEW x \in Caller, NEW op \in Operations, TypeOK, OneAwaited, Ask(x, op),
           \A n \in pending : requests[n].of # x,
           x = Main => \/ stage' \in {"ping", "doctor"} /\ op \in {"ping", "doctor"}
                       \/ stage' = "closing" /\ op = "shutdown",
           x # Main => stage' = stage /\ handling'[x] \in Handled
                         /\ op \in {"doctor", "dispatch"},
           \A n \in pending : requests[n].of \in Proposal =>
              handling'[requests[n].of] \in Handled
    PROVE  OneAwaited'
<1>1. /\ \A y \in Caller : y # x => waitsFor'[y] = waitsFor[y]
      /\ Len(requests) \in Nat
      /\ \/ waitsFor'[x] = 0 /\ UNCHANGED <<requests, pending>>
         \/ Wrote(x, op)
  BY AskedBriefly
<1>2. pending \subseteq 1 .. Len(requests)
  BY DEF TypeOK
<1>3. \A n \in pending : requests[n].of \in Caller
  <2>1. \A n \in pending : requests[n] \in Request
    BY <1>2, ElementOfSeq DEF TypeOK
  <2> QED
    BY <2>1 DEF Request
<1>4. ASSUME NEW n \in pending, requests'[n] = requests[n]
      PROVE  /\ waitsFor'[requests'[n].of] = n
             /\ requests'[n].of = Main =>
                   \/ stage' \in {"ping", "doctor"} /\ requests'[n].op \in {"ping", "doctor"}
                   \/ stage' = "closing" /\ requests'[n].op = "shutdown"
             /\ requests'[n].of \in Proposal =>
                   /\ handling'[requests'[n].of] \in Handled
                   /\ requests'[n].op \in {"doctor", "dispatch"}
  BY <1>1, <1>3, <1>4, Names DEF OneAwaited
<1>5. CASE UNCHANGED <<requests, pending>>
  BY <1>4, <1>5 DEF OneAwaited
<1>6. CASE Wrote(x, op)
  <2> DEFINE id == Len(requests) + 1
  <2>1. /\ requests'[id] = [op |-> op, of |-> x] /\ waitsFor'[x] = id
        /\ pending' = pending \cup {id}
        /\ \A n \in pending : requests'[n] = requests[n]
    BY <1>2, <1>6 DEF Wrote
  <2>2. requests'[id].op = op /\ requests'[id].of = x
    BY <2>1
  <2> HIDE DEF id
  <2>3. \A n \in pending' : n \in pending \/ n = id
    BY <2>1
  <2> QED
    BY <1>4, <2>1, <2>2, <2>3, Names DEF OneAwaited
<1> QED
  BY <1>1, <1>5, <1>6

\* Fewer pending requests, of callers that did not move on.
LEMMA FewerAwaited ==
    ASSUME OneAwaited, UNCHANGED <<requests, waitsFor>>, pending' \subseteq pending,
           \A n \in pending' :
              /\ requests[n].of = Main => stage' = stage
              /\ requests[n].of \in Proposal => handling'[requests[n].of] \in Handled
    PROVE  OneAwaited'
BY DEF OneAwaited

\* Only a caller whose promise is settled asks again.
LEMMA OneAwaitedStep ==
    ASSUME TypeOK, OnePlace, Subscribed, OneAwaited, [Next]_vars
    PROVE  OneAwaited'
<1>0. handling \in [Proposal -> {"idle", "observe", "refresh", "dispatch", "over"}]
  BY DEF TypeOK
<1> USE DEF Operations
<1>1. \A n \in pending : requests[n].of \in Proposal => handling[requests[n].of] \in Handled
  BY DEF OneAwaited
<1>2. CASE MainAsks
  <2>1. \A n \in pending : requests[n].of # Main
    BY <1>2, SettledAwaitsNothing, Names DEF MainAsks, OneAwaited
  <2>2. UNCHANGED handling
    BY <1>2 DEF MainAsks
  <2>3. PICK op \in Operations :
           /\ Ask(Main, op)
           /\ \/ stage' \in {"ping", "doctor"} /\ op \in {"ping", "doctor"}
              \/ stage' = "closing" /\ op = "shutdown"
    BY <1>2 DEF MainAsks
  <2> QED
    BY <1>1, <2>1, <2>2, <2>3, AskKeepsAwaited, Names
<1>3. CASE Fails
  BY <1>3, FewerAwaited DEF Fails, FailChannel
<1>4. CASE Settles
  BY <1>1, <1>4, FewerAwaited DEF Settles
<1>5. CASE Rests
  <2>1. stage' # stage => \A n \in pending : requests[n].of # Main
    BY <1>5, SettledAwaitsNothing, Names DEF Rests, OneAwaited
  <2>2. UNCHANGED <<requests, waitsFor, pending, handling>>
    BY <1>5 DEF Rests
  <2> QED
    BY <1>1, <2>1, <2>2, FewerAwaited
<1>6. ASSUME NEW p \in Proposal, TakesUp(p)
      PROVE  OneAwaited'
  <2>1. handling[p] = "idle"
    <3>1. Head(stdout) \in Elements(stdout)
      BY <1>6, Read DEF TakesUp, TypeOK
    <3> QED
      BY <1>6, <3>1 DEF TakesUp, OnePlace
  <2>2. \A n \in pending : requests[n].of # p
    BY <1>1, <2>1 DEF Handled
  <2>3. /\ Ask(p, "doctor") /\ stage' = stage /\ handling'[p] = "observe"
        /\ \A q \in Proposal : q # p => handling'[q] = handling[q]
    BY <1>0, <1>6 DEF TakesUp
  <2> QED
    BY <1>1, <2>2, <2>3, AskKeepsAwaited, Names DEF Handled
<1>7. ASSUME NEW p \in Proposal, Advances(p)
      PROVE  OneAwaited'
  <2>1. \A n \in pending : requests[n].of # p
    BY <1>7, SettledAwaitsNothing, Names DEF Advances
  <2>2. PICK op \in {"doctor", "dispatch"} : Ask(p, op)
    BY <1>7 DEF Advances
  <2>3. /\ stage' = stage /\ handling'[p] \in {"refresh", "dispatch"}
        /\ \A q \in Proposal : q # p => handling'[q] = handling[q]
    BY <1>0, <1>7 DEF Advances
  <2> QED
    BY <1>1, <2>1, <2>2, <2>3, AskKeepsAwaited, Names DEF Handled
<1>8. ASSUME NEW p \in Proposal, Ends(p)
      PROVE  OneAwaited'
  <2>1. \A n \in pending : requests[n].of # p
    BY <1>8, SettledAwaitsNothing, Names DEF Ends
  <2>2. CASE /\ slot \in Proposal
             /\ handling' = [handling EXCEPT ![p] = "over", ![slot] = "observe"]
             /\ Ask(slot, "doctor")
    <3>1. handling[slot] = "idle" /\ slot # p
      BY <1>8, <2>2, ConstantsAssumption DEF OnePlace, Ends, Handled
    <3>2. \A n \in pending : requests[n].of # slot
      BY <1>1, <2>2, <3>1 DEF Handled
    <3>3. /\ stage' = stage /\ handling'[slot] = "observe"
          /\ \A q \in Proposal : q # p /\ q # slot => handling'[q] = handling[q]
      BY <1>0, <1>8, <2>2 DEF Ends
    <3> QED
      BY <1>1, <2>1, <2>2, <3>2, <3>3, AskKeepsAwaited, Names DEF Handled
  <2>3. CASE handling' = [handling EXCEPT ![p] = "over"] /\ Waiting
    <3>1. /\ stage' = stage /\ UNCHANGED <<requests, waitsFor, pending>>
          /\ \A q \in Proposal : q # p => handling'[q] = handling[q]
      BY <1>0, <1>8, <2>3 DEF Ends, Waiting
    <3> QED
      BY <1>1, <2>1, <3>1, FewerAwaited
  <2> QED
    BY <1>8, <2>2, <2>3 DEF Ends
<1> QED
  BY <1>2, <1>3, <1>4, <1>5, <1>6, <1>7, <1>8, StepKinds DEF Kinds

-----------------------------------------------------------------------------
(* What was asked for, and what came of it. *)

\* Requests are only ever added, one at a time; a dispatch by Execute alone.
LEMMA RequestsGrow ==
    ASSUME TypeOK, [Next]_vars
    PROVE  /\ Len(requests) \in Nat /\ Len(requests) <= Len(requests')
           /\ \A n \in 1 .. Len(requests) :
                 /\ n \in 1 .. Len(requests') /\ requests'[n] = requests[n]
                 /\ answers[n] # "none" => answers'[n] = answers[n]
           /\ \A n \in 1 .. Len(requests') :
                 n \in 1 .. Len(requests)
                 \/ /\ n = Len(requests) + 1
                    /\ requests'[n].op = "dispatch" =>
                          \E p \in Proposal :
                             /\ requests'[n] = [op |-> "dispatch", of |-> p]
                             /\ handling[p] = "refresh" /\ handling'[p] = "dispatch"
<1> DEFINE Goal ==
      /\ Len(requests) \in Nat /\ Len(requests) <= Len(requests')
      /\ \A n \in 1 .. Len(requests) :
            /\ n \in 1 .. Len(requests') /\ requests'[n] = requests[n]
            /\ answers[n] # "none" => answers'[n] = answers[n]
      /\ \A n \in 1 .. Len(requests') :
            n \in 1 .. Len(requests)
            \/ /\ n = Len(requests) + 1
               /\ requests'[n].op = "dispatch" =>
                     \E p \in Proposal :
                        /\ requests'[n] = [op |-> "dispatch", of |-> p]
                        /\ handling[p] = "refresh" /\ handling'[p] = "dispatch"
<1>0. /\ Len(requests) \in Nat /\ Len(requests) <= Len(requests)
      /\ pending = {n \in 1 .. Len(requests) : answers[n] = "none"}
      /\ answers \in [1 .. Len(requests) -> Answer \cup {"none"}]
      /\ handling \in [Proposal -> {"idle", "observe", "refresh", "dispatch", "over"}]
  BY LenProperties DEF TypeOK
<1>1. UNCHANGED <<requests, answers>> => Goal
  BY <1>0
<1>2. ASSUME NEW x \in Caller, NEW op \in Operations, Ask(x, op),
             op = "dispatch" => /\ x \in Proposal
                                /\ handling[x] = "refresh" /\ handling'[x] = "dispatch"
      PROVE  Goal
  <2>1. CASE Wrote(x, op)
    <3>1. /\ Len(requests') = Len(requests) + 1
          /\ requests'[Len(requests) + 1] = [op |-> op, of |-> x]
          /\ \A n \in 1 .. Len(requests) : requests'[n] = requests[n]
          /\ \A n \in 1 .. Len(requests) : answers'[n] = answers[n]
      BY <2>1 DEF Wrote
    <3>2. [op |-> op, of |-> x].op = op
      OBVIOUS
    <3>3. /\ Len(requests) <= Len(requests')
          /\ \A n \in 1 .. Len(requests) : n \in 1 .. Len(requests')
          /\ \A n \in 1 .. Len(requests') : n \in 1 .. Len(requests) \/ n = Len(requests) + 1
      BY <1>0, <3>1
    <3>4. requests'[Len(requests) + 1].op = "dispatch" =>
             \E p \in Proposal :
                /\ requests'[Len(requests) + 1] = [op |-> "dispatch", of |-> p]
                /\ handling[p] = "refresh" /\ handling'[p] = "dispatch"
      BY <1>2, <3>1, <3>2
    <3> QED
      BY <1>0, <3>1, <3>3, <3>4
  <2> QED
    BY <1>1, <1>2, <2>1, AskedBriefly
<1>3. CASE MainAsks
  BY <1>2, <1>3, Names DEF MainAsks, Operations
<1>4. CASE Fails
  <2>1. UNCHANGED requests /\ \A n \in 1 .. Len(requests) : answers[n] # "none" =>
           answers'[n] = answers[n]
    BY <1>0, <1>4 DEF Fails, FailChannel, RejectedAnswers
  <2> QED
    BY <1>0, <2>1
<1>5. CASE Settles
  <2>1. UNCHANGED requests /\ \A n \in 1 .. Len(requests) : answers[n] # "none" =>
           answers'[n] = answers[n]
    BY <1>0, <1>5 DEF Settles
  <2> QED
    BY <1>0, <2>1
<1>6. CASE Rests
  BY <1>1, <1>6 DEF Rests
<1>7. ASSUME NEW p \in Proposal, TakesUp(p)
      PROVE  Goal
  BY <1>2, <1>7, Names DEF TakesUp, Operations
<1>8. ASSUME NEW p \in Proposal, Advances(p)
      PROVE  Goal
  <2>1. CASE Ask(p, "doctor")
    BY <1>2, <2>1, Names DEF Operations
  <2>2. CASE Ask(p, "dispatch") /\ handling[p] = "refresh" /\ handling'[p] = "dispatch"
    BY <1>2, <2>2, Names DEF Operations
  <2> QED
    BY <1>0, <1>8, <2>1, <2>2 DEF Advances
<1>9. ASSUME NEW p \in Proposal, Ends(p)
      PROVE  Goal
  <2>1. CASE slot \in Proposal /\ Ask(slot, "doctor")
    BY <1>2, <2>1, Names DEF Operations
  <2>2. CASE Waiting
    BY <1>1, <2>2 DEF Waiting
  <2> QED
    BY <1>9, <2>1, <2>2 DEF Ends
<1> QED
  BY <1>3, <1>4, <1>5, <1>6, <1>7, <1>8, <1>9, StepKinds DEF Kinds

\* How the handling of a proposal goes on, and what is concluded of it.
LEMMA HandlingGoesOn ==
    ASSUME TypeOK, OnePlace, [Next]_vars, NEW q \in Proposal
    PROVE  /\ handling[q] = "over" => handling'[q] = "over"
           /\ handling[q] = "dispatch" => handling'[q] \in {"dispatch", "over"}
           /\ handling'[q] = "dispatch" =>
                 \/ handling[q] = "dispatch" /\ waitsFor'[q] = waitsFor[q]
                 \/ /\ handling[q] = "refresh"
                    /\ waitsFor'[q] = 0 \/ Wrote(q, "dispatch")
           /\ \/ outcome'[q] = outcome[q]
              \/ /\ handling[q] \in Handled /\ handling'[q] = "over"
                 /\ outcome'[q] = IF handling[q] = "dispatch"
                                  THEN OutcomeOf(Result(q)) ELSE "blocked"
<1>0. /\ handling \in [Proposal -> {"idle", "observe", "refresh", "dispatch", "over"}]
      /\ outcome \in [Proposal -> {"none", "blocked", "refused", "completed", "unknown"}]
      /\ q \in Caller /\ q # Main
  BY Names DEF TypeOK
<1>1. CASE handling'[q] = handling[q] /\ outcome'[q] = outcome[q]
             /\ waitsFor'[q] = waitsFor[q]
  BY <1>1
<1>2. CASE MainAsks
  <2>1. waitsFor'[q] = waitsFor[q]
    BY <1>0, <1>2, AskedBriefly, Names DEF MainAsks, Operations
  <2> QED
    BY <1>1, <1>2, <2>1 DEF MainAsks
<1>3. CASE Fails \/ Settles \/ Rests
  BY <1>1, <1>3 DEF Fails, FailChannel, Settles, Rests
<1>4. ASSUME NEW p \in Proposal, TakesUp(p)
      PROVE  /\ handling'[q] = IF q = p THEN "observe" ELSE handling[q]
             /\ q # p => waitsFor'[q] = waitsFor[q]
             /\ handling[p] = "idle" /\ outcome' = outcome
  <2>1. handling[p] = "idle"
    <3>1. Head(stdout) \in Elements(stdout)
      BY <1>4, Read DEF TakesUp, TypeOK
    <3> QED
      BY <1>4, <3>1 DEF TakesUp, OnePlace
  <2>2. q # p => waitsFor'[q] = waitsFor[q]
    BY <1>0, <1>4, AskedBriefly, Names DEF TakesUp, Operations
  <2> QED
    BY <1>0, <1>4, <2>1, <2>2 DEF TakesUp
<1>5. ASSUME NEW p \in Proposal, Advances(p)
      PROVE  /\ outcome' = outcome
             /\ q # p => handling'[q] = handling[q] /\ waitsFor'[q] = waitsFor[q]
             /\ q = p => \/ handling[q] = "observe" /\ handling'[q] = "refresh"
                         \/ /\ handling[q] = "refresh" /\ handling'[q] = "dispatch"
                            /\ waitsFor'[q] = 0 \/ Wrote(q, "dispatch")
  <2>1. PICK op \in Operations : Ask(p, op)
    BY <1>5 DEF Advances, Operations
  <2>2. q # p => waitsFor'[q] = waitsFor[q]
    BY <1>0, <2>1, AskedBriefly, Names
  <2>3. Ask(p, "dispatch") => waitsFor'[p] = 0 \/ Wrote(p, "dispatch")
    BY AskedBriefly, Names DEF Operations
  <2> QED
    BY <1>0, <1>5, <2>2, <2>3 DEF Advances
<1>6. ASSUME NEW p \in Proposal, Ends(p), q # p
      PROVE  /\ outcome'[q] = outcome[q]
             /\ \/ handling'[q] = handling[q] /\ waitsFor'[q] = waitsFor[q]
                \/ handling[q] = "idle" /\ handling'[q] = "observe"
  <2>1. outcome'[q] = outcome[q]
    BY <1>0, <1>6 DEF Ends
  <2>2. CASE /\ slot \in Proposal
             /\ handling' = [handling EXCEPT ![p] = "over", ![slot] = "observe"]
             /\ Ask(slot, "doctor")
    <3>1. handling[slot] = "idle"
      BY <2>2, ConstantsAssumption DEF OnePlace
    <3>2. q # slot => waitsFor'[q] = waitsFor[q]
      BY <1>0, <2>2, AskedBriefly, Names DEF Operations
    <3> QED
      BY <1>0, <1>6, <2>1, <2>2, <3>1, <3>2
  <2>3. CASE handling' = [handling EXCEPT ![p] = "over"] /\ Waiting
    BY <1>0, <1>6, <2>1, <2>3 DEF Waiting
  <2> QED
    BY <1>6, <2>2, <2>3 DEF Ends
<1>7. ASSUME Ends(q)
      PROVE  /\ handling[q] \in Handled /\ handling'[q] = "over"
             /\ outcome'[q] = IF handling[q] = "dispatch"
                              THEN OutcomeOf(Result(q)) ELSE "blocked"
  <2>1. slot \in Proposal => handling[slot] = "idle"
    BY ConstantsAssumption DEF OnePlace
  <2>2. slot # q \/ slot \notin Proposal
    BY <1>7, <2>1 DEF Ends, Handled
  <2> QED
    BY <1>0, <1>7, <2>2 DEF Ends
<1>8. ASSUME NEW p \in Proposal, TakesUp(p) \/ Advances(p)
      PROVE  /\ handling[q] = "over" => handling'[q] = "over"
             /\ handling[q] = "dispatch" => handling'[q] \in {"dispatch", "over"}
             /\ handling'[q] = "dispatch" =>
                   \/ handling[q] = "dispatch" /\ waitsFor'[q] = waitsFor[q]
                   \/ /\ handling[q] = "refresh"
                      /\ waitsFor'[q] = 0 \/ Wrote(q, "dispatch")
             /\ outcome'[q] = outcome[q]
  BY <1>4, <1>5, <1>8
<1>9. ASSUME NEW p \in Proposal, Ends(p)
      PROVE  /\ handling[q] = "over" => handling'[q] = "over"
             /\ handling[q] = "dispatch" => handling'[q] \in {"dispatch", "over"}
             /\ handling'[q] = "dispatch" =>
                   handling[q] = "dispatch" /\ waitsFor'[q] = waitsFor[q]
             /\ \/ outcome'[q] = outcome[q]
                \/ /\ handling[q] \in Handled /\ handling'[q] = "over"
                   /\ outcome'[q] = IF handling[q] = "dispatch"
                                    THEN OutcomeOf(Result(q)) ELSE "blocked"
  BY <1>6, <1>7, <1>9
<1> QED
  BY <1>2, <1>3, <1>8, <1>9, StepKinds DEF Kinds

\* A dispatch of q is an old one, or the one that Execute writes in this step.
LEMMA DispatchesGrow ==
    ASSUME TypeOK, [Next]_vars, NEW q \in Proposal
    PROVE  /\ \A n \in 1 .. Len(requests) :
                 /\ n \in 1 .. Len(requests')
                 /\ IsDispatch(n, q)' <=> IsDispatch(n, q)
           /\ \A n \in 1 .. Len(requests') : IsDispatch(n, q)' =>
                 \/ n \in 1 .. Len(requests) /\ IsDispatch(n, q)
                 \/ /\ n = Len(requests) + 1
                    /\ handling[q] = "refresh" /\ handling'[q] = "dispatch"
<1>1. ASSUME NEW n \in 1 .. Len(requests)
      PROVE  /\ n \in 1 .. Len(requests')
             /\ IsDispatch(n, q)' <=> IsDispatch(n, q)
  BY <1>1, RequestsGrow DEF IsDispatch
<1>2. ASSUME NEW n \in 1 .. Len(requests'), IsDispatch(n, q)', n \notin 1 .. Len(requests)
      PROVE  /\ n = Len(requests) + 1
             /\ handling[q] = "refresh" /\ handling'[q] = "dispatch"
  <2>1. requests'[n] = [op |-> "dispatch", of |-> q]
    BY <1>2 DEF IsDispatch
  <2>2. requests'[n].op = "dispatch" /\ requests'[n].of = q
    BY <2>1
  <2>3. n = Len(requests) + 1
        /\ \E p \in Proposal :
              /\ requests'[n] = [op |-> "dispatch", of |-> p]
              /\ handling[p] = "refresh" /\ handling'[p] = "dispatch"
    BY <1>2, <2>2, RequestsGrow
  <2>4. PICK p \in Proposal :
           /\ requests'[n] = [op |-> "dispatch", of |-> p]
           /\ handling[p] = "refresh" /\ handling'[p] = "dispatch"
    BY <2>3
  <2>5. requests'[n].of = p
    BY <2>4
  <2> QED
    BY <2>2, <2>3, <2>4, <2>5
<1> QED
  BY <1>1, <1>2

\* Execute dispatches a proposal that was not dispatched yet.
LEMMA DispatchOnceStep ==
    ASSUME TypeOK, OnePlace, DispatchOnce, [Next]_vars
    PROVE  DispatchOnce'
<1>1. ASSUME NEW q \in Proposal
      PROVE  /\ \A m, n \in 1 .. Len(requests') :
                   IsDispatch(m, q)' /\ IsDispatch(n, q)' => m = n
             /\ (\E n \in 1 .. Len(requests') : IsDispatch(n, q)') =>
                   handling'[q] \in {"dispatch", "over"}
  <2>1. handling[q] = "refresh" => \A n \in 1 .. Len(requests) : ~IsDispatch(n, q)
    BY DEF DispatchOnce
  <2>2. ASSUME NEW n \in 1 .. Len(requests'), IsDispatch(n, q)'
        PROVE  handling'[q] \in {"dispatch", "over"}
    <3>1. CASE n \in 1 .. Len(requests) /\ IsDispatch(n, q)
      BY <3>1, HandlingGoesOn DEF DispatchOnce
    <3>2. CASE handling'[q] = "dispatch"
      BY <3>2
    <3> QED
      BY <2>2, <3>1, <3>2, DispatchesGrow
  <2>3. ASSUME NEW m \in 1 .. Len(requests'), NEW n \in 1 .. Len(requests'),
               IsDispatch(m, q)', IsDispatch(n, q)'
        PROVE  m = n
    <3>1. \/ m \in 1 .. Len(requests) /\ IsDispatch(m, q)
          \/ m = Len(requests) + 1 /\ handling[q] = "refresh"
      BY <2>3, DispatchesGrow
    <3>2. \/ n \in 1 .. Len(requests) /\ IsDispatch(n, q)
          \/ n = Len(requests) + 1 /\ handling[q] = "refresh"
      BY <2>3, DispatchesGrow
    <3> QED
      BY <2>1, <3>1, <3>2 DEF DispatchOnce
  <2> QED
    BY <2>2, <2>3
<1>2. ASSUME NEW q \in Proposal, handling'[q] = "dispatch", waitsFor'[q] # 0
      PROVE  IsDispatch(waitsFor[q], q)'
  <2>1. CASE handling[q] = "dispatch" /\ waitsFor'[q] = waitsFor[q]
    <3>1. IsDispatch(waitsFor[q], q) /\ waitsFor[q] \in 1 .. Len(requests)
      BY <1>2, <2>1 DEF DispatchOnce, IsDispatch
    <3>2. requests'[waitsFor[q]] = requests[waitsFor[q]]
          /\ waitsFor[q] \in 1 .. Len(requests')
      BY <3>1, RequestsGrow
    <3> QED
      BY <2>1, <3>1, <3>2 DEF IsDispatch
  <2>2. CASE Wrote(q, "dispatch")
    <3>1. /\ waitsFor'[q] = Len(requests')
          /\ requests'[waitsFor'[q]] = [op |-> "dispatch", of |-> q]
          /\ Len(requests') = Len(requests) + 1
      BY <2>2 DEF Wrote
    <3>2. waitsFor'[q] \in 1 .. Len(requests')
      BY <3>1, RequestsGrow
    <3> QED
      BY <3>1, <3>2 DEF IsDispatch
  <2> QED
    BY <1>2, <2>1, <2>2, HandlingGoesOn
<1>3. ASSUME NEW n \in 1 .. Len(requests'), requests'[n].op = "dispatch"
      PROVE  requests'[n].of \in Proposal
  <2>1. CASE n \in 1 .. Len(requests)
    BY <1>3, <2>1, RequestsGrow DEF DispatchOnce
  <2>2. CASE \E p \in Proposal : requests'[n] = [op |-> "dispatch", of |-> p]
    BY <2>2
  <2> QED
    BY <1>3, <2>1, <2>2, RequestsGrow
<1> QED
  BY <1>1, <1>2, <1>3 DEF DispatchOnce

\* The answer to a dispatch is the last word on its proposal, and no dispatch
\* follows a refusal of the gate.
LEMMA ConcludedStep ==
    ASSUME TypeOK, OnePlace, DispatchOnce, Concluded, [Next]_vars
    PROVE  Concluded'
<1>1. ASSUME NEW q \in Proposal
      PROVE  /\ outcome'[q] # "none" => handling'[q] = "over"
             /\ outcome'[q] = "blocked" => \A n \in 1 .. Len(requests') : ~IsDispatch(n, q)'
             /\ outcome'[q] \in {"refused", "completed"} =>
                   \E n \in 1 .. Len(requests') :
                      IsDispatch(n, q)' /\ answers'[n] = outcome'[q]
  <2>1. ASSUME NEW n \in 1 .. Len(requests), IsDispatch(n, q), answers[n] # "none"
        PROVE  n \in 1 .. Len(requests') /\ IsDispatch(n, q)' /\ answers'[n] = answers[n]
    BY <2>1, DispatchesGrow, RequestsGrow
  <2>2. handling[q] # "refresh" \/ handling'[q] # "dispatch" =>
           \A n \in 1 .. Len(requests') : IsDispatch(n, q)' =>
              n \in 1 .. Len(requests) /\ IsDispatch(n, q)
    BY DispatchesGrow
  <2>3. CASE outcome'[q] = outcome[q]
    <3>1. outcome[q] # "none" => handling[q] = "over" /\ handling'[q] = "over"
      BY HandlingGoesOn DEF Concluded
    <3>2. ASSUME outcome[q] \in {"refused", "completed"}
          PROVE  \E n \in 1 .. Len(requests') :
                    IsDispatch(n, q)' /\ answers'[n] = outcome[q]
      <4>1. PICK n \in 1 .. Len(requests) : IsDispatch(n, q) /\ answers[n] = outcome[q]
        BY <3>2 DEF Concluded
      <4> QED
        BY <2>1, <3>2, <4>1
    <3>3. outcome[q] = "blocked" => \A n \in 1 .. Len(requests) : ~IsDispatch(n, q)
      BY DEF Concluded
    <3> QED
      BY <2>2, <2>3, <3>1, <3>2, <3>3
  <2>4. CASE /\ handling[q] \in {"observe", "refresh"} /\ handling'[q] = "over"
             /\ outcome'[q] = "blocked"
    <3>1. \A n \in 1 .. Len(requests) : ~IsDispatch(n, q)
      BY <2>4 DEF DispatchOnce
    <3> QED
      BY <2>2, <2>4, <3>1
  <2>5. CASE /\ handling[q] = "dispatch" /\ handling'[q] = "over"
             /\ outcome'[q] = OutcomeOf(Result(q))
    <3>1. outcome'[q] \in {"refused", "completed", "unknown"}
          /\ (outcome'[q] \in {"refused", "completed"} => outcome'[q] = Result(q))
      BY <2>5 DEF OutcomeOf
    <3>2. ASSUME outcome'[q] \in {"refused", "completed"}
          PROVE  \E n \in 1 .. Len(requests') :
                    IsDispatch(n, q)' /\ answers'[n] = outcome'[q]
      <4>1. waitsFor[q] # 0 /\ answers[waitsFor[q]] = outcome'[q]
        BY <3>1, <3>2 DEF Result
      <4>2. IsDispatch(waitsFor[q], q) /\ waitsFor[q] \in 1 .. Len(requests)
        BY <2>5, <4>1 DEF DispatchOnce, IsDispatch
      <4> QED
        BY <2>1, <3>2, <4>1, <4>2
    <3> QED
      BY <2>5, <3>1, <3>2
  <2> QED
    BY <2>3, <2>4, <2>5, HandlingGoesOn DEF Handled
<1> QED
  BY <1>1 DEF Concluded

-----------------------------------------------------------------------------
(* What is known of the goals. *)

Replied == [id : Nat, answer : Answer]

\* A step of the command reads a line, or none; it writes a request, or none;
\* the answer it gives to a caller is the line it reads.
CommandPipes ==
    /\ UNCHANGED <<work, goal>>
    /\ UNCHANGED stdout \/ (stdout # <<>> /\ stdout' = Tail(stdout))
    /\ \/ UNCHANGED stdin
       \/ /\ Elements(stdin') = Elements(stdin) \cup {Len(requests) + 1}
          /\ DistinctIn(stdin, Nat) => DistinctIn(stdin', Nat)
    /\ \A n \in 1 .. Len(requests') : answers'[n] \in {"refused", "completed"} =>
          /\ n \in 1 .. Len(requests)
          /\ \/ answers'[n] = answers[n]
             \/ stdout # <<>> /\ Head(stdout) = [id |-> n, answer |-> answers'[n]]
                              /\ answers'[n] \in Answer

\* A step that asks keeps the old answers.
LEMMA AskPipes ==
    ASSUME TypeOK, NEW x \in Caller, NEW op \in Operations, Ask(x, op)
    PROVE  /\ \/ UNCHANGED stdin
              \/ /\ Elements(stdin') = Elements(stdin) \cup {Len(requests) + 1}
                 /\ DistinctIn(stdin, Nat) => DistinctIn(stdin', Nat)
           /\ \A n \in 1 .. Len(requests') : answers'[n] \in {"refused", "completed"} =>
                 n \in 1 .. Len(requests) /\ answers'[n] = answers[n]
<1>1. CASE UNCHANGED <<requests, answers, stdin>>
  BY <1>1
<1>2. CASE Wrote(x, op)
  <2>1. /\ Len(requests') = Len(requests) + 1
        /\ \A n \in 1 .. Len(requests) : answers'[n] = answers[n]
        /\ answers'[Len(requests) + 1] = "none"
        /\ Elements(stdin') = Elements(stdin) \cup {Len(requests) + 1}
        /\ DistinctIn(stdin, Nat) => DistinctIn(stdin', Nat)
    BY <1>2 DEF Wrote
  <2>2. \A n \in 1 .. Len(requests') : n \in 1 .. Len(requests) \/ n = Len(requests) + 1
    BY <2>1, AskedBriefly
  <2> QED
    BY <2>1, <2>2
<1> QED
  BY <1>1, <1>2, AskedBriefly

\* Every step but those of the sidecar is such a step.
LEMMA CommandStep ==
    ASSUME TypeOK, [Next]_vars, ~Sidecar
    PROVE  CommandPipes
<1> DEFINE Pipe ==
      \/ UNCHANGED stdin
      \/ /\ Elements(stdin') = Elements(stdin) \cup {Len(requests) + 1}
         /\ DistinctIn(stdin, Nat) => DistinctIn(stdin', Nat)
<1> DEFINE Told ==
      \A n \in 1 .. Len(requests') : answers'[n] \in {"refused", "completed"} =>
         /\ n \in 1 .. Len(requests)
         /\ \/ answers'[n] = answers[n]
            \/ stdout # <<>> /\ Head(stdout) = [id |-> n, answer |-> answers'[n]]
                             /\ answers'[n] \in Answer
<1>1. /\ UNCHANGED <<work, goal>>
      /\ UNCHANGED stdout \/ (stdout # <<>> /\ stdout' = Tail(stdout))
  <2>1. CASE Command \/ Stop \/ ProposalTimeout
    BY <2>1
    DEF Command, Start, Started, Reported, StartFails, Subscribe, Close, Closed, Stop,
        ProposalTimeout, Unhandled
  <2>2. CASE HandleLine \/ ChildExits \/ Timeout \/ UNCHANGED vars
    BY <2>2 DEF HandleLine, ChildExits, Timeout, vars, sidecar
  <2>3. CASE \E p \in Proposal : Handle(p)
    BY <2>3 DEF Handle, InvalidReport, Evaluate, Execute, Goes, Conclude
  <2> QED
    BY <2>1, <2>2, <2>3 DEF Next
<1>2. UNCHANGED <<requests, answers>> => Told
  OBVIOUS
<1>3. ASSUME NEW x \in Caller, NEW op \in Operations, Ask(x, op)
      PROVE  Pipe /\ Told
  BY <1>3, AskPipes
<1>4. ASSUME MainAsks
      PROVE  Pipe /\ Told
  BY <1>3, <1>4, Names DEF MainAsks, Operations
<1>5. ASSUME Fails
      PROVE  Pipe /\ Told
  <2>1. requests' = requests /\ UNCHANGED stdin
    BY <1>5 DEF Fails, FailChannel
  <2>2. ASSUME NEW n \in 1 .. Len(requests), answers'[n] \in {"refused", "completed"}
        PROVE  answers'[n] = answers[n]
    BY <1>5, <2>2 DEF Fails, FailChannel, RejectedAnswers, TypeOK
  <2> QED
    BY <2>1, <2>2
<1>6. ASSUME Settles
      PROVE  Pipe /\ Told
  <2>1. requests' = requests /\ UNCHANGED stdin /\ stdout # <<>>
    BY <1>6 DEF Settles
  <2>2. PICK n \in pending, a \in Answer :
           /\ Head(stdout) = [id |-> n, answer |-> a]
           /\ answers' = [answers EXCEPT ![n] = a]
    BY <1>6 DEF Settles
  <2>3. answers'[n] = a /\ \A m \in 1 .. Len(requests) : m # n => answers'[m] = answers[m]
    BY <2>2 DEF TypeOK
  <2> QED
    BY <2>1, <2>2, <2>3
<1>7. ASSUME Rests
      PROVE  Pipe /\ Told
  BY <1>2, <1>7 DEF Rests, Sidecar
<1>8. ASSUME NEW p \in Proposal, TakesUp(p) \/ Advances(p)
      PROVE  Pipe /\ Told
  BY <1>3, <1>8, Names DEF TakesUp, Advances, Operations
<1>9. ASSUME NEW p \in Proposal, Ends(p)
      PROVE  Pipe /\ Told
  <2>1. CASE slot \in Proposal /\ Ask(slot, "doctor")
    BY <1>3, <2>1, Names DEF Operations
  <2>2. CASE Waiting
    BY <1>2, <2>2 DEF Waiting
  <2> QED
    BY <1>9, <2>1, <2>2 DEF Ends
<1> QED
  BY <1>1, <1>4, <1>5, <1>6, <1>7, <1>8, <1>9, StepKinds DEF Kinds, CommandPipes

\* While the command moves on, what was true of an answer stays true.
LEMMA CommandKeepsTruth ==
    ASSUME TypeOK, AnswersTrue, [Next]_vars, ~Sidecar
    PROVE  AnswersTrue'
<1>1. CommandPipes
  BY CommandStep
<1>2. /\ Len(requests) \in Nat
      /\ \A n \in 1 .. Len(requests) : n \in 1 .. Len(requests') /\ requests'[n] = requests[n]
  BY RequestsGrow
<1>3. stdin \in Seq(1 .. Len(requests)) /\ stdout \in Seq(Frames) /\ work \in 0 .. Len(requests)
  BY DEF TypeOK
<1>4. ASSUME NEW n \in 1 .. Len(requests), Done(n)
      PROVE  Done(n)'
  BY <1>1, <1>2, <1>4 DEF CommandPipes, Done
<1>5. ASSUME NEW n \in 1 .. Len(requests)
      PROVE  requests'[n] = requests[n] /\ goal' = goal
  BY <1>1, <1>2 DEF CommandPipes
<1>6. DistinctIn(stdin, Nat)' /\ (work \notin Elements(stdin))'
  BY <1>1, <1>2, <1>3 DEF CommandPipes, AnswersTrue
<1>7. Elements(stdout') \subseteq Elements(stdout)
  BY <1>1, <1>3, Read DEF CommandPipes
<1>8. ASSUME NEW line \in Elements(stdout'), line \in Replied
      PROVE  /\ line.id \in 1 .. Len(requests')
             /\ Done(line.id)' /\ Truth(line.id, line.answer)'
  <2>1. /\ line.id \in 1 .. Len(requests)
        /\ Done(line.id) /\ Truth(line.id, line.answer)
    BY <1>7, <1>8 DEF AnswersTrue, Replied
  <2>2. Truth(line.id, line.answer)'
    BY <1>5, <2>1 DEF Truth
  <2> QED
    BY <1>2, <1>4, <2>1, <2>2
<1>9. ASSUME NEW n \in 1 .. Len(requests'), answers'[n] \in {"refused", "completed"}
      PROVE  Done(n)' /\ Truth(n, answers[n])'
  <2>1. n \in 1 .. Len(requests)
    BY <1>1, <1>9 DEF CommandPipes
  <2>2. CASE answers'[n] = answers[n]
    <3>1. Done(n) /\ Truth(n, answers[n])
      BY <1>9, <2>1, <2>2 DEF AnswersTrue
    <3>2. Truth(n, answers[n])'
      BY <1>5, <2>1, <2>2, <3>1 DEF Truth
    <3> QED
      BY <1>4, <2>1, <3>1, <3>2
  <2>3. CASE /\ stdout # <<>> /\ Head(stdout) = [id |-> n, answer |-> answers'[n]]
             /\ answers'[n] \in Answer
    <3>1. Head(stdout) \in Elements(stdout)
      BY <1>3, <2>3, Read
    <3>2. Head(stdout) \in Replied /\ Head(stdout).id = n /\ Head(stdout).answer = answers'[n]
      BY <1>2, <2>3 DEF Replied
    <3>3. Done(n) /\ Truth(n, Head(stdout).answer)
      BY <3>1, <3>2 DEF AnswersTrue, Replied
    <3>4. Truth(n, answers[n])'
      BY <1>5, <2>1, <3>2, <3>3 DEF Truth
    <3> QED
      BY <1>4, <2>1, <3>3, <3>4
  <2> QED
    BY <1>1, <1>9, <2>2, <2>3 DEF CommandPipes
<1>10. ASSUME NEW p \in Proposal, goal'[p] # "none"
       PROVE  \E n \in 1 .. Len(requests') : IsDispatch(n, p)'
  BY <1>1, <1>10, DispatchesGrow DEF CommandPipes, AnswersTrue
<1> QED
  BY <1>6, <1>8, <1>9, <1>10 DEF AnswersTrue, Replied

\* What a step of the sidecar keeps: the requests, their answers, and that it
\* is done with those it was done with.
LEMMA SidecarKeepsTruth ==
    ASSUME TypeOK, DispatchOnce, AnswersTrue, Sidecar
    PROVE  AnswersTrue'
<1>0. UNCHANGED <<requests, answers>>
  BY DEF Sidecar, TakeRequest, SendGoal, Reply, Babble, SidecarExits, PublishProposal,
         Controller, Idle, channel
<1>1. /\ stdin \in Seq(1 .. Len(requests)) /\ stdout \in Seq(Frames)
      /\ work \in 0 .. Len(requests) /\ Len(requests) \in Nat
      /\ goal \in [Proposal -> {"none", "sent", "refused", "done"}]
  BY LenProperties DEF TypeOK
<1>2. \A n \in Elements(stdin) : n \in 1 .. Len(requests) /\ n \in Nat
  BY <1>1, ElementOfSeq DEF Elements
<1>3. ASSUME UNCHANGED <<stdout, goal>>,
             DistinctIn(stdin, Nat)', (work \notin Elements(stdin))',
             \A n \in 1 .. Len(requests) : Done(n) => Done(n)'
      PROVE  AnswersTrue'
  <2>1. \A line \in Elements(stdout') : line \in Replied =>
           /\ line.id \in 1 .. Len(requests')
           /\ Done(line.id)' /\ Truth(line.id, line.answer)'
    BY <1>0, <1>3 DEF AnswersTrue, Replied, Truth
  <2>2. \A n \in 1 .. Len(requests') : answers'[n] \in {"refused", "completed"} =>
           Done(n)' /\ Truth(n, answers[n])'
    BY <1>0, <1>3 DEF AnswersTrue, Truth
  <2>3. \A p \in Proposal : goal'[p] # "none" =>
           \E n \in 1 .. Len(requests') : IsDispatch(n, p)'
    BY <1>0, <1>3 DEF AnswersTrue, IsDispatch
  <2> QED
    BY <1>3, <2>1, <2>2, <2>3 DEF AnswersTrue, Replied
<1>4. ASSUME UNCHANGED <<stdin, stdout, work>>,
             \A n \in 1 .. Len(requests), a \in {"refused", "completed"} :
                Done(n) /\ Truth(n, a) => Truth(n, a)',
             \A p \in Proposal : goal'[p] # "none" =>
                \E n \in 1 .. Len(requests) : IsDispatch(n, p)
      PROVE  AnswersTrue'
  <2>1. \A n \in 1 .. Len(requests) : Done(n)' <=> Done(n)
    BY <1>4 DEF Done
  <2>2. ASSUME NEW line \in Elements(stdout'), line \in Replied
        PROVE  /\ line.id \in 1 .. Len(requests')
               /\ Done(line.id)' /\ Truth(line.id, line.answer)'
    <3>1. line.id \in 1 .. Len(requests) /\ Done(line.id) /\ Truth(line.id, line.answer)
      BY <1>4, <2>2 DEF AnswersTrue, Replied
    <3>2. Truth(line.id, line.answer)'
      <4>1. CASE line.answer = "refused"
        BY <1>4, <3>1, <4>1 DEF Truth
      <4>2. CASE line.answer = "completed"
        BY <1>4, <3>1, <4>2 DEF Truth
      <4> QED
        BY <4>1, <4>2 DEF Truth
    <3> QED
      BY <1>0, <2>1, <3>1, <3>2
  <2>3. ASSUME NEW n \in 1 .. Len(requests'), answers'[n] \in {"refused", "completed"}
        PROVE  Done(n)' /\ Truth(n, answers[n])'
    <3>1. n \in 1 .. Len(requests) /\ Done(n) /\ Truth(n, answers[n])
      BY <1>0, <2>3 DEF AnswersTrue
    <3>2. Truth(n, answers[n])'
      <4>1. CASE answers[n] = "refused"
        BY <1>0, <1>4, <3>1, <4>1 DEF Truth
      <4>2. CASE answers[n] = "completed"
        BY <1>0, <1>4, <3>1, <4>2 DEF Truth
      <4> QED
        BY <1>0, <2>3, <4>1, <4>2
    <3> QED
      BY <2>1, <3>1, <3>2
  <2>4. \A p \in Proposal : goal'[p] # "none" =>
           \E n \in 1 .. Len(requests') : IsDispatch(n, p)'
    BY <1>0, <1>4 DEF IsDispatch
  <2>5. DistinctIn(stdin, Nat)' /\ (work \notin Elements(stdin))'
    BY <1>4 DEF AnswersTrue
  <2> QED
    BY <2>2, <2>3, <2>4, <2>5 DEF AnswersTrue, Replied
<1>5. ASSUME NEW e \in Frames, Emit(e), UNCHANGED <<stdin, goal>>, work' \in {work, 0},
             e \in Replied => /\ e.id \in 1 .. Len(requests)
                              /\ Done(e.id)' /\ Truth(e.id, e.answer)
      PROVE  AnswersTrue'
  <2>1. Elements(stdout') = Elements(stdout) \cup {e}
    BY <1>1, <1>5, Written DEF Emit
  <2>2. \A n \in 1 .. Len(requests) : Done(n) => Done(n)'
    BY <1>1, <1>5 DEF Done
  <2>3. DistinctIn(stdin, Nat)' /\ (work \notin Elements(stdin))'
    BY <1>2, <1>5 DEF AnswersTrue
  <2>4. ASSUME NEW line \in Elements(stdout'), line \in Replied
        PROVE  /\ line.id \in 1 .. Len(requests')
               /\ Done(line.id)' /\ Truth(line.id, line.answer)'
    <3>1. /\ line.id \in 1 .. Len(requests)
          /\ Done(line.id)' /\ Truth(line.id, line.answer)
      BY <1>5, <2>1, <2>2, <2>4 DEF AnswersTrue, Replied
    <3> QED
      BY <1>0, <1>5, <3>1 DEF Truth
  <2>5. \A n \in 1 .. Len(requests') : answers'[n] \in {"refused", "completed"} =>
           Done(n)' /\ Truth(n, answers[n])'
    BY <1>0, <1>5, <2>2 DEF AnswersTrue, Truth
  <2>6. \A p \in Proposal : goal'[p] # "none" =>
           \E n \in 1 .. Len(requests') : IsDispatch(n, p)'
    BY <1>0, <1>5 DEF AnswersTrue, IsDispatch
  <2> QED
    BY <2>3, <2>4, <2>5, <2>6 DEF AnswersTrue, Replied
<1>6. CASE TakeRequest
  <2>1. /\ stdin # <<>> /\ work' = Head(stdin) /\ stdin' = Tail(stdin)
        /\ UNCHANGED <<stdout, goal>>
    BY <1>6 DEF TakeRequest
  <2>2. /\ Head(stdin) \in Elements(stdin) /\ Elements(stdin') \subseteq Elements(stdin)
        /\ DistinctIn(stdin, Nat)' /\ Head(stdin) \notin Elements(stdin')
    BY <1>1, <1>2, <2>1, Read DEF AnswersTrue
  <2> QED
    BY <1>3, <2>1, <2>2 DEF Done
<1>7. CASE SidecarExits
  <2>1. work' = 0 /\ UNCHANGED <<stdin, stdout, goal>>
    BY <1>7 DEF SidecarExits
  <2> QED
    BY <1>1, <1>2, <1>3, <2>1 DEF AnswersTrue, Done
<1>8. CASE SendGoal
  <2>1. /\ work # 0 /\ requests[work].op = "dispatch" /\ goal[requests[work].of] = "none"
        /\ goal' = [goal EXCEPT ![requests[work].of] = "sent"]
        /\ UNCHANGED <<stdin, stdout, work>>
    BY <1>8 DEF SendGoal
  <2>2. work \in 1 .. Len(requests)
    BY <1>1, <2>1
  <2> DEFINE p == requests[work].of
  <2>3. p \in Proposal
    BY <2>1, <2>2 DEF DispatchOnce
  <2>4. \A n \in 1 .. Len(requests) : requests[n].op = "dispatch" /\ requests[n].of = p =>
           IsDispatch(n, p)
    <3>1. \A n \in 1 .. Len(requests) : requests[n] \in Request
      BY <1>1, ElementOfSeq DEF TypeOK
    <3>2. \A r \in Request : r.op = "dispatch" /\ r.of = p =>
             r = [op |-> "dispatch", of |-> p]
      BY DEF Request
    <3> QED
      BY <3>1, <3>2 DEF IsDispatch
  <2>5. ASSUME NEW n \in 1 .. Len(requests), NEW a \in {"refused", "completed"},
               Done(n), Truth(n, a)
        PROVE  Truth(n, a)'
    <3>1. requests[n].op = "dispatch" => requests[n].of \in Proposal /\ requests[n].of # p
      BY <2>1, <2>2, <2>3, <2>4, <2>5 DEF DispatchOnce, Done
    <3> QED
      BY <1>0, <1>1, <2>1, <2>3, <2>5, <3>1 DEF Truth
  <2>6. ASSUME NEW q \in Proposal, goal'[q] # "none"
        PROVE  \E n \in 1 .. Len(requests) : IsDispatch(n, q)
    <3>1. CASE q = p
      BY <2>1, <2>2, <2>4, <3>1
    <3>2. CASE q # p
      BY <1>1, <2>1, <2>3, <2>6, <3>2 DEF AnswersTrue
    <3> QED
      BY <3>1, <3>2
  <2> QED
    BY <1>4, <2>1, <2>5, <2>6
<1>9. ASSUME NEW p \in Proposal, Controller(p)
      PROVE  AnswersTrue'
  <2>1. /\ goal[p] = "sent" /\ \A q \in Proposal : q # p => goal'[q] = goal[q]
        /\ UNCHANGED <<stdin, stdout, work>>
    BY <1>1, <1>9 DEF Controller
  <2>2. ASSUME NEW n \in 1 .. Len(requests), NEW a \in {"refused", "completed"},
               Truth(n, a)
        PROVE  Truth(n, a)'
    <3>1. requests[n].op = "dispatch" => requests[n].of \in Proposal
      BY DEF DispatchOnce
    <3> QED
      BY <1>0, <2>1, <2>2, <3>1 DEF Truth
  <2>3. \A q \in Proposal : goal'[q] # "none" =>
           \E n \in 1 .. Len(requests) : IsDispatch(n, q)
    BY <2>1 DEF AnswersTrue
  <2> QED
    BY <1>4, <2>1, <2>2, <2>3
<1>10. CASE Reply
  <2>1. work # 0 /\ work' = 0 /\ UNCHANGED <<stdin, goal>>
    BY <1>10 DEF Reply
  <2>2. PICK n \in 1 .. Len(requests) : n = work
    BY <1>1, <2>1
  <2>3. PICK answer \in Replies(requests[n]) : Emit([id |-> n, answer |-> answer])
    BY <1>10, <2>2 DEF Reply
  <2>4. requests[n].op \in {"ping", "doctor", "dispatch", "shutdown"} /\ n \in Nat /\ n # 0
    <3>1. requests[n] \in Request
      BY <1>1, ElementOfSeq DEF TypeOK
    <3> QED
      BY <1>1, <3>1 DEF Request
  <2>5. answer \in Answer
    BY <2>3, <2>4 DEF Replies, Answer
  <2> DEFINE e == [id |-> n, answer |-> answer]
  <2>6. e \in Frames /\ e.id = n /\ e.answer = answer
    BY <2>4, <2>5, FrameTypes
  <2>7. Truth(n, answer)
    BY <2>3 DEF Truth, Replies
  <2>8. Done(n)'
    BY <2>1, <2>2, <2>4 DEF Done, AnswersTrue
  <2>9. Emit(e)
    BY <2>3
  <2> HIDE DEF e
  <2> QED
    BY <1>5, <2>1, <2>2, <2>6, <2>7, <2>8, <2>9
<1>11. CASE Babble
  <2>1. Emit([garbage |-> TRUE]) /\ UNCHANGED <<stdin, goal, work>>
    BY <1>11 DEF Babble
  <2>2. [garbage |-> TRUE] \in Frames /\ [garbage |-> TRUE] \notin Replied
    BY DEF Frames, Replied
  <2> QED
    BY <1>5, <2>1, <2>2
<1>12. ASSUME NEW p \in Proposal, PublishProposal(p)
       PROVE  AnswersTrue'
  <2>1. Emit([proposal |-> p]) /\ UNCHANGED <<stdin, goal, work>>
    BY <1>12 DEF PublishProposal
  <2>2. [proposal |-> p] \in Frames /\ [proposal |-> p] \notin Replied
    BY DEF Frames, Replied
  <2> QED
    BY <1>5, <2>1, <2>2
<1> QED
  BY <1>6, <1>7, <1>8, <1>9, <1>10, <1>11, <1>12 DEF Sidecar

-----------------------------------------------------------------------------
(* The theorems. *)

\* At the start nothing was asked and nothing is under way.
LEMMA InitInvariant == Init => IInv
<1> SUFFICES ASSUME Init
             PROVE  IInv
  OBVIOUS
<1>1. /\ Len(requests) = 0 /\ 1 .. Len(requests) = {}
      /\ Elements(stdin) = {} /\ Elements(stdout) = {}
      /\ DistinctIn(stdin, Nat) /\ DistinctIn(stdout, ProposalLines)
  BY DEF Init, Elements, DistinctIn
<1>2. TypeOK
  <2>1. /\ requests \in Seq(Request) /\ stdin \in Seq(1 .. Len(requests))
        /\ stdout \in Seq(Frames) /\ arrived \in Seq(Proposal) /\ handled \in Seq(Proposal)
    BY DEF Init
  <2>2. answers \in [1 .. Len(requests) -> Answer \cup {"none"}]
    BY <1>1 DEF Init
  <2>3. waitsFor \in [Caller -> 0 .. Len(requests)]
    BY <1>1 DEF Init
  <2>4. pending = {n \in 1 .. Len(requests) : answers[n] = "none"}
    BY <1>1 DEF Init
  <2>5. babble \in 0 .. MaxBabble /\ work \in 0 .. Len(requests)
    BY <1>1, ConstantsAssumption DEF Init
  <2> QED
    BY <2>1, <2>2, <2>3, <2>4, <2>5 DEF Init, TypeOK, Stages
<1>3. OneHandled /\ OnePlace /\ Subscribed /\ OneAwaited
  BY <1>1, ConstantsAssumption
  DEF Init, OneHandled, OnePlace, Subscribed, OneAwaited, Handled
<1>4. DispatchOnce /\ Concluded /\ AnswersTrue
  BY <1>1 DEF Init, DispatchOnce, Concluded, AnswersTrue
<1>5. Accounted
  BY <1>1 DEF Init, Accounted
<1>6. ProposalsAccounted
  <2>1. Queue = <<>> /\ DOMAIN Queue = {} /\ Kept = {}
    BY DEF Init, Queue, Kept
  <2>2. InOrder([i \in {} |-> i])
    BY <2>1 DEF InOrder
  <2>3. [i \in {} |-> i] \in [{} -> {}]
    OBVIOUS
  <2> QED
    BY <2>1, <2>2, <2>3 DEF ProposalsAccounted
<1> QED
  BY <1>2, <1>3, <1>4, <1>5, <1>6 DEF IInv

\* Every step keeps the invariant.
LEMMA InvariantStep == IInv /\ [Next]_vars => IInv'
<1> SUFFICES ASSUME IInv, [Next]_vars
             PROVE  IInv'
  OBVIOUS
<1>1. /\ TypeOK /\ OneHandled /\ OnePlace /\ Subscribed /\ OneAwaited
      /\ DispatchOnce /\ Concluded /\ AnswersTrue /\ Accounted /\ ProposalsAccounted
  BY DEF IInv
<1>2. TypeOK' /\ OneHandled' /\ OnePlace' /\ Subscribed' /\ OneAwaited'
  BY <1>1, TypeStep, OneHandledStep, OnePlaceStep, SubscribedStep, OneAwaitedStep
<1>3. DispatchOnce' /\ Concluded'
  BY <1>1, DispatchOnceStep, ConcludedStep
<1>4. AnswersTrue'
  BY <1>1, CommandKeepsTruth, SidecarKeepsTruth
<1>5. Accounted' /\ ProposalsAccounted'
  BY <1>1, AccountStep
<1> QED
  BY <1>2, <1>3, <1>4, <1>5 DEF IInv

\* The inductive invariant holds in every reachable state.
THEOREM InductiveInvariant == Spec => []IInv
<1> QED
  BY InitInvariant, InvariantStep, PTL DEF Spec

\* The variables have their types: in particular a request is pending exactly
\* while its promise is unsettled, and a live child means a live channel
\* (sidecar.ts:96-223).
THEOREM TypeCorrect == Spec => []TypeOK
<1>1. IInv => TypeOK
  BY DEF IInv
<1> QED
  BY <1>1, InductiveInvariant, PTL

\* What is recorded of a proposal is true of the controller: nothing was sent
\* for a blocked one, a refused one was not carried out, a completed one was
\* (index.ts:436-458).
THEOREM OutcomesAreTrue == Spec => []OutcomeTrue
<1>1. IInv => OutcomeTrue
  <2> SUFFICES ASSUME IInv, NEW p \in Proposal
               PROVE  /\ outcome[p] = "blocked" => goal[p] = "none"
                      /\ outcome[p] = "refused" => goal[p] \in {"none", "refused"}
                      /\ outcome[p] = "completed" => goal[p] = "done"
    BY DEF OutcomeTrue
  <2>1. Concluded /\ AnswersTrue
    BY DEF IInv
  <2>2. CASE outcome[p] = "blocked"
    BY <2>1, <2>2 DEF Concluded, AnswersTrue
  <2>3. CASE outcome[p] \in {"refused", "completed"}
    <3>1. PICK n \in 1 .. Len(requests) : IsDispatch(n, p) /\ answers[n] = outcome[p]
      BY <2>1, <2>3 DEF Concluded
    <3>2. Truth(n, answers[n])
      BY <2>1, <2>3, <3>1 DEF AnswersTrue
    <3>3. requests[n].op = "dispatch" /\ requests[n].of = p
      BY <3>1 DEF IsDispatch
    <3> QED
      BY <2>3, <3>1, <3>2, <3>3 DEF Truth
  <2> QED
    BY <2>2, <2>3
<1> QED
  BY <1>1, InductiveInvariant, PTL

\* A pending dispatch shares the serial sidecar with no request but the
\* shutdown (sidecar.ts:165-194, ros2.ts:245-282).
THEOREM DispatchIsAlone == Spec => []DispatchAlone
<1>1. IInv => DispatchAlone
  <2> SUFFICES ASSUME IInv, NEW m \in pending, NEW n \in pending,
                      m # n, requests[m].op = "dispatch"
               PROVE  requests[n].op = "shutdown"
    BY DEF DispatchAlone
  <2>1. OneHandled /\ Subscribed /\ OneAwaited /\ DispatchOnce
    BY DEF IInv
  <2>2. m \in 1 .. Len(requests) /\ n \in 1 .. Len(requests)
    BY DEF IInv, TypeOK
  <2>3. requests[m].of \in Proposal /\ handling[requests[m].of] \in Handled
    BY <2>1, <2>2 DEF DispatchOnce, OneAwaited
  <2>4. requests[n].of \in Caller
    <3>1. requests[n] \in Request
      BY <2>2, ElementOfSeq DEF IInv, TypeOK
    <3> QED
      BY <3>1 DEF Request
  <2>5. CASE requests[n].of = Main
    BY <2>1, <2>3, <2>5 DEF OneAwaited, Subscribed, Handled
  <2>6. CASE requests[n].of \in Proposal
    <3>1. requests[n].of = requests[m].of
      BY <2>1, <2>3, <2>6 DEF OneAwaited, OneHandled
    <3> QED
      BY <2>1, <3>1 DEF OneAwaited
  <2> QED
    BY <2>4, <2>5, <2>6, Names
<1> QED
  BY <1>1, InductiveInvariant, PTL

\* Each proposal given to the processor is taken up once and in the order of
\* arrival, waits in the slot, or was turned away (ros2.ts:245-282).
THEOREM ProposalsAreAccounted == Spec => []ProposalsAccounted
<1>1. IInv => ProposalsAccounted
  BY DEF IInv
<1> QED
  BY <1>1, InductiveInvariant, PTL
=============================================================================
