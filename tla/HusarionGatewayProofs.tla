------------------------- MODULE HusarionGatewayProofs -------------------------
(***************************************************************************)
(* Proofs about HusarionGateway: whatever is lost, late or refused, what   *)
(* the gateway answers of the signal is true, for any calls and any        *)
(* capacity.                                                               *)
(*                                                                         *)
(* The steps are first sorted into kinds (Kind), each of which says what a *)
(* step changes and leaves alone; the conjuncts of the inductive invariant *)
(* are then kept kind by kind, in a lemma each.                            *)
(***************************************************************************)
EXTENDS HusarionGateway, SequenceTheorems, FiniteSetTheorems, TLAPS

-----------------------------------------------------------------------------
(* The inductive invariant. *)

\* What is written in a pipe.
Elements(s) == {s[i] : i \in 1 .. Len(s)}

\* The members of T in s are all different.
DistinctIn(s, T) == \A i, j \in 1 .. Len(s) : s[i] = s[j] /\ s[i] \in T => i = j

\* The stages of a call before its publication is asked for.
Before == {"idle", "refused", "reading", "starting", "started", "waiting", "unready",
           "ready", "allowed", "rechecking"}

\* The request a call waits for.
Awaits(c, op) ==
  \/ stage[c] = "starting" /\ op = "ping"
  \/ stage[c] = "waiting" /\ op = "wait"
  \/ stage[c] = "publishing" /\ op = "publish"

\* The pending requests are those that are awaited, of a channel that is up.
Awaited ==
  /\ IsFiniteSet(pending)
  /\ \A c \in Call, op \in Op : [call |-> c, op |-> op] \in pending <=> Awaits(c, op)
  /\ channel # "up" => pending = {}
  /\ \A c \in Call : stage[c] \in {"allowed", "rechecking"} => channel # "none"

Publication(c) == [call |-> c, op |-> "publish"]
Publications == {Publication(c) : c \in Call}
Queued(c) == Publication(c) \in Elements(inbox)

\* A call that was not dispatched, or whose answer denies a signal: nothing of
\* it was published, nor is it on its way.
Unsent(c) == stage[c] \in Before \/ (stage[c] = "answered" /\ ~answer[c].signal)
Silent == \A c \in Call : Unsent(c) => published[c] = 0 /\ ~Queued(c)

\* A publication is in the inbox, once, or was made, once.
Once ==
  /\ DistinctIn(inbox, Publications)
  /\ \A c \in Call : published[c] \in {0, 1} /\ (Queued(c) => published[c] = 0)

\* What was acknowledged was published.
Acknowledged ==
  \A c \in Call :
    /\ [call |-> c, op |-> "publish", ok |-> TRUE] \in Elements(outbox) => published[c] = 1
    /\ stage[c] \in {"acknowledged", "recording"} => published[c] = 1
    /\ stage[c] = "answered" /\ answer[c].decision = "allowed" /\ mode = "run" =>
          published[c] = 1

\* An accepted proposal id belongs to one call.
Accepted(c) == stage[c] \notin {"idle", "refused"}
OneCallPerId ==
  /\ \A c \in Call : Accepted(c) => id[c] \in seen
  /\ \A c, d \in Call : Accepted(c) /\ Accepted(d) /\ id[c] = id[d] => c = d

\* Shadow goes no further than an answer that denies a signal.
ShadowEnds ==
  mode = "shadow" => \A c \in Call :
    /\ stage[c] \in (Before \ {"allowed", "rechecking"}) \cup {"answered"}
    /\ stage[c] = "answered" => ~answer[c].signal

\* A call that was dispatched knows of an attempt since it began.
Noticed ==
  \A c \in Call :
    /\ stage[c] = "rechecking" => attemptsBefore[c] <= attempts
    /\ stage[c] \in {"publishing", "acknowledged", "unacknowledged", "recording"} =>
          attemptsBefore[c] < attempts

\* Both counters count calls.
Counts(S, n) == S \subseteq Call /\ Cardinality(S) = n
Counted ==
  /\ \E S \in SUBSET Call : Counts(S, attempts) /\ \A c \in S : stage[c] \notin Before
  /\ \E S \in SUBSET Call :
       /\ Counts(S, confirmed)
       /\ \A c \in S : published[c] = 1 /\ stage[c] \in {"recording", "answered"}

\* The answers, requests and replies are of their kinds.
Reply == [call: Call, op: Op, ok: BOOLEAN]
Shaped ==
  /\ answer \in [Call -> Answer \cup {None}]
  /\ \A c \in Call : answer[c] # None <=> stage[c] = "answered"
  /\ outbox \in Seq(Reply)

IInv ==
  /\ TypeOK /\ Shaped /\ Awaited /\ Silent /\ Once /\ Acknowledged
  /\ OneCallPerId /\ ShadowEnds /\ Noticed /\ Counted

-----------------------------------------------------------------------------
(* Pipes. *)

\* A line is written at the end of a pipe.
LEMMA Written ==
    ASSUME NEW S, NEW s \in Seq(S), NEW e \in S
    PROVE  /\ Append(s, e) \in Seq(S)
           /\ Len(Append(s, e)) = Len(s) + 1
           /\ \A i \in 1 .. Len(s) : Append(s, e)[i] = s[i]
           /\ Append(s, e)[Len(s) + 1] = e
           /\ Elements(Append(s, e)) = Elements(s) \cup {e}
<1>1. /\ Append(s, e) \in Seq(S)
      /\ Len(Append(s, e)) = Len(s) + 1
      /\ \A i \in 1 .. Len(s) : Append(s, e)[i] = s[i]
      /\ Append(s, e)[Len(s) + 1] = e
  BY AppendProperties
<1>2. Len(s) \in Nat
  BY LenProperties
<1>3. 1 .. (Len(s) + 1) = (1 .. Len(s)) \cup {Len(s) + 1}
  BY <1>2
<1>4. Elements(Append(s, e)) = Elements(s) \cup {e}
  BY <1>1, <1>3 DEF Elements
<1> QED
  BY <1>1, <1>4

\* What was written is as unique as it is new.
LEMMA WrittenDistinct ==
    ASSUME NEW S, NEW s \in Seq(S), NEW e \in S, NEW T,
           DistinctIn(s, T), e \in T => e \notin Elements(s)
    PROVE  DistinctIn(Append(s, e), T)
<1>1. /\ Len(Append(s, e)) = Len(s) + 1
      /\ \A i \in 1 .. Len(s) : Append(s, e)[i] = s[i]
      /\ Append(s, e)[Len(s) + 1] = e
  BY Written
<1>2. Len(s) \in Nat
  BY LenProperties
<1>3. \A i \in 1 .. (Len(s) + 1) : i \in 1 .. Len(s) \/ i = Len(s) + 1
  BY <1>2
<1>4. \A i \in 1 .. Len(s) : s[i] \in Elements(s)
  BY DEF Elements
<1> SUFFICES ASSUME NEW i \in 1 .. (Len(s) + 1), NEW j \in 1 .. (Len(s) + 1),
                    Append(s, e)[i] = Append(s, e)[j], Append(s, e)[i] \in T
             PROVE  i = j
  BY <1>1 DEF DistinctIn
<1>5. CASE i \in 1 .. Len(s) /\ j \in 1 .. Len(s)
  BY <1>1, <1>5 DEF DistinctIn
<1>6. CASE i = Len(s) + 1 /\ j \in 1 .. Len(s)
  BY <1>1, <1>4, <1>6
<1>7. CASE i \in 1 .. Len(s) /\ j = Len(s) + 1
  BY <1>1, <1>4, <1>7
<1> QED
  BY <1>3, <1>5, <1>6, <1>7

\* A line is read at the front of a pipe.
LEMMA Read ==
    ASSUME NEW S, NEW s \in Seq(S), s # <<>>
    PROVE  /\ Head(s) \in S /\ Tail(s) \in Seq(S)
           /\ Head(s) \in Elements(s) /\ Elements(Tail(s)) \subseteq Elements(s)
           /\ Elements(s) \subseteq Elements(Tail(s)) \cup {Head(s)}
           /\ \A T : DistinctIn(s, T) =>
                 /\ DistinctIn(Tail(s), T)
                 /\ Head(s) \in T => Head(s) \notin Elements(Tail(s))
<1>1. /\ Head(s) \in S /\ Tail(s) \in Seq(S)
      /\ Len(Tail(s)) = Len(s) - 1
      /\ \A i \in 1 .. Len(Tail(s)) : Tail(s)[i] = s[i + 1]
  BY HeadTailProperties
<1>2. Len(s) \in Nat \ {0} /\ 1 \in 1 .. Len(s)
  BY EmptySeq
<1>3. Head(s) = s[1]
  OBVIOUS
<1>4. \A i \in 1 .. Len(Tail(s)) : i + 1 \in 1 .. Len(s) /\ i \in Int /\ i + 1 # 1
  BY <1>1, <1>2
<1>5. \A i \in 1 .. Len(s) : i = 1 \/ (i - 1 \in 1 .. Len(Tail(s)) /\ (i - 1) + 1 = i)
  BY <1>1, <1>2
<1>6. Head(s) \in Elements(s) /\ Elements(Tail(s)) \subseteq Elements(s)
  BY <1>1, <1>2, <1>3, <1>4 DEF Elements
<1>7. Elements(s) \subseteq Elements(Tail(s)) \cup {Head(s)}
  <2>1. ASSUME NEW i \in 1 .. Len(s), i # 1
        PROVE  i - 1 \in 1 .. Len(Tail(s)) /\ s[i] = Tail(s)[i - 1]
    BY <1>1, <1>5, <2>1
  <2>2. \A i \in 1 .. Len(s) : s[i] = Head(s) \/ s[i] \in Elements(Tail(s))
    BY <1>3, <2>1 DEF Elements
  <2> QED
    BY <2>2 DEF Elements
<1>8. ASSUME NEW T, DistinctIn(s, T)
      PROVE  /\ DistinctIn(Tail(s), T)
             /\ Head(s) \in T => Head(s) \notin Elements(Tail(s))
  <2>1. ASSUME NEW i \in 1 .. Len(Tail(s)), NEW j \in 1 .. Len(Tail(s)),
               Tail(s)[i] = Tail(s)[j], Tail(s)[i] \in T
        PROVE  i = j
    <3>1. i + 1 = j + 1
      BY <1>1, <1>4, <1>8, <2>1 DEF DistinctIn
    <3> QED
      BY <1>4, <3>1
  <2>2. ASSUME Head(s) \in T, NEW i \in 1 .. Len(Tail(s)), Tail(s)[i] = Head(s)
        PROVE  FALSE
    BY <1>1, <1>2, <1>3, <1>4, <1>8, <2>2 DEF DistinctIn
  <2> QED
    BY <2>1, <2>2 DEF DistinctIn, Elements
<1> QED
  BY <1>1, <1>6, <1>7, <1>8

-----------------------------------------------------------------------------
(* What the steps do. *)

\* The other calls, the channel and the child stay as they are.
Alone(c) ==
  /\ \A d \in Call : d # c => stage'[d] = stage[d] /\ answer'[d] = answer[d]
                              /\ attemptsBefore'[d] = attemptsBefore[d] /\ id'[d] = id[d]
  /\ UNCHANGED <<mode, transport, process>>
Turns(c, from, to) == stage[c] \in from /\ stage'[c] = to

\* A proposal is taken in, or its id was seen before.
Begins(c) ==
  /\ Alone(c) /\ UNCHANGED <<answer, attemptsBefore, attempts, confirmed>>
  /\ \/ Turns(c, {"idle"}, "refused") /\ UNCHANGED seen
     \/ Turns(c, {"idle"}, "reading") /\ id'[c] \notin seen /\ seen' = seen \cup {id'[c]}

\* A call ends without an answer, is allowed to go on, or reads the counter.
Continues(c) ==
  /\ Alone(c) /\ UNCHANGED <<id, seen, answer, attempts, confirmed>>
  /\ \/ Turns(c, {"reading", "ready"}, "refused") /\ UNCHANGED attemptsBefore
     \/ /\ Turns(c, {"ready"}, "allowed") /\ UNCHANGED attemptsBefore
        /\ channel = "up" /\ mode = "run"
     \/ Turns(c, {"allowed"}, "rechecking") /\ attemptsBefore'[c] = attempts

\* A call is answered.
Denied(c) ==
  /\ Turns(c, {"unready", "ready"}, "answered")
  /\ ~answer'[c].signal
  /\ answer'[c].decision = "allowed" => mode = "shadow"
Failed(c) ==
  /\ Turns(c, {"rechecking", "unacknowledged", "recording"}, "answered")
  /\ answer'[c].decision = "failed" /\ answer'[c].signal = (attempts > attemptsBefore[c])
Done(c) ==
  /\ Turns(c, {"recording"}, "answered")
  /\ answer'[c].decision = "allowed" /\ answer'[c].signal
Answered(c) ==
  /\ Alone(c) /\ UNCHANGED <<id, seen, attemptsBefore, attempts, confirmed>>
  /\ Denied(c) \/ Failed(c) \/ Done(c)

\* The acknowledgement is counted.
Confirms(c) ==
  /\ Alone(c) /\ UNCHANGED <<id, seen, answer, attemptsBefore, attempts>>
  /\ Turns(c, {"acknowledged"}, "recording")
  /\ confirmed' = confirmed + 1

\* A request of a preparation (to publish: no) or of an execution.
Tries(c, publishes) ==
  /\ \A d \in Call : d # c => stage'[d] = stage[d]
  /\ UNCHANGED <<mode, id, attemptsBefore, seen, confirmed, answer, odometry, outbox, mux,
                 published>>
  /\ IF publishes THEN stage[c] = "rechecking" /\ attempts' = attempts + 1
     ELSE stage[c] \in {"reading", "started"} /\ attempts' = attempts

\* It is refused.
Rejects(c, publishes) ==
  /\ Tries(c, publishes)
  /\ stage'[c] = IF publishes THEN "unacknowledged" ELSE "unready"
  /\ UNCHANGED <<channel, pending, child, inbox>>

\* It is written; before it the child is started.
Writes(c, op) ==
  /\ Tries(c, op = "publish")
  /\ stage'[c] = CASE op = "ping" -> "starting" [] op = "wait" -> "waiting"
                   [] op = "publish" -> "publishing"
  /\ op = "ping" => channel = "none"
  /\ op # "ping" => channel = "up" /\ Cardinality(pending) < Capacity
  /\ channel' = "up" /\ child' \in {"running", child}
  /\ pending' = pending \cup {[call |-> c, op |-> op]}
  /\ inbox' = Append(inbox, [call |-> c, op |-> op])

\* Every pending request is rejected.
Lost(c) == CASE stage[c] \in {"starting", "waiting"} -> "unready"
             [] stage[c] = "publishing" -> "unacknowledged"
             [] OTHER -> stage[c]
Collapses ==
  /\ channel' = "failed" /\ pending' = {}
  /\ stage' = [c \in Call |-> Lost(c)]
  /\ UNCHANGED <<gateway, answer, odometry, process>>

\* A reply settles the request of c.
Settles(c, op, ok) ==
  /\ channel = "up" /\ [call |-> c, op |-> op] \in pending
  /\ outbox # <<>> /\ Head(outbox) = [call |-> c, op |-> op, ok |-> ok]
  /\ outbox' = Tail(outbox)
  /\ pending' = pending \ {[call |-> c, op |-> op]}
  /\ \A d \in Call : d # c => stage'[d] = stage[d]
  /\ stage'[c] = CASE op = "ping" -> (IF ok THEN "started" ELSE "unready")
                   [] op = "wait" -> (IF ok THEN "ready" ELSE "unready")
                   [] op = "publish" -> (IF ok THEN "acknowledged" ELSE "unacknowledged")
  /\ UNCHANGED <<gateway, answer, channel, odometry, child, inbox, mux, published>>

\* The child serves the request of c.
Serves(c, op, ok) ==
  /\ inbox # <<>> /\ Head(inbox) = [call |-> c, op |-> op] /\ inbox' = Tail(inbox)
  /\ published' = IF op = "publish" /\ ok THEN [published EXCEPT ![c] = @ + 1] ELSE published
  /\ outbox' = IF channel = "up"
               THEN Append(outbox, [call |-> c, op |-> op, ok |-> ok]) ELSE <<>>
  /\ UNCHANGED <<gateway, stage, answer, transport, child, mux>>

\* Odometry, the mux, the end of the child.
Around ==
  /\ odometry' \in BOOLEAN /\ mux' \in BOOLEAN
  /\ child' \in {child, "dead"} /\ inbox' \in {inbox, <<>>}
  /\ UNCHANGED <<gateway, stage, answer, channel, pending, outbox, published>>

Kind ==
  \/ \E c \in Call : Begins(c) \/ Continues(c) \/ Answered(c) \/ Confirms(c)
  \/ \E c \in Call : Rejects(c, TRUE) \/ Rejects(c, FALSE)
  \/ \E c \in Call, op \in Op : Writes(c, op)
  \/ Collapses
  \/ \E c \in Call, op \in Op, ok \in BOOLEAN : Settles(c, op, ok) \/ Serves(c, op, ok)
  \/ Around

\* What a call that waits for nothing does.
LEMMA CallKinds ==
    ASSUME TypeOK, Shaped, NEW c \in Call,
           \/ \E p \in Id : Begin(c, p)
           \/ ReadFails(c) \/ PathUnavailable(c) \/ Block(c) \/ Allow(c) \/ EvidenceFails(c)
           \/ Execute(c) \/ RecheckRefuses(c) \/ Confirm(c) \/ Record(c) \/ OutcomeLost(c)
    PROVE  Begins(c) \/ Continues(c) \/ Answered(c) \/ Confirms(c)
<1> USE DEF At, Goes, gateway, Turns
<1>1. ASSUME NEW s, Goes(c, s)
      PROVE  stage'[c] = s /\ \A d \in Call : d # c => stage'[d] = stage[d]
  BY <1>1 DEF TypeOK
<1>2. ASSUME NEW a, answer' = [answer EXCEPT ![c] = a]
      PROVE  answer'[c] = a /\ \A d \in Call : d # c => answer'[d] = answer[d]
  BY <1>2 DEF Shaped
<1>3. ASSUME NEW p \in Id, Begin(c, p) PROVE Begins(c)
  <2>1. id'[c] = p /\ \A d \in Call : d # c => id'[d] = id[d]
    BY <1>3 DEF Begin, TypeOK
  <2> QED
    BY <1>1, <1>3, <2>1 DEF Begin, Begins, Alone, Duplicate
<1>4. CASE ReadFails(c) \/ EvidenceFails(c)
  BY <1>1, <1>4 DEF ReadFails, EvidenceFails, Continues, Alone
<1>5. CASE PathUnavailable(c) \/ Block(c)
  BY <1>1, <1>2, <1>5 DEF PathUnavailable, Block, Answers, Answered, Denied, Alone
<1>6. CASE Allow(c) /\ mode = "shadow"
  BY <1>1, <1>2, <1>6 DEF Allow, Answers, Answered, Denied, Alone
<1>7. CASE Allow(c) /\ mode # "shadow"
  BY <1>1, <1>7 DEF Allow, Continues, Alone, TypeOK
<1>8. CASE Execute(c)
  <2>1. /\ attemptsBefore'[c] = attempts
        /\ \A d \in Call : d # c => attemptsBefore'[d] = attemptsBefore[d]
    BY <1>8 DEF Execute, TypeOK
  <2> QED
    BY <1>1, <1>8, <2>1 DEF Execute, Continues, Alone
<1>9. CASE RecheckRefuses(c) \/ OutcomeLost(c)
  <2>1. /\ stage[c] \in {"rechecking", "unacknowledged", "recording"}
        /\ Fail(c)
    BY <1>9 DEF RecheckRefuses, OutcomeLost
  <2>2. /\ stage'[c] = "answered" /\ \A d \in Call : d # c => stage'[d] = stage[d]
        /\ answer'[c] = [decision |-> "failed", signal |-> attempts > attemptsBefore[c]]
        /\ \A d \in Call : d # c => answer'[d] = answer[d]
        /\ UNCHANGED <<gateway, transport, process>>
    BY <1>1, <1>2, <2>1 DEF Fail, Answers, SignalPossible
  <2>3. answer'[c].decision = "failed" /\ answer'[c].signal = (attempts > attemptsBefore[c])
    BY <2>2
  <2> QED
    BY <2>1, <2>2, <2>3 DEF Answered, Failed, Alone
<1>10. CASE Confirm(c)
  BY <1>1, <1>10 DEF Confirm, Confirms, Alone
<1>11. CASE Record(c)
  BY <1>1, <1>2, <1>11 DEF Record, Answers, Answered, Done, Alone
<1> QED
  BY <1>3, <1>4, <1>5, <1>6, <1>7, <1>8, <1>9, <1>10, <1>11

\* What a call does to send a request.
LEMMA SendKinds ==
    ASSUME TypeOK, Awaited, NEW c \in Call, AskPath(c) \/ Dispatch(c)
    PROVE  Rejects(c, TRUE) \/ Rejects(c, FALSE) \/ \E op \in Op : Writes(c, op)
<1> USE DEF At, Goes, gateway, transport, Op
<1>1. ASSUME NEW s, Goes(c, s)
      PROVE  stage'[c] = s /\ \A d \in Call : d # c => stage'[d] = stage[d]
  BY <1>1 DEF TypeOK
<1>2. CASE AskPath(c)
  BY <1>1, <1>2 DEF AskPath, Send, Rejected, Rejects, Writes, Tries
<1>3. CASE Dispatch(c)
  <2>1. channel # "none"
    BY <1>3 DEF Dispatch, Awaited
  <2> QED
    BY <1>1, <1>3, <2>1 DEF Dispatch, Send, Rejected, Rejects, Writes, Tries
<1> QED
  BY <1>2, <1>3

\* What the channel and the child do.
LEMMA ChannelKinds ==
    ASSUME TypeOK, Shaped, Awaited,
           ChannelEnds \/ Receive \/ Observe \/ Serve \/ Die \/ MuxChanges
    PROVE  \/ Collapses \/ Around
           \/ \E c \in Call, op \in Op, ok \in BOOLEAN : Settles(c, op, ok) \/ Serves(c, op, ok)
<1>1. CASE ChannelEnds
  <2>1. ASSUME NEW c \in Call
        PROVE  (IF \E r \in pending : r.call = c
                THEN Rejected((CHOOSE r \in pending : r.call = c).op)
                ELSE stage[c]) = Lost(c)
    <3>1. CASE \E r \in pending : r.call = c
      <4>1. PICK r \in pending : r = CHOOSE s \in pending : s.call = c
        BY <3>1
      <4>2. r.call = c
        BY <3>1, <4>1
      <4>3. r = [call |-> c, op |-> r.op] /\ r.op \in Op
        BY <4>2 DEF TypeOK, Request
      <4>4. Awaits(c, r.op)
        BY <4>3 DEF Awaited
      <4> QED
        BY <3>1, <4>1, <4>4 DEF Awaits, Rejected, Lost
    <3>2. CASE ~\E r \in pending : r.call = c
      <4>1. \A op \in Op : [call |-> c, op |-> op] \notin pending
        BY <3>2
      <4>2. \A op \in Op : ~Awaits(c, op)
        BY <4>1 DEF Awaited
      <4>3. stage[c] \notin {"starting", "waiting", "publishing"}
        BY <4>2 DEF Awaits, Op
      <4> QED
        BY <3>2, <4>3 DEF Lost
    <3> QED
      BY <3>1, <3>2
  <2>2. stage' = [c \in Call |-> Lost(c)]
    BY <1>1, <2>1 DEF ChannelEnds, ChannelFails
  <2> QED
    BY <1>1, <2>2 DEF ChannelEnds, ChannelFails, Collapses
<1>2. CASE Receive
  <2>1. outbox # <<>> /\ Head(outbox) \in Reply
    BY <1>2 DEF Receive, Shaped
  <2>2. PICK c \in Call, op \in Op, ok \in BOOLEAN :
           Head(outbox) = [call |-> c, op |-> op, ok |-> ok]
    BY <2>1 DEF Reply
  <2> DEFINE reply == Head(outbox)
  <2>6. reply.call = c /\ reply.op = op /\ reply.ok = ok
    BY <2>2
  <2>3. /\ channel = "up" /\ [call |-> c, op |-> op] \in pending
        /\ pending' = pending \ {[call |-> c, op |-> op]}
        /\ stage' = [stage EXCEPT ![c] = Settled(op, ok)]
    BY <1>2, <2>6 DEF Receive, Goes
  <2>4. stage'[c] = Settled(op, ok) /\ \A d \in Call : d # c => stage'[d] = stage[d]
    BY <2>3 DEF TypeOK
  <2>5. Settles(c, op, ok)
    BY <1>2, <2>1, <2>2, <2>3, <2>4 DEF Receive, Settles, Settled
  <2> QED
    BY <2>5
<1>3. CASE Serve
  <2>1. inbox # <<>> /\ Head(inbox) \in Request
    BY <1>3 DEF Serve, TypeOK
  <2>2. PICK c \in Call, op \in Op : Head(inbox) = [call |-> c, op |-> op]
    BY <2>1 DEF Request
  <2> DEFINE r == Head(inbox)
             yes == r.op = "ping" \/ mux
  <2>3. /\ published' = IF r.op = "publish" /\ yes
                         THEN [published EXCEPT ![r.call] = @ + 1] ELSE published
        /\ outbox' = IF channel = "up"
                      THEN Append(outbox, [call |-> r.call, op |-> r.op, ok |-> yes]) ELSE <<>>
        /\ inbox' = Tail(inbox)
        /\ UNCHANGED <<gateway, stage, answer, transport, child, mux>>
    BY <1>3 DEF Serve
  <2>4. r.call = c /\ r.op = op
    BY <2>2
  <2>5. yes \in BOOLEAN
    OBVIOUS
  <2> HIDE DEF yes
  <2>6. Serves(c, op, yes)
    BY <2>1, <2>2, <2>3, <2>4 DEF Serves
  <2> QED
    BY <2>5, <2>6
<1>4. CASE Observe
  BY <1>4 DEF Observe, Around, TypeOK, process
<1>5. CASE Die
  BY <1>5 DEF Die, Around, TypeOK, transport
<1>6. CASE MuxChanges
  BY <1>6 DEF MuxChanges, Around, TypeOK, transport
<1> QED
  BY <1>1, <1>2, <1>3, <1>4, <1>5, <1>6

\* Every step is of one of these kinds.
LEMMA Kinds == TypeOK /\ Shaped /\ Awaited /\ Next => Kind
  BY CallKinds, SendKinds, ChannelKinds DEF Next, Prepare, Run, Kind

-----------------------------------------------------------------------------
(* Requests, replies and publications. *)

\* What becomes of the publications in a step.
Published ==
  /\ inbox' \in Seq(Request) /\ outbox' \in Seq(Reply)
  /\ DistinctIn(inbox', Publications)
  /\ published' \in [Call -> Nat]
  /\ \A c \in Call :
       /\ \/ published'[c] = published[c]
          \/ published'[c] = published[c] + 1 /\ Queued(c) /\ ~Queued(c)'
       /\ Queued(c)' => Queued(c) \/ (stage[c] = "rechecking" /\ stage'[c] = "publishing")
       /\ [call |-> c, op |-> "publish", ok |-> TRUE] \in Elements(outbox') =>
            \/ [call |-> c, op |-> "publish", ok |-> TRUE] \in Elements(outbox)
            \/ published'[c] = published[c] + 1

\* Nothing is in an empty pipe.
LEMMA EmptyPipe == \A T : DistinctIn(<<>>, T) /\ Elements(<<>>) = {}
  BY DEF DistinctIn, Elements

\* A publication is written once, by a dispatch, and made once, by the child.
LEMMA PublishedStep ==
    ASSUME TypeOK, Shaped, Silent, Once, Kind PROVE Published
<1>1. /\ inbox \in Seq(Request) /\ outbox \in Seq(Reply) /\ DistinctIn(inbox, Publications)
      /\ published \in [Call -> Nat]
  BY DEF TypeOK, Shaped, Once
<1>2. ASSUME inbox' = inbox \/ inbox' = <<>>, outbox' = outbox, published' = published
      PROVE  Published
  <2>1. inbox' \in Seq(Request) /\ DistinctIn(inbox', Publications)
    <3>1. CASE inbox' = inbox
      BY <1>1, <3>1
    <3>2. CASE inbox' = <<>>
      BY <3>2, EmptyPipe
    <3> QED
      BY <1>2, <3>1, <3>2
  <2>2. Elements(inbox') \subseteq Elements(inbox)
    BY <1>2, EmptyPipe
  <2> QED
    BY <1>1, <1>2, <2>1, <2>2 DEF Published, Queued
<1>3. CASE \E c \in Call : \/ Begins(c) \/ Continues(c) \/ Answered(c) \/ Confirms(c)
                           \/ Rejects(c, TRUE) \/ Rejects(c, FALSE)
  BY <1>2, <1>3 DEF Begins, Continues, Answered, Confirms, Alone, Rejects, Tries, process
<1>4. CASE Collapses \/ Around
  BY <1>2, <1>4 DEF Collapses, Around, process
<1>5. ASSUME NEW c \in Call, NEW op \in Op, Writes(c, op) PROVE Published
  <2> DEFINE r == [call |-> c, op |-> op]
  <2>1. /\ inbox' = Append(inbox, r) /\ outbox' = outbox /\ published' = published
        /\ op = "publish" => stage[c] = "rechecking" /\ stage'[c] = "publishing"
    BY <1>5 DEF Writes, Tries
  <2>2. r \in Request /\ (r \in Publications => op = "publish")
    BY DEF Request, Publications, Publication
  <2>3. op = "publish" => ~Queued(c) /\ r = Publication(c)
    BY <2>1 DEF Silent, Unsent, Before, Publication
  <2>4. r \in Publications => r \notin Elements(inbox)
    BY <2>2, <2>3 DEF Queued
  <2> HIDE DEF r
  <2>5. /\ inbox' \in Seq(Request) /\ Elements(inbox') = Elements(inbox) \cup {r}
        /\ DistinctIn(inbox', Publications)
    BY <1>1, <2>1, <2>2, <2>4, Written, WrittenDistinct
  <2>6. ASSUME NEW d \in Call, Publication(d) = r PROVE d = c /\ op = "publish"
    BY <2>6 DEF r, Publication
  <2> QED
    BY <1>1, <2>1, <2>5, <2>6 DEF Published, Queued
<1>6. ASSUME NEW c \in Call, NEW op \in Op, NEW ok \in BOOLEAN, Settles(c, op, ok)
      PROVE  Published
  <2>1. /\ inbox' = inbox /\ published' = published
        /\ outbox # <<>> /\ outbox' = Tail(outbox)
    BY <1>6 DEF Settles
  <2>3. outbox \in Seq(Reply) /\ outbox # <<>>
    BY <1>1, <2>1
  <2>2. Tail(outbox) \in Seq(Reply) /\ Elements(Tail(outbox)) \subseteq Elements(outbox)
    BY <2>3, Read
  <2> QED
    BY <1>1, <2>1, <2>2 DEF Published, Queued, Elements
<1>7. ASSUME NEW c \in Call, NEW op \in Op, NEW ok \in BOOLEAN, Serves(c, op, ok)
      PROVE  Published
  <2> DEFINE r == [call |-> c, op |-> op]
             a == [call |-> c, op |-> op, ok |-> ok]
  <2>1. /\ inbox # <<>> /\ Head(inbox) = r /\ inbox' = Tail(inbox) /\ stage' = stage
        /\ published' = IF op = "publish" /\ ok THEN [published EXCEPT ![c] = @ + 1] ELSE published
        /\ outbox' = IF channel = "up" THEN Append(outbox, a) ELSE <<>>
    BY <1>7 DEF Serves
  <2>2. /\ inbox' \in Seq(Request) /\ Elements(inbox') \subseteq Elements(inbox)
        /\ r \in Elements(inbox) /\ DistinctIn(inbox', Publications)
        /\ r \in Publications => r \notin Elements(inbox')
    <3>1. inbox \in Seq(Request) /\ inbox # <<>> /\ DistinctIn(inbox, Publications)
      BY <1>1, <2>1
    <3>2. /\ Tail(inbox) \in Seq(Request) /\ Elements(Tail(inbox)) \subseteq Elements(inbox)
          /\ Head(inbox) \in Elements(inbox) /\ DistinctIn(Tail(inbox), Publications)
          /\ Head(inbox) \in Publications => Head(inbox) \notin Elements(Tail(inbox))
      BY <3>1, Read
    <3> QED
      BY <2>1, <3>2
  <2>3. a \in Reply
    BY DEF Reply
  <2>4. op = "publish" => r = Publication(c) /\ r \in Publications
    BY DEF Publication, Publications
  <2>5. \A d \in Call : [call |-> d, op |-> "publish", ok |-> TRUE] = a =>
           d = c /\ op = "publish" /\ ok
    OBVIOUS
  <2> HIDE DEF r, a
  <2>6. outbox' \in Seq(Reply) /\ Elements(outbox') \subseteq Elements(outbox) \cup {a}
    BY <1>1, <2>1, <2>3, Written, EmptyPipe
  <2>7. op = "publish" => Queued(c) /\ ~Queued(c)'
    BY <2>2, <2>4 DEF Queued
  <2>8. /\ published' \in [Call -> Nat]
        /\ \A d \in Call :
              \/ published'[d] = published[d]
              \/ published'[d] = published[d] + 1 /\ d = c /\ op = "publish"
        /\ op = "publish" /\ ok => published'[c] = published[c] + 1
    <3>1. CASE op = "publish" /\ ok
      <4>1. published' = [published EXCEPT ![c] = published[c] + 1]
        BY <2>1, <3>1
      <4>2. published[c] + 1 \in Nat
        BY <1>1
      <4> QED
        BY <1>1, <3>1, <4>1, <4>2
    <3>2. CASE ~(op = "publish" /\ ok)
      BY <1>1, <2>1, <3>2
    <3> QED
      BY <3>1, <3>2
  <2> QED
    BY <2>2, <2>5, <2>6, <2>7, <2>8 DEF Published, Queued
<1> QED
  BY <1>3, <1>4, <1>5, <1>6, <1>7 DEF Kind

-----------------------------------------------------------------------------
(* The stages. *)

\* A dispatched call stays one, and its answer does not deny the signal.
LEMMA UnsentBefore ==
    ASSUME TypeOK, Shaped, Awaited, Noticed, Kind, NEW d \in Call, Unsent(d)' PROVE Unsent(d)
<1> USE DEF Unsent, Before
<1>1. stage' # stage \/ answer' # answer \/ (stage' = stage /\ answer' = answer)
  OBVIOUS
<1>2. ASSUME NEW c \in Call,
             Begins(c) \/ Continues(c) \/ Answered(c) \/ Confirms(c)
      PROVE  Unsent(d)
  <2>1. d # c => stage'[d] = stage[d] /\ answer'[d] = answer[d]
    BY <1>2 DEF Begins, Continues, Answered, Confirms, Alone
  <2>2. CASE Failed(c) /\ d = c
    <3>1. /\ stage[c] \in {"rechecking", "unacknowledged", "recording"}
          /\ stage[c] \in {"unacknowledged", "recording"} => attemptsBefore[c] < attempts
      BY <2>2 DEF Failed, Turns, Noticed
    <3>2. attempts \in Nat /\ attemptsBefore[c] \in Nat
      BY DEF TypeOK
    <3>3. answer'[c].signal = (attempts > attemptsBefore[c]) /\ stage'[c] = "answered"
      BY <2>2 DEF Failed, Turns
    <3> QED
      BY <2>2, <3>1, <3>2, <3>3
  <2>3. CASE ~Failed(c) /\ d = c
    BY <1>2, <2>3 DEF Begins, Continues, Answered, Confirms, Turns, Denied, Done
  <2> QED
    BY <2>1, <2>2, <2>3
<1>3. ASSUME NEW c \in Call, Rejects(c, TRUE) \/ Rejects(c, FALSE) PROVE Unsent(d)
  BY <1>3 DEF Rejects, Tries
<1>4. ASSUME NEW c \in Call, NEW op \in Op, Writes(c, op) PROVE Unsent(d)
  BY <1>4 DEF Writes, Tries, Op
<1>5. CASE Collapses
  BY <1>5 DEF Collapses, Lost
<1>6. ASSUME NEW c \in Call, NEW op \in Op, NEW ok \in BOOLEAN,
             Settles(c, op, ok) \/ Serves(c, op, ok)
      PROVE  Unsent(d)
  <2>1. CASE Settles(c, op, ok)
    <3>1. answer' = answer /\ (d # c => stage'[d] = stage[d]) /\ Awaits(c, op)
      BY <2>1 DEF Settles, Awaited
    <3> QED
      BY <2>1, <3>1 DEF Settles, Awaits
  <2>2. CASE Serves(c, op, ok)
    BY <2>2 DEF Serves
  <2> QED
    BY <1>6, <2>1, <2>2
<1>7. CASE Around
  BY <1>7 DEF Around
<1> QED
  BY <1>2, <1>3, <1>4, <1>5, <1>6, <1>7 DEF Kind

\* How a call gets to the stages after its dispatch.
Onward(d) ==
  /\ stage'[d] = "acknowledged" =>
       \/ stage[d] = "acknowledged"
       \/ [call |-> d, op |-> "publish", ok |-> TRUE] \in Elements(outbox)
  /\ stage'[d] = "recording" => stage[d] \in {"acknowledged", "recording"}
  /\ stage[d] = "recording" => stage'[d] \in {"recording", "answered"}
  /\ stage[d] = "answered" => stage'[d] = "answered" /\ answer'[d] = answer[d]
  /\ stage'[d] = "answered" /\ answer'[d].decision = "allowed" /\ mode = "run" =>
       \/ stage[d] = "answered" /\ answer'[d] = answer[d]
       \/ stage[d] = "recording"
  /\ mode' = mode

\* Every step moves a call that way.
LEMMA OnwardStep ==
    ASSUME TypeOK, Shaped, Awaited, Kind, NEW d \in Call PROVE Onward(d)
<1> USE DEF Onward
<1>1. ASSUME NEW c \in Call,
             Begins(c) \/ Continues(c) \/ Answered(c) \/ Confirms(c)
      PROVE  Onward(d)
  <2>1. (d # c => stage'[d] = stage[d] /\ answer'[d] = answer[d]) /\ mode' = mode
    BY <1>1 DEF Begins, Continues, Answered, Confirms, Alone
  <2>2. CASE d # c
    BY <2>1, <2>2
  <2>3. CASE d = c
    BY <1>1, <2>1, <2>3 DEF Begins, Continues, Answered, Confirms, Turns, Denied, Failed, Done
  <2> QED
    BY <2>2, <2>3
<1>2. ASSUME NEW c \in Call, Rejects(c, TRUE) \/ Rejects(c, FALSE) PROVE Onward(d)
  BY <1>2 DEF Rejects, Tries
<1>3. ASSUME NEW c \in Call, NEW op \in Op, Writes(c, op) PROVE Onward(d)
  BY <1>3 DEF Writes, Tries, Op
<1>4. CASE Collapses
  BY <1>4 DEF Collapses, Lost, gateway
<1>5. ASSUME NEW c \in Call, NEW op \in Op, NEW ok \in BOOLEAN, Settles(c, op, ok)
      PROVE  Onward(d)
  <2>1. /\ answer' = answer /\ (d # c => stage'[d] = stage[d]) /\ Awaits(c, op) /\ mode' = mode
        /\ outbox # <<>> /\ Head(outbox) = [call |-> c, op |-> op, ok |-> ok]
    BY <1>5 DEF Settles, Awaited, gateway
  <2>2. [call |-> c, op |-> op, ok |-> ok] \in Elements(outbox)
    BY <2>1, Read DEF Shaped
  <2>3. CASE d = c /\ op = "publish"
    BY <1>5, <2>1, <2>2, <2>3 DEF Settles, Awaits
  <2>4. CASE d = c /\ op # "publish"
    BY <1>5, <2>1, <2>4 DEF Settles, Awaits, Op
  <2> QED
    BY <2>1, <2>3, <2>4
<1>6. CASE Around \/ \E c \in Call, op \in Op, ok \in BOOLEAN : Serves(c, op, ok)
  BY <1>6 DEF Around, Serves, gateway
<1> QED
  BY <1>1, <1>2, <1>3, <1>4, <1>5, <1>6 DEF Kind

\* What was published stays so, once.
LEMMA PublishedOnce ==
    ASSUME TypeOK, Shaped, Silent, Once, Kind, NEW c \in Call
    PROVE  /\ published'[c] \in {0, 1}
           /\ published[c] = 1 => published'[c] = 1
           /\ Queued(c)' => published'[c] = 0
<1>0. Published
  BY PublishedStep
<1>1. published[c] \in {0, 1} /\ (Queued(c) => published[c] = 0)
  BY DEF Once
<1>2. stage[c] = "rechecking" => published[c] = 0 /\ ~Queued(c)
  BY DEF Silent, Unsent, Before
<1>3. CASE published'[c] = published[c]
  BY <1>0, <1>1, <1>2, <1>3 DEF Published
<1>4. CASE published'[c] = published[c] + 1 /\ Queued(c) /\ ~Queued(c)'
  BY <1>1, <1>4
<1> QED
  BY <1>0, <1>3, <1>4 DEF Published

\* No signal is denied that was sent, none is sent twice, none confirmed that was not.
LEMMA SignalStep ==
    ASSUME TypeOK, Shaped, Awaited, Silent, Once, Acknowledged, Noticed, Kind
    PROVE  Silent' /\ Once' /\ Acknowledged'
<1>1. Published
  BY PublishedStep
<1>2. \A c \in Call : /\ published'[c] \in {0, 1}
                      /\ published[c] = 1 => published'[c] = 1
                      /\ Queued(c)' => published'[c] = 0
  BY PublishedOnce
<1>3. Once'
  BY <1>1, <1>2 DEF Once, Published
<1>4. ASSUME NEW c \in Call, Unsent(c)' PROVE published'[c] = 0 /\ ~Queued(c)'
  <2>1. published[c] = 0 /\ ~Queued(c)
    BY <1>4, UnsentBefore DEF Silent
  <2>2. stage'[c] # "publishing"
    BY <1>4 DEF Unsent, Before
  <2> QED
    BY <1>1, <2>1, <2>2 DEF Published
<1>5. Silent'
  BY <1>4 DEF Silent
<1>6. ASSUME NEW c \in Call
      PROVE  /\ [call |-> c, op |-> "publish", ok |-> TRUE] \in Elements(outbox') =>
                  published'[c] = 1
             /\ stage'[c] \in {"acknowledged", "recording"} => published'[c] = 1
             /\ stage'[c] = "answered" /\ answer'[c].decision = "allowed" /\ mode' = "run" =>
                  published'[c] = 1
  <2>1. Onward(c)
    BY OnwardStep
  <2>2. /\ [call |-> c, op |-> "publish", ok |-> TRUE] \in Elements(outbox) => published[c] = 1
        /\ stage[c] \in {"acknowledged", "recording"} => published[c] = 1
        /\ stage[c] = "answered" /\ answer[c].decision = "allowed" /\ mode = "run" =>
              published[c] = 1
    BY DEF Acknowledged
  <2>3. published'[c] = published[c] + 1 => published'[c] = 1
    BY <1>2 DEF Once
  <2>4. [call |-> c, op |-> "publish", ok |-> TRUE] \in Elements(outbox') =>
           published[c] = 1 \/ published'[c] = published[c] + 1
    BY <1>1, <2>2 DEF Published
  <2> QED
    BY <1>2, <2>1, <2>2, <2>3, <2>4 DEF Onward
<1>7. Acknowledged'
  BY <1>6 DEF Acknowledged, Elements
<1> QED
  BY <1>3, <1>5, <1>7

\* An id stays with the call that brought it.
LEMMA IdStep ==
    ASSUME TypeOK, Awaited, OneCallPerId, Kind PROVE OneCallPerId'
<1> USE DEF Accepted
<1>1. ASSUME id' = id, seen' = seen, \A d \in Call : Accepted(d)' => Accepted(d)
      PROVE  OneCallPerId'
  BY <1>1 DEF OneCallPerId
<1>2. ASSUME NEW c \in Call, Begins(c) PROVE OneCallPerId'
  <2>1. \A d \in Call : d # c => stage'[d] = stage[d] /\ id'[d] = id[d]
    BY <1>2 DEF Begins, Alone
  <2>2. CASE stage'[c] = "refused" /\ seen' = seen
    BY <2>1, <2>2 DEF OneCallPerId
  <2>3. CASE stage'[c] = "reading" /\ id'[c] \notin seen /\ seen' = seen \cup {id'[c]}
    BY <2>1, <2>3 DEF OneCallPerId
  <2> QED
    BY <1>2, <2>2, <2>3 DEF Begins, Turns
<1>3. ASSUME NEW c \in Call, Continues(c) \/ Answered(c) \/ Confirms(c) PROVE OneCallPerId'
  <2>1. /\ \A d \in Call : d # c => stage'[d] = stage[d]
        /\ id' = id /\ seen' = seen /\ Accepted(c)
    BY <1>3 DEF Continues, Answered, Confirms, Alone, Turns, Denied, Failed, Done
  <2> QED
    BY <1>1, <2>1
<1>4. ASSUME NEW c \in Call, Rejects(c, TRUE) \/ Rejects(c, FALSE) PROVE OneCallPerId'
  BY <1>1, <1>4 DEF Rejects, Tries
<1>5. ASSUME NEW c \in Call, NEW op \in Op, Writes(c, op) PROVE OneCallPerId'
  BY <1>1, <1>5 DEF Writes, Tries
<1>6. CASE Collapses
  BY <1>1, <1>6 DEF Collapses, Lost, gateway
<1>7. ASSUME NEW c \in Call, NEW op \in Op, NEW ok \in BOOLEAN, Settles(c, op, ok),
             Awaits(c, op)
      PROVE  OneCallPerId'
  <2>1. /\ \A d \in Call : d # c => stage'[d] = stage[d]
        /\ id' = id /\ seen' = seen /\ Accepted(c)
    BY <1>7 DEF Settles, gateway, Awaits
  <2> QED
    BY <1>1, <2>1
<1>8. CASE Around \/ \E c \in Call, op \in Op, ok \in BOOLEAN : Serves(c, op, ok)
  BY <1>1, <1>8 DEF Around, Serves, gateway
<1> QED
  BY <1>2, <1>3, <1>4, <1>5, <1>6, <1>7, <1>8 DEF Kind, Settles, Awaited

\* A call that was dispatched stays so.
LEMMA StaysDispatched ==
    ASSUME Awaited, Kind, NEW d \in Call, stage[d] \notin Before PROVE stage'[d] \notin Before
<1> USE DEF Before
<1>1. ASSUME NEW c \in Call,
             Begins(c) \/ Continues(c) \/ Answered(c) \/ Confirms(c)
      PROVE  stage'[d] \notin Before
  BY <1>1 DEF Begins, Continues, Answered, Confirms, Alone, Turns, Denied, Failed, Done
<1>2. ASSUME NEW c \in Call, Rejects(c, TRUE) \/ Rejects(c, FALSE) PROVE stage'[d] \notin Before
  BY <1>2 DEF Rejects, Tries
<1>3. ASSUME NEW c \in Call, NEW op \in Op, Writes(c, op) PROVE stage'[d] \notin Before
  BY <1>3 DEF Writes, Tries, Op
<1>4. CASE Collapses
  BY <1>4 DEF Collapses, Lost
<1>5. ASSUME NEW c \in Call, NEW op \in Op, NEW ok \in BOOLEAN, Settles(c, op, ok), Awaits(c, op)
      PROVE  stage'[d] \notin Before
  BY <1>5 DEF Settles, Awaits, Op
<1>6. CASE Around \/ \E c \in Call, op \in Op, ok \in BOOLEAN : Serves(c, op, ok)
  BY <1>6 DEF Around, Serves
<1> QED
  BY <1>1, <1>2, <1>3, <1>4, <1>5, <1>6 DEF Kind, Settles, Awaited

\* Shadow stays Shadow.
LEMMA ShadowStep ==
    ASSUME TypeOK, Shaped, Awaited, ShadowEnds, Kind PROVE ShadowEnds'
<1> SUFFICES ASSUME mode' = "shadow", NEW d \in Call
             PROVE  /\ stage'[d] \in (Before \ {"allowed", "rechecking"}) \cup {"answered"}
                    /\ stage'[d] = "answered" => ~answer'[d].signal
  BY DEF ShadowEnds, Before
<1> DEFINE Quiet == /\ stage'[d] \in (Before \ {"allowed", "rechecking"}) \cup {"answered"}
                    /\ stage'[d] = "answered" => ~answer'[d].signal
<1> USE DEF Before
<1>1. mode' = mode
  BY DEF Kind, Begins, Continues, Answered, Confirms, Alone, Rejects, Writes, Tries, Collapses,
         Settles, Serves, Around, gateway
<1>2. \A c \in Call : /\ stage[c] \in (Before \ {"allowed", "rechecking"}) \cup {"answered"}
                      /\ stage[c] = "answered" => ~answer[c].signal
  BY <1>1 DEF ShadowEnds
<1>3. ASSUME NEW c \in Call,
             Begins(c) \/ Continues(c) \/ Answered(c) \/ Confirms(c)
      PROVE  Quiet
  <2>1. CASE d # c
    BY <1>2, <1>3, <2>1 DEF Begins, Continues, Answered, Confirms, Alone
  <2>2. CASE d = c
    BY <1>1, <1>2, <1>3, <2>2 DEF Begins, Continues, Answered, Confirms, Turns, Denied, Failed,
                                  Done
  <2> QED
    BY <2>1, <2>2
<1>4. ASSUME NEW c \in Call, Rejects(c, TRUE) \/ Rejects(c, FALSE)
      PROVE  Quiet
  BY <1>2, <1>4 DEF Rejects, Tries
<1>5. ASSUME NEW c \in Call, NEW op \in Op, Writes(c, op)
      PROVE  Quiet
  BY <1>2, <1>5 DEF Writes, Tries, Op
<1>6. ASSUME Collapses PROVE Quiet
  BY <1>2, <1>6 DEF Collapses, Lost
<1>7. ASSUME NEW c \in Call, NEW op \in Op, NEW ok \in BOOLEAN, Settles(c, op, ok), Awaits(c, op)
      PROVE  Quiet
  BY <1>2, <1>7 DEF Settles, Awaits, Op
<1>8. ASSUME Around \/ \E c \in Call, op \in Op, ok \in BOOLEAN : Serves(c, op, ok) PROVE Quiet
  BY <1>2, <1>8 DEF Around, Serves
<1> HIDE DEF Quiet
<1>9. \A c \in Call, op \in Op, ok \in BOOLEAN : Settles(c, op, ok) => Awaits(c, op)
  BY DEF Settles, Awaited
<1>10. Quiet
  BY <1>3, <1>4, <1>5, <1>6, <1>7, <1>8, <1>9 DEF Kind
<1> QED
  BY <1>10 DEF Quiet

\* The counter of the attempts only grows, and each dispatch adds to it.
LEMMA AttemptsGrow ==
    ASSUME TypeOK, Kind
    PROVE  \/ attempts' = attempts
           \/ attempts' = attempts + 1 /\ \E c \in Call :
                 stage[c] = "rechecking" /\ stage'[c] \in {"unacknowledged", "publishing"}
<1>1. ASSUME NEW c \in Call, NEW op \in Op, Writes(c, op)
      PROVE  \/ attempts' = attempts
             \/ /\ attempts' = attempts + 1
                /\ stage[c] = "rechecking" /\ stage'[c] = "publishing"
  BY <1>1 DEF Writes, Tries, Op
<1> QED
  BY <1>1 DEF Kind, Begins, Continues, Answered, Confirms, Alone, Rejects, Tries, Collapses,
              Settles, Serves, Around, gateway

\* A call that was dispatched knows of an attempt since it began.
LEMMA NoticedStep ==
    ASSUME TypeOK, Awaited, Noticed, Kind PROVE Noticed'
<1> DEFINE Fine(d) ==
      /\ stage'[d] = "rechecking" => attemptsBefore'[d] <= attempts'
      /\ stage'[d] \in {"publishing", "acknowledged", "unacknowledged", "recording"} =>
            attemptsBefore'[d] < attempts'
<1>1. attempts \in Nat /\ attempts' \in Nat /\ attempts <= attempts'
      /\ \A d \in Call : attemptsBefore[d] \in Nat
  BY AttemptsGrow DEF TypeOK
<1>2. ASSUME NEW d \in Call, attemptsBefore'[d] = attemptsBefore[d], stage'[d] = stage[d]
      PROVE  Fine(d)
  BY <1>1, <1>2 DEF Noticed
<1>3. ASSUME NEW d \in Call, attemptsBefore'[d] = attemptsBefore[d], 
             stage[d] \in {"publishing", "acknowledged", "unacknowledged", "recording"}
      PROVE  Fine(d)
  BY <1>1, <1>3 DEF Noticed
<1>4. ASSUME NEW d \in Call,
             stage'[d] \in (Before \ {"rechecking"}) \cup {"answered"}
      PROVE  Fine(d)
  BY <1>4 DEF Before
<1> SUFFICES ASSUME NEW d \in Call PROVE Fine(d)
  BY DEF Noticed
<1> HIDE DEF Fine
<1>5. ASSUME NEW c \in Call, Begins(c) \/ Continues(c) \/ Answered(c) \/ Confirms(c) PROVE Fine(d)
  <2>1. CASE d # c
    BY <1>2, <1>5, <2>1 DEF Begins, Continues, Answered, Confirms, Alone
  <2>2. CASE d = c /\ stage[c] = "allowed" /\ Continues(c)
    BY <1>1, <2>2 DEF Continues, Turns, Fine
  <2>3. CASE d = c /\ ~(stage[c] = "allowed" /\ Continues(c))
    BY <1>3, <1>4, <1>5, <2>3 DEF Begins, Continues, Answered, Confirms, Turns, Denied, Failed,
                                  Done, Before
  <2> QED
    BY <2>1, <2>2, <2>3
<1>6. ASSUME NEW c \in Call, NEW b \in BOOLEAN, Tries(c, b),
             b => stage'[c] \in {"unacknowledged", "publishing"},
             ~b => stage'[c] \in {"unready", "starting", "waiting"}
      PROVE  Fine(d)
  <2>1. attemptsBefore' = attemptsBefore /\ (d # c => stage'[d] = stage[d])
    BY <1>6 DEF Tries
  <2>2. CASE d # c
    BY <1>2, <2>1, <2>2
  <2>3. CASE d = c /\ b
    <3>1. attemptsBefore[c] <= attempts /\ attempts' = attempts + 1
      BY <1>6, <2>3 DEF Tries, Noticed
    <3> QED
      BY <1>1, <1>6, <2>1, <2>3, <3>1 DEF Fine
  <2>4. CASE d = c /\ ~b
    BY <1>4, <1>6, <2>4 DEF Before
  <2> QED
    BY <2>2, <2>3, <2>4
<1>7. ASSUME NEW c \in Call, Rejects(c, TRUE) \/ Rejects(c, FALSE) PROVE Fine(d)
  BY <1>6, <1>7 DEF Rejects
<1>8. ASSUME NEW c \in Call, NEW op \in Op, Writes(c, op) PROVE Fine(d)
  <2>1. /\ Tries(c, op = "publish")
        /\ op = "publish" => stage'[c] = "publishing"
        /\ op # "publish" => stage'[c] \in {"starting", "waiting"}
    BY <1>8 DEF Writes, Op
  <2>2. CASE op = "publish"
    BY <1>6, <2>1, <2>2
  <2>3. CASE op # "publish"
    BY <1>6, <2>1, <2>3
  <2> QED
    BY <2>2, <2>3
<1>9. ASSUME Collapses PROVE Fine(d)
  <2>1. attemptsBefore' = attemptsBefore /\ stage'[d] = Lost(d)
    BY <1>9 DEF Collapses, gateway
  <2> QED
    BY <1>2, <1>3, <1>4, <2>1 DEF Lost, Before
<1>10. ASSUME NEW c \in Call, NEW op \in Op, NEW ok \in BOOLEAN, Settles(c, op, ok)
      PROVE  Fine(d)
  <2>1. attemptsBefore' = attemptsBefore /\ (d # c => stage'[d] = stage[d]) /\ Awaits(c, op)
    BY <1>10 DEF Settles, gateway, Awaited
  <2>2. CASE d # c
    BY <1>2, <2>1, <2>2
  <2>3. CASE d = c /\ op = "publish"
    BY <1>3, <2>1, <2>3 DEF Awaits
  <2>4. CASE d = c /\ op # "publish"
    BY <1>4, <1>10, <2>4 DEF Settles, Before, Op
  <2> QED
    BY <2>2, <2>3, <2>4
<1>11. ASSUME Around \/ \E c \in Call, op \in Op, ok \in BOOLEAN : Serves(c, op, ok)
      PROVE  Fine(d)
  BY <1>2, <1>11 DEF Around, Serves, gateway
<1> QED
  BY <1>5, <1>7, <1>8, <1>9, <1>10, <1>11 DEF Kind

-----------------------------------------------------------------------------
(* The counters, the pending requests, the kinds of the values. *)

\* One more call is counted.
LEMMA OneMore ==
    ASSUME Bounds, NEW S, NEW n, Counts(S, n), NEW c \in Call, c \notin S
    PROVE  Counts(S \cup {c}, n + 1)
<1>1. IsFiniteSet(S)
  BY FS_Subset DEF Bounds, Counts
<1> QED
  BY <1>1, FS_AddElement DEF Counts

\* A step counts a call at most, and one that was not counted.
LEMMA CountedStep ==
    ASSUME Bounds, TypeOK, Shaped, Awaited, Silent, Once, Acknowledged, Counted, Kind
    PROVE  Counted'
<1>1. PICK S \in SUBSET Call : Counts(S, attempts) /\ \A c \in S : stage[c] \notin Before
  BY DEF Counted
<1>2. \A c \in S : stage'[c] \notin Before
  BY <1>1, StaysDispatched
<1>3. \E T \in SUBSET Call : Counts(T, attempts') /\ \A c \in T : stage'[c] \notin Before
  <2>1. CASE attempts' = attempts
    BY <1>1, <1>2, <2>1
  <2>2. ASSUME attempts' = attempts + 1, NEW c \in Call,
               stage[c] = "rechecking", stage'[c] \in {"unacknowledged", "publishing"}
        PROVE  \E T \in SUBSET Call : Counts(T, attempts') /\ \A d \in T : stage'[d] \notin Before
    <3>1. c \notin S /\ stage'[c] \notin Before
      BY <1>1, <2>2 DEF Before
    <3>2. Counts(S \cup {c}, attempts')
      BY <1>1, <2>2, <3>1, OneMore
    <3>3. \A d \in S \cup {c} : stage'[d] \notin Before
      BY <1>2, <3>1
    <3> QED
      BY <3>2, <3>3
  <2> QED
    BY <2>1, <2>2, AttemptsGrow
<1>4. PICK S2 \in SUBSET Call :
         /\ Counts(S2, confirmed)
         /\ \A c \in S2 : published[c] = 1 /\ stage[c] \in {"recording", "answered"}
  BY DEF Counted
<1>5. \A c \in S2 : published'[c] = 1 /\ stage'[c] \in {"recording", "answered"}
  BY <1>4, PublishedOnce, OnwardStep DEF Onward
<1>6. \E T \in SUBSET Call :
        /\ Counts(T, confirmed')
        /\ \A c \in T : published'[c] = 1 /\ stage'[c] \in {"recording", "answered"}
  <2>1. confirmed' = confirmed \/ \E c \in Call : Confirms(c)
    BY DEF Kind, Begins, Continues, Answered, Alone, Rejects, Writes, Tries, Collapses,
           Settles, Serves, Around, gateway
  <2>2. CASE confirmed' = confirmed
    BY <1>4, <1>5, <2>2
  <2>3. ASSUME NEW c \in Call, Confirms(c)
        PROVE  \E T \in SUBSET Call : /\ Counts(T, confirmed')
                                      /\ \A d \in T : /\ published'[d] = 1
                                                      /\ stage'[d] \in {"recording", "answered"}
    <3>1. stage[c] = "acknowledged" /\ stage'[c] = "recording" /\ confirmed' = confirmed + 1
      BY <2>3 DEF Confirms, Turns
    <3>2. c \notin S2 /\ published'[c] = 1
      BY <1>4, <3>1, PublishedOnce DEF Acknowledged
    <3>3. Counts(S2 \cup {c}, confirmed')
      BY <1>4, <3>1, <3>2, OneMore
    <3>4. \A d \in S2 \cup {c} : published'[d] = 1 /\ stage'[d] \in {"recording", "answered"}
      BY <1>5, <3>1, <3>2
    <3> QED
      BY <3>3, <3>4
  <2> QED
    BY <2>1, <2>2, <2>3
<1> QED
  BY <1>3, <1>6 DEF Counted, Counts

\* The stages of a call that waits for a reply.
Waits == {"starting", "waiting", "publishing"}

\* A call awaits nothing elsewhere.
LEMMA AwaitsOnlyThere ==
    ASSUME NEW c \in Call, stage[c] \notin Waits PROVE \A op \in Op : ~Awaits(c, op)
  BY DEF Waits, Awaits

\* A request is pending as long as its call waits for it.
LEMMA AwaitedStep ==
    ASSUME TypeOK, Shaped, Awaited, Kind PROVE Awaited'
<1>1. ASSUME pending' = pending, channel' = channel,
             \A c \in Call :
               \/ stage'[c] = stage[c]
               \/ /\ stage[c] \notin Waits /\ stage'[c] \notin Waits
                  /\ stage'[c] \in {"allowed", "rechecking"} => channel # "none"
      PROVE  Awaited'
  <2>1. \A c \in Call, op \in Op : Awaits(c, op)' <=> Awaits(c, op)
    BY <1>1 DEF Awaits, Waits
  <2>2. \A c \in Call : stage'[c] \in {"allowed", "rechecking"} => channel' # "none"
    BY <1>1 DEF Awaited
  <2> QED
    BY <1>1, <2>1, <2>2 DEF Awaited
<1>2. ASSUME NEW c \in Call, Begins(c) \/ Continues(c) \/ Answered(c) \/ Confirms(c)
      PROVE  Awaited'
  <2>1. /\ pending' = pending /\ channel' = channel
        /\ \A d \in Call : d # c => stage'[d] = stage[d]
    BY <1>2 DEF Begins, Continues, Answered, Confirms, Alone, transport
  <2>2. stage[c] \notin Waits /\ stage'[c] \notin Waits
    BY <1>2 DEF Begins, Continues, Answered, Confirms, Turns, Denied, Failed, Done, Waits
  <2>3. stage'[c] \in {"allowed", "rechecking"} => channel # "none"
    BY <1>2 DEF Begins, Continues, Answered, Confirms, Turns, Denied, Failed, Done, Awaited
  <2> QED
    BY <1>1, <2>1, <2>2, <2>3
<1>3. ASSUME NEW c \in Call, Rejects(c, TRUE) \/ Rejects(c, FALSE) PROVE Awaited'
  BY <1>1, <1>3 DEF Rejects, Tries, Waits
<1>4. ASSUME NEW c \in Call, NEW op \in Op, Writes(c, op) PROVE Awaited'
  <2> DEFINE r == [call |-> c, op |-> op]
  <2>1. /\ pending' = pending \cup {r} /\ channel' = "up"
        /\ \A d \in Call : d # c => stage'[d] = stage[d]
        /\ stage[c] \notin Waits
    BY <1>4 DEF Writes, Tries, Waits
  <2>2. \A o \in Op : Awaits(c, o)' <=> o = op
    BY <1>4 DEF Writes, Awaits, Op
  <2>3. \A o \in Op : [call |-> c, op |-> o] \notin pending
    BY <2>1, AwaitsOnlyThere DEF Awaited
  <2>4. ASSUME NEW d \in Call, NEW o \in Op
        PROVE  [call |-> d, op |-> o] \in pending' <=> Awaits(d, o)'
    <3>1. CASE d = c
      BY <2>1, <2>2, <2>3, <3>1
    <3>2. CASE d # c
      <4>1. [call |-> d, op |-> o] # r
        BY <3>2
      <4>2. Awaits(d, o)' <=> Awaits(d, o)
        BY <2>1, <3>2 DEF Awaits
      <4> QED
        BY <2>1, <4>1, <4>2 DEF Awaited
    <3> QED
      BY <3>1, <3>2
  <2>5. IsFiniteSet(pending')
    BY <2>1, FS_AddElement DEF Awaited
  <2> QED
    BY <2>1, <2>4, <2>5 DEF Awaited
<1>5. ASSUME Collapses PROVE Awaited'
  <2>1. /\ pending' = {} /\ channel' = "failed"
        /\ \A c \in Call : stage'[c] = Lost(c)
    BY <1>5 DEF Collapses
  <2>2. \A c \in Call, op \in Op : ~Awaits(c, op)'
    BY <2>1 DEF Awaits, Lost
  <2> QED
    BY <2>1, <2>2, FS_EmptySet DEF Awaited
<1>6. ASSUME NEW c \in Call, NEW op \in Op, NEW ok \in BOOLEAN, Settles(c, op, ok)
      PROVE  Awaited'
  <2> DEFINE r == [call |-> c, op |-> op]
  <2>1. /\ pending' = pending \ {r} /\ channel' = channel /\ channel = "up" /\ Awaits(c, op)
        /\ \A d \in Call : d # c => stage'[d] = stage[d]
    BY <1>6 DEF Settles, Awaited
  <2>2. stage'[c] \notin Waits
    BY <1>6 DEF Settles, Waits, Op
  <2>3. ASSUME NEW d \in Call, NEW o \in Op
        PROVE  [call |-> d, op |-> o] \in pending' <=> Awaits(d, o)'
    <3>1. CASE d = c
      <4>1. Awaits(c, o) => o = op
        BY <2>1 DEF Awaits
      <4>2. ~Awaits(c, o)'
        BY <2>2 DEF Awaits, Waits
      <4> QED
        BY <2>1, <3>1, <4>1, <4>2 DEF Awaited
    <3>2. CASE d # c
      <4>1. [call |-> d, op |-> o] # r
        BY <3>2
      <4>2. Awaits(d, o)' <=> Awaits(d, o)
        BY <2>1, <3>2 DEF Awaits
      <4> QED
        BY <2>1, <4>1, <4>2 DEF Awaited
    <3> QED
      BY <3>1, <3>2
  <2>4. IsFiniteSet(pending')
    BY <2>1, FS_RemoveElement DEF Awaited
  <2> QED
    BY <2>1, <2>3, <2>4 DEF Awaited
<1>7. ASSUME NEW c \in Call, NEW op \in Op, NEW ok \in BOOLEAN, Serves(c, op, ok) PROVE Awaited'
  BY <1>1, <1>7 DEF Serves, transport
<1>8. ASSUME Around PROVE Awaited'
  BY <1>1, <1>8 DEF Around
<1> QED
  BY <1>2, <1>3, <1>4, <1>5, <1>6, <1>7, <1>8 DEF Kind

\* The values of a step are of their kinds.
Plain ==
  /\ mode' \in {"shadow", "run"}
  /\ id' \in [Call -> Id \cup {None}]
  /\ stage' \in [Call -> {"idle", "refused", "reading", "starting", "started", "waiting",
                         "unready", "ready", "allowed", "rechecking", "publishing",
                         "acknowledged", "unacknowledged", "recording", "answered"}]
  /\ attemptsBefore' \in [Call -> 0 .. Cardinality(Call)]
  /\ answer' \in [Call -> Answer \cup {None}]
  /\ \A c \in Call : answer'[c] # None <=> stage'[c] = "answered"
  /\ seen' \subseteq Id
  /\ channel' \in {"none", "up", "failed"}
  /\ odometry' \in BOOLEAN /\ mux' \in BOOLEAN
  /\ child' \in {"none", "running", "dead"}

\* No step leaves the types.
LEMMA PlainStep ==
    ASSUME Bounds, TypeOK, Shaped, Awaited, Next PROVE Plain
<1> USE DEF gateway, transport, process
<1>1. ASSUME NEW c \in Call, NEW s, Goes(c, s), s # "answered", stage[c] # "answered",
             answer' = answer,
             s \in {"refused", "reading", "starting", "started", "waiting", "unready", "ready",
                    "allowed", "rechecking", "publishing", "acknowledged", "unacknowledged",
                    "recording"},
             id' \in [Call -> Id \cup {None}], attemptsBefore' \in [Call -> 0 .. Cardinality(Call)],
             mode' = mode, seen' \subseteq Id, channel' \in {"up", channel},
             odometry' = odometry, mux' = mux, child' \in {"running", child}
      PROVE  Plain
  BY <1>1 DEF Plain, TypeOK, Shaped, Goes
<1>2. ASSUME NEW c \in Call, NEW d \in {"allowed", "blocked", "failed"}, NEW b \in BOOLEAN,
             Answers(c, d, b), UNCHANGED <<gateway, transport, process>>
      PROVE  Plain
  <2> DEFINE a == [decision |-> d, signal |-> b]
  <2>1. a \in Answer /\ a # None
    BY DEF Answer, Bounds
  <2>2. /\ answer' = [answer EXCEPT ![c] = a]
        /\ stage' = [stage EXCEPT ![c] = "answered"]
    BY <1>2 DEF Answers, Goes
  <2> HIDE DEF a
  <2> QED
    BY <1>2, <2>1, <2>2 DEF Plain, TypeOK, Shaped
<1>3. ASSUME NEW c \in Call, NEW p \in Id, Begin(c, p) PROVE Plain
  <2>1. id' \in [Call -> Id \cup {None}]
    BY <1>3 DEF Begin, TypeOK
  <2> QED
    BY <1>1, <1>3, <2>1 DEF Begin, At, TypeOK
<1>4. ASSUME NEW c \in Call, ReadFails(c) \/ EvidenceFails(c) PROVE Plain
  BY <1>1, <1>4 DEF ReadFails, EvidenceFails, At, TypeOK
<1>5. ASSUME NEW c \in Call, PathUnavailable(c) \/ Block(c) \/ Record(c) PROVE Plain
  BY <1>2, <1>5 DEF PathUnavailable, Block, Record
<1>6. ASSUME NEW c \in Call, Allow(c) PROVE Plain
  BY <1>1, <1>2, <1>6 DEF Allow, At, TypeOK
<1>7. ASSUME NEW c \in Call, Execute(c) PROVE Plain
  <2>1. attemptsBefore' \in [Call -> 0 .. Cardinality(Call)]
    BY <1>7 DEF Execute, TypeOK
  <2> QED
    BY <1>1, <1>7, <2>1 DEF Execute, At, TypeOK
<1>8. ASSUME NEW c \in Call, RecheckRefuses(c) \/ OutcomeLost(c) PROVE Plain
  <2>1. SignalPossible(c) \in BOOLEAN
    BY DEF SignalPossible
  <2> QED
    BY <1>2, <1>8, <2>1 DEF RecheckRefuses, OutcomeLost, Fail
<1>9. ASSUME NEW c \in Call, Confirm(c) PROVE Plain
  BY <1>1, <1>9 DEF Confirm, At, TypeOK
<1>10. ASSUME NEW c \in Call, AskPath(c) PROVE Plain
  <2>1. /\ stage[c] # "answered" /\ answer' = answer
        /\ \E s \in {"unready", "starting", "waiting"} : Goes(c, s)
        /\ channel' \in {"up", channel} /\ child' \in {"running", child}
        /\ UNCHANGED <<gateway, odometry, mux>>
    BY <1>10 DEF AskPath, Send, Rejected
  <2> QED
    BY <1>1, <2>1 DEF TypeOK
<1>11. ASSUME NEW c \in Call, Dispatch(c) PROVE Plain
  <2>1. /\ stage[c] # "answered" /\ answer' = answer
        /\ \E s \in {"unacknowledged", "starting", "publishing"} : Goes(c, s)
        /\ channel' \in {"up", channel} /\ child' \in {"running", child}
        /\ UNCHANGED <<mode, id, attemptsBefore, seen, odometry, mux>>
    BY <1>11 DEF Dispatch, Send, Rejected, At
  <2> QED
    BY <1>1, <2>1 DEF TypeOK
<1>12. ASSUME Observe \/ Serve \/ Die \/ MuxChanges PROVE Plain
  BY <1>12 DEF Observe, Serve, Die, MuxChanges, Plain, TypeOK, Shaped
<1>13. ASSUME Collapses PROVE Plain
  <2>1. /\ stage' = [c \in Call |-> Lost(c)]
        /\ channel' = "failed" /\ UNCHANGED <<gateway, answer, odometry, process>>
    BY <1>13 DEF Collapses
  <2>2. \A c \in Call : /\ Lost(c) \in {stage[c], "unready", "unacknowledged"}
                        /\ Lost(c) = "answered" <=> stage[c] = "answered"
    BY DEF Lost
  <2>3. stage' \in [Call -> {"idle", "refused", "reading", "starting", "started", "waiting",
                             "unready", "ready", "allowed", "rechecking", "publishing",
                             "acknowledged", "unacknowledged", "recording", "answered"}]
    BY <2>1, <2>2 DEF TypeOK
  <2>4. \A c \in Call : stage'[c] = "answered" <=> stage[c] = "answered"
    BY <2>1, <2>2
  <2> QED
    BY <2>1, <2>3, <2>4 DEF Plain, TypeOK, Shaped
<1>14. ASSUME Receive PROVE Plain
  <2>1. PICK reply \in Reply : /\ Goes(reply.call, Settled(reply.op, reply.ok))
                               /\ [call |-> reply.call, op |-> reply.op] \in pending
    BY <1>14, Read DEF Receive, Shaped
  <2>2. reply.call \in Call /\ reply.op \in Op
    BY DEF Reply
  <2>3. Awaits(reply.call, reply.op)
    BY <2>1, <2>2 DEF Awaited
  <2>4. Settled(reply.op, reply.ok) \in {"started", "ready", "unready", "acknowledged",
                                         "unacknowledged"}
    BY <2>2 DEF Settled, Op
  <2> QED
    BY <1>1, <1>14, <2>1, <2>2, <2>3, <2>4 DEF Receive, Awaits, TypeOK
<1>15. ASSUME ChannelEnds PROVE Plain
  <2>1. Collapses \/ Around \/ \E c \in Call, op \in Op, ok \in BOOLEAN :
           Settles(c, op, ok) \/ Serves(c, op, ok)
    BY <1>15, ChannelKinds
  <2>2. channel' = "failed" /\ channel = "up"
    BY <1>15 DEF ChannelEnds, ChannelFails
  <2>3. Collapses
    BY <2>1, <2>2 DEF Around, Settles, Serves
  <2> QED
    BY <1>13, <2>3
<1> QED
  BY <1>3, <1>4, <1>5, <1>6, <1>7, <1>8, <1>9, <1>10, <1>11, <1>12, <1>14, <1>15
  DEF Next, Prepare, Run

\* No more requests are pending than the capacity, all of them of their kind.
LEMMA PendingStep ==
    ASSUME Bounds, TypeOK, Awaited, Kind
    PROVE  pending' \subseteq Request /\ Cardinality(pending') <= Capacity
<1>1. /\ pending \subseteq Request /\ IsFiniteSet(pending)
      /\ Cardinality(pending) \in Nat /\ Cardinality(pending) <= Capacity
      /\ Capacity \in Nat \ {0}
  BY FS_CardinalityType DEF TypeOK, Awaited, Bounds
<1>2. ASSUME pending' \subseteq pending
      PROVE  pending' \subseteq Request /\ Cardinality(pending') <= Capacity
  <2>1. /\ IsFiniteSet(pending') /\ Cardinality(pending') <= Cardinality(pending)
        /\ Cardinality(pending') \in Nat
    BY <1>1, <1>2, FS_Subset, FS_CardinalityType
  <2> QED
    BY <1>1, <1>2, <2>1
<1>3. ASSUME NEW c \in Call, NEW op \in Op, Writes(c, op)
      PROVE  pending' \subseteq Request /\ Cardinality(pending') <= Capacity
  <2>1. /\ pending' = pending \cup {[call |-> c, op |-> op]}
        /\ channel = "none" \/ Cardinality(pending) < Capacity
    BY <1>3 DEF Writes
  <2>2. Cardinality(pending) < Capacity
    <3>1. CASE channel = "none"
      BY <1>1, <3>1, FS_EmptySet DEF Awaited
    <3> QED
      BY <2>1, <3>1
  <2>3. Cardinality(pending') \in {Cardinality(pending), Cardinality(pending) + 1}
    BY <1>1, <2>1, FS_AddElement
  <2> QED
    BY <1>1, <2>1, <2>2, <2>3 DEF Request
<1>4. (\E c \in Call, op \in Op : Writes(c, op)) \/ pending' \subseteq pending
  BY DEF Kind, Begins, Continues, Answered, Confirms, Alone, Rejects, Collapses,
         Settles, Serves, Around, transport
<1> QED
  BY <1>2, <1>3, <1>4

\* A counter of calls is at most their number.
LEMMA FewerThanAll ==
    ASSUME Bounds, NEW S, NEW n, Counts(S, n) PROVE n \in 0 .. Cardinality(Call)
<1>1. IsFiniteSet(S) /\ Cardinality(S) <= Cardinality(Call)
  BY FS_Subset DEF Bounds, Counts
<1> QED
  BY <1>1, FS_CardinalityType DEF Bounds, Counts

\* Every step keeps the invariant.
LEMMA InductiveStep == Bounds /\ IInv /\ Next => IInv'
<1> SUFFICES ASSUME Bounds, IInv, Next PROVE IInv'
  OBVIOUS
<1> USE DEF IInv
<1>1. Kind
  BY Kinds
<1>2. Plain /\ Published
  BY <1>1, PlainStep, PublishedStep
<1>3. Awaited' /\ Silent' /\ Once' /\ Acknowledged' /\ OneCallPerId' /\ ShadowEnds' /\ Noticed'
  BY <1>1, AwaitedStep, SignalStep, IdStep, ShadowStep, NoticedStep
<1>4. Counted'
  BY <1>1, CountedStep
<1>5. pending' \subseteq Request /\ Cardinality(pending') <= Capacity
  BY <1>1, PendingStep
<1>6. attempts' \in 0 .. Cardinality(Call) /\ confirmed' \in 0 .. Cardinality(Call)
  BY <1>4, FewerThanAll DEF Counted, Counts
<1>7. published' \in [Call -> 0 .. Cardinality(Call)]
  <2>1. ASSUME NEW c \in Call PROVE published'[c] \in 0 .. Cardinality(Call)
    <3>1. published'[c] \in {0, 1}
      BY <1>3 DEF Once
    <3>2. Cardinality(Call) \in Nat /\ Cardinality(Call) # 0
      BY FS_CardinalityType, FS_EmptySet DEF Bounds
    <3> QED
      BY <3>1, <3>2
  <2> QED
    BY <1>2, <2>1 DEF Published
<1>8. /\ inbox' \in Seq(Request) /\ outbox' \in Seq(Reply)
      /\ \A i \in 1 .. Len(outbox') : outbox'[i] \in [call: Call, op: Op, ok: BOOLEAN]
  <2>1. inbox' \in Seq(Request) /\ outbox' \in Seq(Reply)
    BY <1>2 DEF Published
  <2>2. \A i \in 1 .. Len(outbox') : outbox'[i] \in Reply
    BY <2>1, ElementOfSeq
  <2> QED
    BY <2>1, <2>2 DEF Reply
<1>9. TypeOK'
  BY <1>2, <1>5, <1>6, <1>7, <1>8 DEF TypeOK, Plain, Request
<1>10. Shaped'
  BY <1>2, <1>8 DEF Shaped, Plain, Reply
<1> QED
  BY <1>3, <1>4, <1>9, <1>10

\* As does a step that changes nothing.
LEMMA InductiveRest == IInv /\ UNCHANGED vars => IInv'
<1> SUFFICES ASSUME IInv, UNCHANGED vars PROVE IInv'
  OBVIOUS
<1> USE DEF vars, gateway, transport, process
<1>1. TypeOK' /\ Shaped' /\ Awaited'
  BY DEF IInv, TypeOK, Shaped, Awaited, Awaits
<1>2. Silent' /\ Once' /\ Acknowledged'
  BY DEF IInv, Silent, Unsent, Once, Acknowledged, Queued
<1>3. OneCallPerId' /\ ShadowEnds' /\ Noticed' /\ Counted'
  BY DEF IInv, OneCallPerId, Accepted, ShadowEnds, Noticed, Counted
<1> QED
  BY <1>1, <1>2, <1>3 DEF IInv

\* It holds at the start.
LEMMA InductiveStart == Bounds /\ Init => IInv
<1> SUFFICES ASSUME Bounds, Init PROVE IInv
  OBVIOUS
<1>1. Cardinality(Call) \in Nat /\ 0 \in 0 .. Cardinality(Call)
  BY FS_CardinalityType DEF Bounds
<1>2. pending = {} /\ IsFiniteSet(pending) /\ Cardinality(pending) = 0
  BY FS_EmptySet DEF Init
<1>3. Elements(inbox) = {} /\ Elements(outbox) = {} /\ DistinctIn(inbox, Publications)
  BY EmptyPipe DEF Init
<1>4. TypeOK
  <2>1. /\ attemptsBefore \in [Call -> 0 .. Cardinality(Call)]
        /\ published \in [Call -> 0 .. Cardinality(Call)]
        /\ attempts \in 0 .. Cardinality(Call) /\ confirmed \in 0 .. Cardinality(Call)
    BY <1>1 DEF Init
  <2>2. pending \subseteq Request /\ Cardinality(pending) <= Capacity
    BY <1>2 DEF Bounds
  <2>3. /\ inbox \in Seq(Request)
        /\ \A i \in 1 .. Len(outbox) : outbox[i] \in [call: Call, op: Op, ok: BOOLEAN]
    BY DEF Init
  <2> QED
    BY <2>1, <2>2, <2>3 DEF Init, TypeOK
<1>5. Shaped
  BY DEF Init, Shaped
<1>6. Awaited
  BY <1>2 DEF Init, Awaited, Awaits
<1>7. Silent /\ Once /\ Acknowledged
  BY <1>3 DEF Init, Silent, Once, Acknowledged, Queued
<1>8. OneCallPerId /\ ShadowEnds /\ Noticed
  BY DEF Init, OneCallPerId, Accepted, ShadowEnds, Noticed, Before
<1>9. Counts({}, 0)
  BY FS_EmptySet DEF Counts
<1>10. Counted
  BY <1>9 DEF Init, Counted, Counts
<1> QED
  BY <1>4, <1>5, <1>6, <1>7, <1>8, <1>10 DEF IInv

\* The gateway and its child keep the invariant.
THEOREM InductiveInvariant == Bounds => (Spec => []IInv)
<1> SUFFICES ASSUME Bounds PROVE Spec => []IInv
  OBVIOUS
<1>1. Init => IInv
  BY InductiveStart
<1>2. IInv /\ [Next]_vars => IInv'
  BY InductiveStep, InductiveRest
<1> QED
  BY <1>1, <1>2, PTL DEF Spec

\* Every variable keeps its type; no more requests are pending than
\* MAXIMUM_PENDING_REQUESTS, and the counters are at most the number of calls.
THEOREM TypeCorrect == Bounds => (Spec => []TypeOK)
<1> SUFFICES ASSUME Bounds PROVE Spec => []TypeOK
  OBVIOUS
<1>1. IInv => TypeOK
  BY DEF IInv
<1> QED
  BY <1>1, InductiveInvariant, PTL

\* It says all that the property says.
LEMMA Accounted == Bounds /\ IInv => SignalsAccounted
<1> SUFFICES ASSUME Bounds, IInv PROVE SignalsAccounted
  OBVIOUS
<1> USE DEF IInv
<1>1. ASSUME NEW c \in Call, MayPublish(c) PROVE Queued(c)
  BY <1>1 DEF MayPublish, Queued, Publication, Elements
<1>2. ASSUME NEW c \in Call, answer[c] # None
      PROVE  /\ ~answer[c].signal => published[c] = 0 /\ ~MayPublish(c)
             /\ answer[c].decision = "allowed" /\ mode = "run" => published[c] = 1
  BY <1>1, <1>2 DEF Shaped, Silent, Unsent, Acknowledged
<1>3. \A c \in Call : published[c] \in {0, 1}
  BY DEF Once
<1>4. ASSUME NEW c \in Call, published[c] = 1 PROVE Accepted(c)
  BY <1>4 DEF Silent, Unsent, Before, Accepted
<1>5. ASSUME NEW c \in Call, NEW d \in Call, c # d, published[c] + published[d] = 2
      PROVE  id[c] # id[d]
  <2>1. published[c] = 1 /\ published[d] = 1
    BY <1>3, <1>5
  <2> QED
    BY <1>4, <1>5, <2>1 DEF OneCallPerId
<1>6. ASSUME mode = "shadow", NEW c \in Call PROVE published[c] = 0
  BY <1>6 DEF ShadowEnds, Silent, Unsent
<1>7. confirmed <= Cardinality({c \in Call : published[c] = 1})
  <2>1. PICK S \in SUBSET Call : Counts(S, confirmed) /\ \A c \in S : published[c] = 1
    BY DEF Counted
  <2> DEFINE P == {c \in Call : published[c] = 1}
  <2>2. S \subseteq P /\ IsFiniteSet(P)
    BY <2>1, FS_Subset DEF Bounds
  <2>3. Cardinality(S) <= Cardinality(P)
    BY <2>2, FS_Subset
  <2> QED
    BY <2>1, <2>3 DEF Counts
<1> QED
  BY <1>2, <1>3, <1>5, <1>6, <1>7 DEF SignalsAccounted

\* handleProposal and execute: an answer that denies a hardware signal is true and
\* stays true, one that allows follows exactly one publication, an id is published
\* once at most and Shadow publishes nothing.
THEOREM SignalsAreAccounted == Bounds => (Spec => []SignalsAccounted)
<1> SUFFICES ASSUME Bounds PROVE Spec => []SignalsAccounted
  OBVIOUS
<1>1. IInv => SignalsAccounted
  BY Accounted
<1> QED
  BY <1>1, InductiveInvariant, PTL
===============================================================================
