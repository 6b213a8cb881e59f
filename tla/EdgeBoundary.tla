---------------------------- MODULE EdgeBoundary ----------------------------
(***************************************************************************)
(* The robot-side final write boundary, packages/edge-authorization/       *)
(* snapshot.ts: one EdgeAuthorizedDispatchBoundary, the task that          *)
(* refreshes its signed snapshot beside it, the callers that ask it to     *)
(* dispatch, and the adapter that consumes the action later.               *)
(*                                                                         *)
(* Everything from the check of `consumed` to the call of the dispatcher   *)
(* is one synchronous stretch of JavaScript, hence one action; the         *)
(* refresh task, the revocation epoch, the clock and the owner of the      *)
(* action object move between those stretches, and the adapter reads the   *)
(* action after its first await.                                           *)
(*                                                                         *)
(* Abstractions.  The six bound fields of a snapshot are one: which action *)
(* (of which release, on which device) it authorises.  A snapshot that the *)
(* schema refuses never becomes the prepared one; a snapshot that passes   *)
(* the schema is intact or not (its signature covers its payload or does   *)
(* not).  The clock is the host's; the issuer's may be ahead of it, so     *)
(* issuing times are not bounded by it.                                    *)
(***************************************************************************)
EXTENDS Integers, FiniteSets

CONSTANTS
  Action,             \* what the caller's object can hold
  Bound,              \* the action the boundary is bound to
  Call,               \* calls of dispatch
  MaxTime,            \* bound on the clock and on a snapshot's instants
  MaxEpoch,           \* bound on the revocation epoch
  Skew,               \* maximumClockSkewMs
  MaximumLifetime,    \* maximumLifetimeMs
  None                \* no snapshot

\* What snapshot.ts assumes of the numbers it is configured with.
Bounds ==
  /\ MaxTime \in Nat /\ MaxEpoch \in Nat
  /\ Skew \in Nat /\ MaximumLifetime \in Nat

VARIABLES
  now,         \* the host's clock
  minimum,     \* minimumRevocationEpoch()
  object,      \* what the caller-owned action object holds
  consumed,    \* this.consumed
  prepared,    \* this.prepared
  evidence,    \* this.authorizationEvidence (None, or the snapshot it names)
  call,        \* [Call -> idle, dispatching, sent, refused]
  moved,       \* what the adapter consumed: [call, action], in no order
  handed       \* the circumstances of each dispatch: [call, at, minimum, action]

vars == <<now, minimum, object, consumed, prepared, evidence, call, moved, handed>>

\* What signEdgeAuthorization can have signed (it refuses a lifetime of zero or
\* less), before or after something altered it, under a key the robot may not know.
Snapshot ==
  {s \in [for: Action, issued: 0 .. MaxTime, expires: 0 .. MaxTime,
          epoch: 0 .. MaxEpoch, known: BOOLEAN, intact: BOOLEAN] :
     s.expires > s.issued}

Handed == [call: Call, at: 0 .. MaxTime, minimum: 0 .. MaxEpoch, action: Action]

Init ==
  /\ now = 0 /\ minimum = 0
  /\ object \in Action
  /\ consumed = FALSE /\ prepared = None /\ evidence = None
  /\ call = [c \in Call |-> "idle"]
  /\ moved = {} /\ handed = {}

\* verifyEdgeAuthorization, for the boundary's own binding.
Verifies(s) ==
  /\ s # None
  /\ s.known
  /\ s.intact
  /\ s.expires - s.issued <= MaximumLifetime
  /\ s.issued <= now + Skew
  /\ s.expires > now
  /\ s.epoch >= minimum
  /\ s.for = Bound

\* The refresh task.
Prepare(s) ==
  /\ ~consumed
  /\ prepared' = s
  /\ UNCHANGED <<now, minimum, object, consumed, evidence, call, moved, handed>>

\* dispatch(action), up to the await of the dispatcher: whatever comes of it the
\* boundary is consumed, and the prepared snapshot is taken from it once the
\* action's hash is the bound one.
Dispatch(c) ==
  /\ call[c] = "idle"
  /\ consumed' = TRUE
  /\ IF consumed \/ object # Bound
     THEN /\ call' = [call EXCEPT ![c] = "refused"]
          /\ UNCHANGED <<prepared, evidence, handed>>
     ELSE /\ prepared' = None
          /\ IF Verifies(prepared)
             THEN /\ call' = [call EXCEPT ![c] = "dispatching"]
                  /\ evidence' = prepared
                  /\ handed' = handed \cup
                       {[call |-> c, at |-> now, minimum |-> minimum, action |-> object]}
             ELSE /\ call' = [call EXCEPT ![c] = "refused"]
                  /\ UNCHANGED <<evidence, handed>>
  /\ UNCHANGED <<now, minimum, object, moved>>

\* Were the object itself handed over: what it holds by the time it is read.
SeenByReference(h) == object

\* What the adapter of this call sees: a detached copy of the checked value.
Seen(h) == h.action

\* The adapter consumes the action it was handed, any time later, once.
Consume(c) ==
  /\ call[c] = "dispatching"
  /\ \E h \in handed :
       /\ h.call = c
       /\ moved' = moved \cup {[call |-> c, action |-> Seen(h)]}
  /\ call' = [call EXCEPT ![c] = "sent"]
  /\ UNCHANGED <<now, minimum, object, consumed, prepared, evidence, handed>>

\* The dispatcher throws before it moved anything: the boundary stays consumed.
AdapterFails(c) ==
  /\ call[c] = "dispatching"
  /\ call' = [call EXCEPT ![c] = "refused"]
  /\ UNCHANGED <<now, minimum, object, consumed, prepared, evidence, moved, handed>>

\* The caller changes its own object, also while a dispatch is under way.
ChangeObject(a) ==
  /\ object' = a
  /\ UNCHANGED <<now, minimum, consumed, prepared, evidence, call, moved, handed>>

Tick ==
  /\ now < MaxTime
  /\ now' = now + 1
  /\ UNCHANGED <<minimum, object, consumed, prepared, evidence, call, moved, handed>>

RaiseEpoch ==
  /\ minimum < MaxEpoch
  /\ minimum' = minimum + 1
  /\ UNCHANGED <<now, object, consumed, prepared, evidence, call, moved, handed>>

Next ==
  \/ \E s \in Snapshot : Prepare(s)
  \/ \E c \in Call : Dispatch(c) \/ Consume(c) \/ AdapterFails(c)
  \/ \E a \in Action : ChangeObject(a)
  \/ Tick \/ RaiseEpoch

Spec == Init /\ [][Next]_vars

TypeOK ==
  /\ now \in 0 .. MaxTime /\ minimum \in 0 .. MaxEpoch
  /\ object \in Action
  /\ consumed \in BOOLEAN
  /\ prepared \in Snapshot \cup {None}
  /\ evidence \in Snapshot \cup {None}
  /\ call \in [Call -> {"idle", "dispatching", "sent", "refused"}]
  /\ moved \subseteq [call: Call, action: Action]
  /\ handed \subseteq Handed

\* However the calls, the refresh task, the revocation epoch, the clock and the
\* owner of the action object interleave, one boundary moves the robot at most
\* once; what it moves is the action its snapshot was issued for, even when the
\* caller rewrites the object while the adapter still waits; the snapshot was
\* unexpired, unrevoked and of a bounded lifetime at the instant of the hand-over;
\* and the Evidence names that very snapshot, also after the refresh task asked
\* for another one.
OneAuthorizedMove ==
  /\ Cardinality(moved) <= 1
  /\ Cardinality(handed) <= 1
  /\ \A h \in handed :
       /\ evidence # None
       /\ evidence.for = h.action
       /\ evidence.intact /\ evidence.known
       /\ evidence.epoch >= h.minimum
       /\ h.at < evidence.expires
       /\ evidence.issued - Skew <= h.at
       /\ h.at - evidence.issued < MaximumLifetime
  /\ \A m \in moved : \E h \in handed : m.call = h.call /\ m.action = evidence.for
  /\ evidence # None => handed # {}
=============================================================================
