------------------------ MODULE ValidationSessionProofs ------------------------
(***************************************************************************)
(* Theorems about ValidationSession, for any number of commands, any cases *)
(* and any choice of the commands that are started.                        *)
(*                                                                         *)
(* Two arguments that share nothing but the types.  The lock: a lock file  *)
(* is in one place (OnePlace), one that a recovery has judged belongs to a *)
(* process that is over (Judged), so as long as no recovery has taken away *)
(* another file than it judged there is one owner (Owned); and no file     *)
(* loses its contents before it is removed (Legible).  The directory:      *)
(* files are added in an order that can be recovered (Ordered), because    *)
(* what a command has still to write fits what is there (Planned),         *)
(* whichever commands run at once.  Each step is first reduced to what it  *)
(* does to the lock (LockStep) and to the directory (DirStep).             *)
(***************************************************************************)
EXTENDS ValidationSession, FiniteSetTheorems, TLAPS

-----------------------------------------------------------------------------
(* The inductive invariant. *)

\* A process that has not created its lock file yet, one that may work, one that
\* holds a lock file it has renamed.
Early == {"idle", "look", "claim", "compare", "put_back", "acquire"}
Owning == {"sign", "release"} \cup Working
Moving == {"compare", "put_back", "compare_own", "put_back_own"}
Over == {"done", "dead"}

\* A lock file is in one place, and in none before its process creates it.
OnePlace ==
    /\ \A p \in Process : pc[p] \in Early =>
          p \notin wrote /\ lock # p /\ \A q \in Process : moved[q] # p
    /\ \A p \in Process : pc[p] \in Moving =>
          /\ moved[p] \in Process /\ moved[p] # lock
          /\ \A q \in Process : pc[q] \in Moving /\ moved[q] = moved[p] => q = p

\* A recovery has read the lock of a process that is over; as long as that
\* lock file is anywhere it has its contents.
Judged ==
    \A p \in Process :
       /\ pc[p] \in {"claim", "compare", "put_back"} => looked[p] # None
       /\ pc[p] = "put_back" => moved[p] # looked[p]
       /\ looked[p] # None =>
             /\ pc[p] \in {"claim", "compare", "put_back"} \cup Over
             /\ pc[looked[p]] \in Over
             /\ looked[p] \in wrote
                  \/ /\ lock # looked[p]
                     /\ \A q \in Process : pc[q] \in Moving => moved[q] # looked[p]
       /\ pc[p] \in {"idle", "look", "claim"} => moved[p] = None

\* A lock file without contents that its process left behind.
Abandoned(x) == x \in Process /\ x \notin wrote /\ pc[x] \in Over

\* One process owns the lock, unless a recovery was misled: its own is in place,
\* or one that nobody can clear.
Owned ==
    (\A p \in Process : ~Misled(p)) =>
       /\ \A p, q \in Process : pc[p] \in Owning /\ pc[q] \in Owning => p = q
       /\ \A p \in Process :
             /\ pc[p] \in Owning => lock = p \/ Abandoned(lock)
             /\ pc[p] = "compare_own" => moved[p] = p \/ Abandoned(moved[p])
             /\ pc[p] = "put_back_own" =>
                   \/ moved[p] = p /\ p \notin wrote
                   \/ Abandoned(moved[p])

\* A lock file has its contents, or will never have them, or is being written.
Known(x) == x \in wrote \cup unsigned \/ pc[x] = "sign"
Legible ==
    /\ lock # None => Known(lock)
    /\ \A p \in Process : pc[p] \in Moving => Known(moved[p])

\* Files are added in an order that leaves the directory recoverable.
Ordered ==
    /\ "procedure" \in names => "session" \in names
    /\ manifest # None \/ "result" \in names \/ names \cap Case # {} => Described
    /\ "result" \in names => Case \subseteq names
    /\ manifest # None /\ manifest.status = "COLLECTED" => "result" \in names

\* What a command has still to write fits the files n of the directory.
Fits(t, n) ==
    \/ t \in {<<"session", "procedure", "PENDING", "sums">>, <<"sums">>}
    \/ t = <<"procedure", "PENDING", "sums">> /\ "session" \in n
    \/ /\ {"session", "procedure"} \subseteq n
       /\ \/ t = <<"PENDING", "sums">>
          \/ \E c \in Case : t = <<c, "PENDING", "sums">>
          \/ t = <<"result", "COLLECTED", "sums">> /\ Case \subseteq n
          \/ t = <<"COLLECTED", "sums">> /\ "result" \in n

\* Each command that writes has a plan that fits; a manifest was drafted as planned.
Planned ==
    \A p \in Process :
       /\ pc[p] \in {"write", "rename"} => Fits(todo[p], names)
       /\ pc[p] = "rename" /\ Head(todo[p]) \in {"PENDING", "COLLECTED"} =>
             draft[p].status = Head(todo[p])


\* Plans and drafts are functions of the process; a case to record is known.
Shaped ==
    /\ todo = [p \in Process |-> todo[p]]
    /\ draft = [p \in Process |-> draft[p]]
    /\ \A p \in Process : cmd[p] = "record" => arg[p] \in Case

IInv == TypeOK /\ OnePlace /\ Judged /\ Owned /\ Legible /\ Shaped /\ Ordered /\ Planned

-----------------------------------------------------------------------------
(* The lock: what a step of the process p does to it. *)

locks == <<lock, wrote, looked, moved>>

\* The label of p changes, the lock and all lock files stay.
Moves(p, from, to) == pc[p] \in from /\ \E x \in to : pc' = [pc EXCEPT ![p] = x]
Goes(p, from, to) == pc[p] = from /\ pc' = [pc EXCEPT ![p] = to]

\* The process goes on, or ends, and leaves every lock file where it is.
Steps(p) ==
    /\ \/ Moves(p, {"idle"}, {"look", "acquire"})
       \/ Goes(p, "look", "acquire")
       \/ Goes(p, "sign", "release")
       \/ Moves(p, Working, Working \cup {"release"})
       \/ Moves(p, Running, Over)
    /\ UNCHANGED locks

\* A recovery reads the lock of a process that is over.
Judges(p) ==
    /\ Goes(p, "look", "claim")
    /\ lock \in wrote /\ pc[lock] \notin Running
    /\ looked' = [looked EXCEPT ![p] = lock]
    /\ UNCHANGED <<lock, wrote, moved>>

\* The lock it judged is gone.
FindsNothing(p) ==
    /\ Goes(p, "claim", "done")
    /\ looked' = [looked EXCEPT ![p] = None]
    /\ UNCHANGED <<lock, wrote, moved>>

\* The lock is renamed, by a recovery or by a command that ends.
Takes(p) ==
    /\ Goes(p, "claim", "compare") \/ Goes(p, "release", "compare_own")
    /\ lock # None
    /\ moved' = [moved EXCEPT ![p] = lock]
    /\ lock' = None
    /\ UNCHANGED <<wrote, looked>>

\* The lock that was judged is removed.
Clears(p) ==
    /\ Goes(p, "compare", "acquire")
    /\ moved[p] = looked[p] /\ moved[p] \in wrote
    /\ wrote' = wrote \ {moved[p]}
    /\ moved' = [moved EXCEPT ![p] = None]
    /\ looked' = [looked EXCEPT ![p] = None]
    /\ UNCHANGED lock

\* The lock that was taken is not the one meant, and its name is free.
Regrets(p) ==
    /\ \/ Goes(p, "compare", "put_back") /\ (moved[p] # looked[p] \/ moved[p] \notin wrote)
       \/ Goes(p, "compare_own", "put_back_own") /\ (moved[p] # p \/ p \notin wrote)
    /\ UNCHANGED locks

\* It goes back under its name.
PutsBack(p) ==
    /\ pc[p] \in {"put_back", "put_back_own"}
    /\ pc' = [pc EXCEPT ![p] = "done"]
    /\ lock' = moved[p]
    /\ UNCHANGED <<wrote, looked, moved>>

\* The lock is created.
Acquires(p) ==
    /\ Goes(p, "acquire", "sign")
    /\ lock = None /\ lock' = p
    /\ UNCHANGED <<wrote, looked, moved>>

\* Its contents are written.
Signs(p) ==
    /\ Goes(p, "sign", "check")
    /\ wrote' = wrote \cup {p}
    /\ UNCHANGED <<lock, looked, moved>>

\* A command removes its own lock.
Finishes(p) ==
    /\ Goes(p, "compare_own", "done")
    /\ moved[p] = p /\ p \in wrote
    /\ wrote' = wrote \ {p}
    /\ moved' = [moved EXCEPT ![p] = None]
    /\ UNCHANGED <<lock, looked>>

LockStep(p) ==
    \/ Steps(p) \/ Judges(p) \/ FindsNothing(p) \/ Takes(p) \/ Clears(p)
    \/ Regrets(p) \/ PutsBack(p) \/ Acquires(p) \/ Signs(p) \/ Finishes(p)

\* Who leaves its lock unwritten is remembered.
Marks(p) ==
    unsigned' = unsigned \cup (IF pc[p] = "sign" /\ pc'[p] # "check" THEN {p} ELSE {})

\* One step of one process.
Act(p) ==
    \/ Start(p) \/ Look(p) \/ Claim(p) \/ Compare(p) \/ PutBack(p)
    \/ Acquire(p) \/ Sign(p) \/ Release(p) \/ CompareOwn(p)
    \/ Work(p) \/ Open(p) \/ Rename(p) \/ WriteFails(p) \/ Kill(p)

\* Every step is of one of these kinds.
LEMMA ActLocks ==
    ASSUME Distinct, TypeOK, OnePlace, Judged, NEW p \in Process, Act(p)
    PROVE  LockStep(p)
<1> USE DEF Goes, Moves, Go, End, Gone, LockStep
<1>1. CASE Start(p)
  <2>1. UNCHANGED locks /\ pc[p] = "idle"
    BY <1>1 DEF Start, lockVars, locks
  <2>2. \E x \in {"look", "acquire"} : pc' = [pc EXCEPT ![p] = x]
    BY <1>1 DEF Start
  <2> QED
    BY <2>1, <2>2 DEF Steps
<1>2. CASE Look(p)
  <2>1. lock # None /\ lock \in wrote => Bytes(lock) = lock
    BY DEF Bytes
  <2> QED
    BY <1>2, <2>1 DEF Look, Steps, Judges, lockVars, locks, Running, Over
<1>3. CASE Claim(p)
  BY <1>3 DEF Claim, FindsNothing, Takes
<1>4. CASE Compare(p)
  <2>1. moved[p] \in Process /\ looked[p] # None /\ looked[p] \in Process \cup {None}
    BY <1>4 DEF Compare, OnePlace, Judged, Moving, TypeOK
  <2>2. Bytes(moved[p]) = looked[p] <=> moved[p] = looked[p] /\ moved[p] \in wrote
    BY <2>1 DEF Bytes, Distinct
  <2> QED
    BY <1>4, <2>2 DEF Compare, Clears, Regrets, Steps, lockVars, locks, Running, Over
<1>5. CASE PutBack(p)
  BY <1>5 DEF PutBack, PutsBack
<1>6. CASE Acquire(p)
  BY <1>6 DEF Acquire, Acquires, Steps, lockVars, locks, Running, Over
<1>7. CASE Sign(p)
  BY <1>7 DEF Sign, Signs, Steps, lockVars, locks
<1>8. CASE Release(p)
  BY <1>8 DEF Release, Takes, Steps, lockVars, locks, Running, Over
<1>9. CASE CompareOwn(p)
  <2>1. Bytes(moved[p]) = p <=> moved[p] = p /\ p \in wrote
    BY DEF Bytes, Distinct
  <2> QED
    BY <1>9, <2>1 DEF CompareOwn, Finishes, Regrets, Steps, lockVars, locks, Running, Over
<1>10. CASE Work(p)
  <2>1. pc[p] \in Working /\ UNCHANGED locks
    BY <1>10 DEF Work, Working, lockVars, locks
  <2>2. \E x \in Working \cup {"release"} : pc' = [pc EXCEPT ![p] = x]
    BY <1>10 DEF Work, DoInit, DoRecord, DoFinalize, DoVerify, DoRecover, Refuse,
                 Accept, Answer, Working
  <2> QED
    BY <2>1, <2>2 DEF Steps
<1>11. CASE Open(p) \/ Rename(p) \/ WriteFails(p)
  BY <1>11 DEF Open, Rename, WriteFails, Answer, Steps, Working, lockVars, locks
<1>12. CASE Kill(p)
  BY <1>12 DEF Kill, Steps, Over, locks
<1> QED
  BY <1>1, <1>2, <1>3, <1>4, <1>5, <1>6, <1>7, <1>8, <1>9, <1>10, <1>11, <1>12 DEF Act

\* Only a command that is writing its lock can leave it unwritten.
LEMMA ActMarks ==
    ASSUME TypeOK, NEW p \in Process, Act(p)
    PROVE  Marks(p)
<1> USE DEF Go, End, Gone, Marks, TypeOK
<1>1. CASE Sign(p)
  BY <1>1 DEF Sign
<1>2. CASE Kill(p)
  BY <1>2 DEF Kill
<1>3. CASE ~Sign(p) /\ ~Kill(p)
  BY <1>3 DEF Act, Start, Look, Claim, Compare, PutBack, Acquire, Release, CompareOwn,
              Work, Open, Rename, WriteFails, lockVars
<1> QED
  BY <1>1, <1>2, <1>3

\* The lock and the lock files of processes that exist.
LEMMA LockTypes ==
    ASSUME Distinct, TypeOK, OnePlace, NEW p \in Process, LockStep(p)
    PROVE  /\ pc' \in [Process -> Running \cup {"idle", "done", "dead"}]
           /\ lock' \in Process \cup {None} /\ wrote' \subseteq Process
           /\ looked' \in [Process -> Process \cup {None}]
           /\ moved' \in [Process -> Process \cup {None}]
<1>1. pc[p] \in Moving => moved[p] \in Process
  BY DEF OnePlace
<1> USE DEF Goes, Moves, Running, Working, Over, locks
<1>2. pc' \in [Process -> Running \cup {"idle", "done", "dead"}]
  BY DEF TypeOK, LockStep, Steps, Judges, FindsNothing, Takes, Clears, Regrets,
         PutsBack, Acquires, Signs, Finishes
<1>3. lock' \in Process \cup {None} /\ wrote' \subseteq Process
  BY <1>1 DEF TypeOK, LockStep, Steps, Judges, FindsNothing, Takes, Clears, Regrets,
         PutsBack, Acquires, Signs, Finishes, Moving
<1>4. /\ looked' \in [Process -> Process \cup {None}]
      /\ moved' \in [Process -> Process \cup {None}]
  BY DEF TypeOK, LockStep, Steps, Judges, FindsNothing, Takes, Clears, Regrets,
         PutsBack, Acquires, Signs, Finishes
<1> QED
  BY <1>2, <1>3, <1>4

\* Only the label of p changes.
LEMMA Labels ==
    ASSUME TypeOK, NEW p \in Process, LockStep(p)
    PROVE  \A q \in Process : q # p => pc'[q] = pc[q] /\ looked'[q] = looked[q]
                                       /\ moved'[q] = moved[q]
  BY DEF LockStep, Steps, Judges, FindsNothing, Takes, Clears, Regrets, PutsBack, Acquires,
         Signs, Finishes, Goes, Moves, locks, TypeOK

\* No lock file is in two places.
LEMMA StepOnePlace ==
    ASSUME Distinct, TypeOK, OnePlace, NEW p \in Process, LockStep(p)
    PROVE  OnePlace'
<1>1. \A q \in Process : q # p => pc'[q] = pc[q] /\ looked'[q] = looked[q]
                                  /\ moved'[q] = moved[q]
  BY Labels
<1> USE DEF Goes, Moves, Running, Working, Over, Early, Moving
<1>2. CASE Steps(p)
  BY <1>1, <1>2 DEF Steps, OnePlace, TypeOK, locks
<1>3. CASE Judges(p)
  BY <1>1, <1>3 DEF Judges, OnePlace, TypeOK
<1>4. CASE FindsNothing(p)
  BY <1>1, <1>4 DEF FindsNothing, OnePlace, TypeOK
<1>5. CASE Takes(p)
  BY <1>1, <1>5 DEF Takes, OnePlace, TypeOK, Distinct
<1>6. CASE Clears(p)
  BY <1>1, <1>6 DEF Clears, OnePlace, TypeOK, Distinct
<1>7. CASE Regrets(p)
  BY <1>1, <1>7 DEF Regrets, OnePlace, TypeOK, locks
<1>8. CASE PutsBack(p)
  BY <1>1, <1>8 DEF PutsBack, OnePlace, TypeOK
<1>9. CASE Acquires(p)
  BY <1>1, <1>9 DEF Acquires, OnePlace, TypeOK
<1>10. CASE Signs(p)
  BY <1>1, <1>10 DEF Signs, OnePlace, TypeOK
<1>11. CASE Finishes(p)
  BY <1>1, <1>11 DEF Finishes, OnePlace, TypeOK, Distinct
<1> QED
  BY <1>2, <1>3, <1>4, <1>5, <1>6, <1>7, <1>8, <1>9, <1>10, <1>11 DEF LockStep

\* What a recovery has judged stays judged.
LEMMA StepJudged ==
    ASSUME Distinct, TypeOK, OnePlace, Judged, NEW p \in Process, LockStep(p)
    PROVE  Judged'
<1>1. \A q \in Process : q # p => pc'[q] = pc[q] /\ looked'[q] = looked[q]
                                  /\ moved'[q] = moved[q]
  BY Labels
<1>2. \A q \in Process : looked[q] # None => looked[q] \in Process
  BY DEF TypeOK
<1>3. \A q \in Process : pc[q] \in Over => pc'[q] = pc[q]
  BY <1>1 DEF LockStep, Steps, Judges, FindsNothing, Takes, Clears, Regrets, PutsBack,
              Acquires, Signs, Finishes, Goes, Moves, Over, Running, Working
<1> USE DEF Goes, Moves, Running, Working, Over, Moving
<1>4. CASE Steps(p)
  BY <1>1, <1>2, <1>3, <1>4 DEF Steps, Judged, TypeOK, locks
<1>5. CASE Judges(p)
  <2>1. lock \in Process /\ pc[lock] \notin Running /\ pc[lock] # "idle"
    BY <1>5 DEF Judges, TypeOK, OnePlace, Early
  <2>2. pc[lock] \in Over
    BY <2>1 DEF TypeOK
  <2>3. looked'[p] = lock /\ pc'[p] = "claim" /\ lock # p
    BY <1>5, <2>2 DEF Judges, TypeOK
  <2>4. moved[p] = None
    BY <1>5 DEF Judges, Judged
  <2>5. UNCHANGED <<lock, wrote, moved>> /\ lock \in wrote /\ lock \in Process
    BY <1>5, <2>1 DEF Judges
  <2>6. pc'[lock] \in Over
    BY <1>3, <2>2, <2>5
  <2>7. ASSUME NEW q \in Process, q # p
        PROVE  /\ pc[q] \in {"claim", "compare", "put_back"} => looked[q] # None
               /\ pc[q] = "put_back" => moved[q] # looked[q]
               /\ looked[q] # None =>
                     /\ pc[q] \in {"claim", "compare", "put_back"} \cup Over
                     /\ pc'[looked[q]] \in Over
                     /\ looked[q] \in wrote
                          \/ /\ lock # looked[q]
                             /\ \A r \in Process : pc'[r] \in Moving => moved[r] # looked[q]
               /\ pc[q] \in {"idle", "look", "claim"} => moved[q] = None
    BY <1>1, <1>2, <1>3, <2>3 DEF Judged
  <2> HIDE DEF Over, Moving
  <2> QED
    BY <1>1, <2>3, <2>4, <2>5, <2>6, <2>7, <1>5 DEF Judged, Distinct
<1>6. CASE FindsNothing(p)
  BY <1>1, <1>2, <1>3, <1>6 DEF FindsNothing, Judged, TypeOK
<1>7. CASE Takes(p)
  BY <1>1, <1>2, <1>3, <1>7 DEF Takes, Judged, TypeOK, OnePlace
<1>8. CASE Clears(p)
  BY <1>1, <1>2, <1>3, <1>8 DEF Clears, Judged, TypeOK, OnePlace
<1>9. CASE Regrets(p)
  BY <1>1, <1>2, <1>3, <1>9 DEF Regrets, Judged, TypeOK, locks
<1>10. CASE PutsBack(p)
  BY <1>1, <1>2, <1>3, <1>10 DEF PutsBack, Judged, TypeOK, OnePlace
<1>11. CASE Acquires(p)
  BY <1>1, <1>2, <1>3, <1>11 DEF Acquires, Judged, TypeOK, OnePlace
<1>12. CASE Signs(p)
  BY <1>1, <1>2, <1>3, <1>12 DEF Signs, Judged, TypeOK, OnePlace
<1>13. CASE Finishes(p)
  BY <1>1, <1>2, <1>3, <1>13 DEF Finishes, Judged, TypeOK, OnePlace
<1> QED
  BY <1>4, <1>5, <1>6, <1>7, <1>8, <1>9, <1>10, <1>11, <1>12, <1>13 DEF LockStep

\* Who was misled stays so.
LEMMA MisledStays ==
    ASSUME Distinct, TypeOK, OnePlace, Judged, NEW p \in Process, LockStep(p),
           NEW q \in Process, Misled(q)
    PROVE  Misled(q)'
<1>1. q # p => pc'[q] = pc[q] /\ looked'[q] = looked[q] /\ moved'[q] = moved[q]
  BY Labels
<1>2. /\ looked[q] # None /\ moved[q] \notin {None, looked[q]}
      /\ pc[q] \in {"compare", "put_back"} \cup Over
  BY DEF Misled, Judged
<1> QED
  BY <1>1, <1>2 DEF Misled, LockStep, Steps, Judges, FindsNothing, Takes, Clears, Regrets,
                    PutsBack, Acquires, Signs, Finishes, Goes, Moves, Over, Running,
                    Working, locks

\* The owner keeps the lock, unless a recovery is misled.
LEMMA StepOwned ==
    ASSUME Distinct, TypeOK, OnePlace, Judged, Owned, NEW p \in Process, LockStep(p)
    PROVE  Owned'
<1> SUFFICES ASSUME \A q \in Process : ~Misled(q)'
             PROVE  /\ \A q, r \in Process : pc'[q] \in Owning /\ pc'[r] \in Owning => q = r
                    /\ \A q \in Process :
                          /\ pc'[q] \in Owning => lock' = q \/ Abandoned(lock)'
                          /\ pc'[q] = "compare_own" => moved'[q] = q \/ Abandoned(moved[q])'
                          /\ pc'[q] = "put_back_own" =>
                                \/ moved'[q] = q /\ q \notin wrote'
                                \/ Abandoned(moved[q])'
  BY DEF Owned
<1>1. \A q \in Process : q # p => pc'[q] = pc[q] /\ looked'[q] = looked[q]
                                  /\ moved'[q] = moved[q]
  BY Labels
<1>2. \A q \in Process : ~Misled(q)
  BY MisledStays
<1>3. /\ \A q, r \in Process : pc[q] \in Owning /\ pc[r] \in Owning => q = r
      /\ \A q \in Process :
            /\ pc[q] \in Owning => lock = q \/ Abandoned(lock)
            /\ pc[q] = "compare_own" => moved[q] = q \/ Abandoned(moved[q])
            /\ pc[q] = "put_back_own" =>
                  \/ moved[q] = q /\ q \notin wrote
                  \/ Abandoned(moved[q])
  BY <1>2 DEF Owned
<1>4. ASSUME NEW x, Abandoned(x) PROVE Abandoned(x)'
  BY <1>1, <1>4 DEF Abandoned, LockStep, Steps, Judges, FindsNothing, Takes, Clears, Regrets,
                    PutsBack, Acquires, Signs, Finishes, Goes, Moves, Over, Running,
                    Working, locks
<1>5. None \notin Process
  BY DEF Distinct
<1> USE DEF Goes, Moves, Running, Working, Over, Owning
<1>6. CASE Steps(p)
  BY <1>1, <1>3, <1>4, <1>6 DEF Steps, TypeOK, locks
<1>7. CASE Judges(p) \/ FindsNothing(p)
  BY <1>1, <1>3, <1>4, <1>7 DEF Judges, FindsNothing, TypeOK
<1>8. CASE Takes(p) /\ pc[p] = "claim"
  <2>1. looked'[p] = looked[p] /\ moved'[p] = lock /\ lock # None /\ looked[p] # None
    BY <1>8 DEF Takes, TypeOK, Judged
  <2>2. lock = looked[p]
    BY <2>1 DEF Misled
  <2>3. lock \in Process /\ pc[lock] \in Over /\ lock \in wrote
    BY <2>1, <2>2 DEF Judged, TypeOK
  <2>4. \A q \in Process : pc[q] \notin Owning
    BY <1>3, <2>3 DEF Abandoned
  <2> QED
    BY <1>1, <1>3, <1>4, <1>8, <2>4 DEF Takes, TypeOK
<1>9. CASE Takes(p) /\ pc[p] = "release"
  BY <1>1, <1>3, <1>4, <1>9 DEF Takes, TypeOK
<1>10. CASE Clears(p)
  BY <1>1, <1>3, <1>4, <1>10 DEF Clears, TypeOK
<1>11. CASE Regrets(p)
  BY <1>1, <1>3, <1>4, <1>11 DEF Regrets, TypeOK, locks
<1>12. CASE PutsBack(p)
  <2>1. pc[p] = "put_back_own"
    <3>1. pc[p] # "put_back"
      BY <1>2 DEF Judged, OnePlace, Moving, Misled, Distinct
    <3> QED
      BY <1>12, <3>1 DEF PutsBack
  <2>2. Abandoned(moved[p])'
    <3>1. CASE moved[p] = p /\ p \notin wrote
      BY <1>12, <3>1 DEF PutsBack, Abandoned, TypeOK
    <3>2. CASE Abandoned(moved[p])
      BY <1>4, <1>12, <3>2 DEF PutsBack
    <3> QED
      BY <1>3, <2>1, <3>1, <3>2
  <2>3. Abandoned(lock)'
    BY <1>12, <2>2 DEF PutsBack, Abandoned
  <2> QED
    BY <1>1, <1>3, <1>4, <1>12, <2>3 DEF PutsBack, TypeOK
<1>13. CASE Acquires(p)
  <2>1. \A q \in Process : pc[q] \notin Owning
    BY <1>3, <1>5, <1>13 DEF Acquires, Abandoned
  <2> QED
    BY <1>1, <1>3, <1>4, <1>13, <2>1 DEF Acquires, TypeOK
<1>14. CASE Signs(p)
  BY <1>1, <1>3, <1>4, <1>14 DEF Signs, TypeOK
<1>15. CASE Finishes(p)
  BY <1>1, <1>3, <1>4, <1>15 DEF Finishes, TypeOK
<1> QED
  BY <1>6, <1>7, <1>8, <1>9, <1>10, <1>11, <1>12, <1>13, <1>14, <1>15 DEF LockStep, Takes

\* No lock file loses its contents where it can be read.
LEMMA StepLegible ==
    ASSUME Distinct, TypeOK, OnePlace, Legible, NEW p \in Process, LockStep(p), Marks(p)
    PROVE  Legible'
<1>1. \A q \in Process : q # p => pc'[q] = pc[q] /\ looked'[q] = looked[q]
                                  /\ moved'[q] = moved[q]
  BY Labels
<1> USE DEF Goes, Moves
<1> DEFINE Kept(x) == x \in wrote' \cup unsigned' \/ pc'[x] = "sign"
<1>0. SUFFICES /\ lock' # None => Kept(lock')
               /\ \A q \in Process : pc'[q] \in Moving => Kept(moved'[q])
  BY DEF Legible, Known
<1>2. ASSUME NEW x \in Process, Known(x), x \in wrote => x \in wrote'
      PROVE  Kept(x)
  <2>1. CASE x \in wrote \cup unsigned
    BY <1>2, <2>1 DEF Known, Marks
  <2>2. CASE pc[x] = "sign" /\ x # p
    BY <1>1, <2>2 DEF Known
  <2>3. CASE pc[x] = "sign" /\ x = p /\ pc'[p] # "check"
    BY <2>3 DEF Known, Marks
  <2>4. CASE pc[x] = "sign" /\ x = p /\ pc'[p] = "check"
    <3>1. Signs(p)
      BY <2>4 DEF LockStep, Steps, Judges, FindsNothing, Takes, Clears, Regrets, PutsBack,
                  Acquires, Finishes, Running, Working, Over, TypeOK
    <3> QED
      BY <2>4, <3>1 DEF Known, Signs
  <2> QED
    BY <1>2, <2>1, <2>2, <2>3, <2>4 DEF Known
<1>3. lock \in Process \cup {None} /\ None \notin Process
  BY DEF TypeOK, Distinct
<1>4. \A q \in Process : pc[q] \in Moving => moved[q] \in Process /\ Known(moved[q])
  BY DEF OnePlace, Legible
<1>5. ASSUME wrote \subseteq wrote', lock' \in {lock, None}, UNCHANGED moved,
             pc'[p] \in Moving => pc[p] \in Moving
      PROVE  /\ lock' # None => Kept(lock')
             /\ \A q \in Process : pc'[q] \in Moving => Kept(moved'[q])
  <2>1. lock' # None => Kept(lock')
    BY <1>2, <1>3, <1>5 DEF Legible
  <2>2. ASSUME NEW q \in Process, pc'[q] \in Moving PROVE Kept(moved'[q])
    <3>1. pc[q] \in Moving /\ moved'[q] = moved[q]
      BY <1>1, <1>5, <2>2
    <3> QED
      BY <1>2, <1>4, <1>5, <3>1
  <2> QED
    BY <2>1, <2>2
<1>6. CASE Steps(p)
  <2>1. pc'[p] \in Moving => pc[p] \in Moving
    BY <1>6 DEF Steps, Moving, Running, Working, Over, TypeOK
  <2> QED
    BY <1>5, <1>6, <2>1 DEF Steps, locks
<1>7. CASE Judges(p) \/ FindsNothing(p) \/ Signs(p)
  BY <1>5, <1>7 DEF Judges, FindsNothing, Signs, Moving, TypeOK
<1>8. CASE Regrets(p)
  BY <1>5, <1>8 DEF Regrets, Moving, locks, TypeOK
<1>9. CASE Takes(p)
  <2>1. moved'[p] = lock /\ lock' = None /\ Known(lock) /\ lock \in Process
    BY <1>3, <1>9 DEF Takes, TypeOK, Legible
  <2>2. Kept(lock)
    BY <1>2, <1>9, <2>1 DEF Takes
  <2>3. Kept(moved'[p])
    BY <1>2, <1>9, <2>1 DEF Takes
  <2>4. \A q \in Process : q # p /\ pc'[q] \in Moving => Kept(moved'[q])
    BY <1>1, <1>2, <1>4, <1>9 DEF Takes
  <2> QED
    BY <2>1, <2>3, <2>4
<1>10. CASE Clears(p) \/ Finishes(p)
  <2>1. /\ pc[p] \in Moving /\ pc'[p] \notin Moving /\ UNCHANGED lock
        /\ wrote' = wrote \ {moved[p]}
    BY <1>10 DEF Clears, Finishes, Moving, TypeOK
  <2>2. lock # moved[p]
    BY <2>1 DEF OnePlace
  <2>3. \A q \in Process : q # p /\ pc[q] \in Moving => moved[q] # moved[p]
    BY <2>1 DEF OnePlace
  <2>4. lock # None => Kept(lock)
    BY <1>2, <1>3, <2>1, <2>2 DEF Legible
  <2>5. \A q \in Process : pc'[q] \in Moving => Kept(moved'[q])
    BY <1>1, <1>2, <1>4, <2>1, <2>3
  <2> QED
    BY <2>1, <2>4, <2>5
<1>11. CASE PutsBack(p)
  <2>1. pc[p] \in Moving /\ lock' = moved[p] /\ UNCHANGED <<wrote, moved>>
    BY <1>11 DEF PutsBack, Moving
  <2>2. pc'[p] \notin Moving
    BY <1>11 DEF PutsBack, Moving, TypeOK
  <2>3. Kept(moved[p])
    BY <1>2, <1>4, <2>1
  <2>4. \A q \in Process : pc'[q] \in Moving => Kept(moved'[q])
    BY <1>1, <1>2, <1>4, <2>1, <2>2
  <2> QED
    BY <2>1, <2>3, <2>4
<1>12. CASE Acquires(p)
  <2>1. /\ lock' = p /\ pc'[p] = "sign" /\ pc'[p] \notin Moving
        /\ UNCHANGED <<wrote, moved>>
    BY <1>12 DEF Acquires, Moving, TypeOK
  <2>2. \A q \in Process : pc'[q] \in Moving => Kept(moved'[q])
    BY <1>1, <1>2, <1>4, <2>1
  <2> QED
    BY <2>1, <2>2
<1> QED
  BY <1>6, <1>7, <1>8, <1>9, <1>10, <1>11, <1>12 DEF LockStep

\* The lock at the start: free, or left by a command that was killed.
LEMMA InitLock == Distinct /\ Init => OnePlace /\ Judged /\ Owned /\ Legible
<1> SUFFICES ASSUME Distinct, Init PROVE OnePlace /\ Judged /\ Owned /\ Legible
  OBVIOUS
<1> DEFINE first == CHOOSE p \in Process : TRUE
<1>1. /\ pc = [p \in Process |-> IF p = first THEN "dead" ELSE "idle"]
      /\ (lock = None /\ wrote = {}) \/ (lock = first /\ wrote = {first})
  BY DEF Init
<1> HIDE DEF first
<1>2. looked = [p \in Process |-> None] /\ moved = looked
  BY DEF Init
<1>3. OnePlace
  BY <1>1, <1>2 DEF OnePlace, Early, Moving, Distinct
<1>4. Judged
  BY <1>1, <1>2 DEF Judged
<1>5. Owned
  BY <1>1 DEF Owned, Owning, Working
<1>6. Legible
  BY <1>1 DEF Legible, Known, Moving
<1> QED
  BY <1>3, <1>4, <1>5, <1>6

\* One owner of the lock, unless a recovery took away another one than it judged.
LEMMA OwnedIsOneOwner == Owned => OneOwner
<1> SUFFICES ASSUME Owned, \A p \in Process : ~Misled(p)
             PROVE  ~(Cardinality({p \in Process : pc[p] \in Working}) > 1)
  BY DEF OneOwner
<1> DEFINE S == {p \in Process : pc[p] \in Working}
<1>1. \A p, q \in S : p = q
  BY DEF Owned, Owning
<1> HIDE DEF S
<1>2. CASE S = {}
  <2>1. Cardinality(S) = 0
    BY <1>2, FS_EmptySet
  <2> QED
    BY <2>1 DEF S
<1>3. CASE S # {}
  <2>1. PICK p \in S : TRUE
    BY <1>3
  <2>2. S = {p}
    BY <1>1, <2>1
  <2>3. Cardinality(S) = 1
    BY <2>2, FS_Singleton
  <2> QED
    BY <2>3 DEF S
<1> QED
  BY <1>2, <1>3

-----------------------------------------------------------------------------
(* The directory. *)

\* Nothing but temporary files ever leaves the directory.
Permanent(x) == x \in {"session", "procedure", "result"} \cup Case

\* A step that writes nothing; what was planned is kept or forgotten.
Rests(p) ==
    /\ UNCHANGED <<names, manifest>>
    /\ \A q \in Process : q # p => pc'[q] = pc[q] /\ todo'[q] = todo[q] /\ draft'[q] = draft[q]
    /\ pc'[p] \notin {"write", "rename"}

\* A command knows what it will write.
Plans(p) ==
    /\ names' = names \/ names' = names \ Process
    /\ UNCHANGED manifest
    /\ \A q \in Process : q # p => pc'[q] = pc[q] /\ todo'[q] = todo[q] /\ draft'[q] = draft[q]
    /\ pc'[p] = "write" => Fits(todo'[p], names)
    /\ pc'[p] # "rename"

\* A temporary file is created, with what its name will stand for.
Drafts(p) ==
    /\ names' \in {names, names \cup {p}}
    /\ UNCHANGED <<manifest, todo>>
    /\ \A q \in Process : q # p => pc'[q] = pc[q] /\ draft'[q] = draft[q]
    /\ pc[p] = "write" /\ pc'[p] = "rename"
    /\ Head(todo[p]) \in {"PENDING", "COLLECTED"} =>
          draft'[p].status = Head(todo[p])

\* A file is in its place, or the write was given up.
Places(p) ==
    /\ UNCHANGED draft
    /\ \A q \in Process : q # p => pc'[q] = pc[q] /\ todo'[q] = todo[q]
    /\ \/ pc[p] = "rename" /\ Placed(p, Head(todo[p]))
          /\ pc'[p] \in {"release", IF Len(todo[p]) > 1 THEN "write" ELSE "release"}
       \/ names' = names \ {p} /\ UNCHANGED manifest /\ pc'[p] = "release"

DirStep(p) == Rests(p) \/ Plans(p) \/ Drafts(p) \/ Places(p)

\* What a command plans after its checks fits what it found.
LEMMA WorkPlans ==
    ASSUME Distinct, TypeOK, Shaped, Ordered, NEW p \in Process, Work(p)
    PROVE  Plans(p)
<1>1. pc[p] = "check" /\ UNCHANGED <<draft, manifest>> /\ arg[p] \in Case \cup {None}
  BY DEF Work, TypeOK
<1>2. ASSUME NEW t, Accept(p, t)
      PROVE  /\ \A q \in Process : q # p => pc'[q] = pc[q] /\ todo'[q] = todo[q]
             /\ todo'[p] = t /\ pc'[p] = "write" /\ todo' = [q \in Process |-> todo'[q]]
  BY <1>1, <1>2 DEF Accept, Shaped, TypeOK
<1>3. CASE DoInit(p)
  <2>1. Fits(<<"session", "procedure", "PENDING", "sums">>, names)
    BY DEF Fits
  <2> QED
    BY <1>1, <1>2, <1>3, <2>1 DEF DoInit, Plans
<1>4. CASE DoRecord(p)
  <2>1. /\ Described /\ cmd[p] = "record"
        /\ Accept(p, <<arg[p], "PENDING", "sums">>) /\ names' = names
    BY <1>4 DEF DoRecord, MayRecord
  <2>2. Fits(<<arg[p], "PENDING", "sums">>, names)
    BY <2>1 DEF Fits, Shaped, Described
  <2> QED
    BY <1>1, <1>2, <2>1, <2>2 DEF Plans
<1>5. CASE DoFinalize(p)
  <2>1. Fits(<<"result", "COLLECTED", "sums">>, names)
    BY <1>5 DEF DoFinalize, MayFinalize, Described, Fits
  <2> QED
    BY <1>1, <1>2, <1>5, <2>1 DEF DoFinalize, Plans
<1>6. CASE DoVerify(p) \/ Refuse(p)
  BY <1>1, <1>6 DEF DoVerify, Refuse, Answer, Plans, Shaped, TypeOK
<1>7. CASE DoRecover(p) /\ MayRecover
  <2> DEFINE status == IF "result" \in names THEN "COLLECTED" ELSE "PENDING"
  <2>1. Accept(p, <<status, "sums">>) /\ names' = names \ Process
    BY <1>7 DEF DoRecover
  <2>2. Fits(<<status, "sums">>, names)
    BY <1>7 DEF DoRecover, MayRecover, Described, Fits
  <2> QED
    BY <1>1, <1>2, <2>1, <2>2 DEF Plans
<1>8. CASE DoRecover(p) /\ ~MayRecover
  BY <1>1, <1>8 DEF DoRecover, Answer, Plans, Shaped, TypeOK
<1> QED
  BY <1>3, <1>4, <1>5, <1>6, <1>7, <1>8 DEF Work

\* What a temporary file stands for is known when it is created.
LEMMA OpenDrafts ==
    ASSUME TypeOK, Shaped, NEW p \in Process, Open(p) PROVE Drafts(p)
<1>1. /\ pc[p] = "write" /\ pc'[p] = "rename"
      /\ \A q \in Process : q # p => pc'[q] = pc[q]
      /\ UNCHANGED <<manifest, todo>>
  BY DEF Open, TypeOK
<1>2. names' \in {names, names \cup {p}}
  BY DEF Open
<1>3. \A q \in Process : q # p => draft'[q] = draft[q]
  BY DEF Open, Shaped
<1>4. ASSUME Head(todo[p]) \in {"PENDING", "COLLECTED"}
      PROVE  draft'[p] = [status |-> Head(todo[p]), files |-> names, by |-> p]
  BY <1>4 DEF Open, Shaped
<1>5. ASSUME Head(todo[p]) \in {"PENDING", "COLLECTED"}
      PROVE  draft'[p].status = Head(todo[p])
  BY <1>4, <1>5
<1> QED
  BY <1>1, <1>2, <1>3, <1>5 DEF Drafts

\* Every step is of one of these kinds.
LEMMA ActDirs ==
    ASSUME Distinct, TypeOK, Shaped, Ordered, NEW p \in Process, Act(p)
    PROVE  DirStep(p)
<1>1. ASSUME \/ Start(p) \/ Look(p) \/ Claim(p) \/ Compare(p) \/ PutBack(p) \/ Acquire(p)
             \/ Sign(p) \/ Release(p) \/ CompareOwn(p) \/ Kill(p)
      PROVE  Rests(p)
  <2>1. UNCHANGED <<names, manifest>>
    BY <1>1 DEF Start, Look, Claim, Compare, PutBack, Acquire, Sign, Release, CompareOwn,
                Kill, dirVars
  <2>2. \/ todo' = todo /\ draft' = draft
        \/ todo' = [todo EXCEPT ![p] = <<>>] /\ draft' = [draft EXCEPT ![p] = None]
    BY <1>1 DEF Start, Look, Claim, Compare, PutBack, Acquire, Sign, Release, CompareOwn,
                Kill, Go, End, Gone, procVars
  <2>3. PICK x : pc' = [pc EXCEPT ![p] = x] /\ x \notin {"write", "rename"}
    <3>1. CASE Start(p)
      <4>1. \E c \in Started : pc' = [pc EXCEPT ![p] = IF c = "recover" THEN "look" ELSE "acquire"]
        BY <3>1 DEF Start
      <4>2. \/ pc' = [pc EXCEPT ![p] = "look"]
            \/ pc' = [pc EXCEPT ![p] = "acquire"]
        BY <4>1
      <4> QED
        BY <4>2
    <3>2. CASE ~Start(p)
      BY <1>1, <3>2 DEF Look, Claim, Compare, PutBack, Acquire, Sign, Release, CompareOwn,
                  Kill, Go, End, Gone
    <3> QED
      BY <3>1, <3>2
  <2>4. \A q \in Process : q # p => pc'[q] = pc[q]
    BY <2>3 DEF TypeOK
  <2>5. pc'[p] = x
    BY <2>3 DEF TypeOK
  <2>6. \A q \in Process : q # p => todo'[q] = todo[q] /\ draft'[q] = draft[q]
    BY <2>2 DEF Shaped
  <2> QED
    BY <2>1, <2>3, <2>4, <2>5, <2>6 DEF Rests
<1>2. CASE Rename(p)
  <2>1. /\ pc[p] = "rename" /\ UNCHANGED draft /\ Placed(p, Head(todo[p]))
        /\ pc' = [pc EXCEPT ![p] = IF Len(todo[p]) > 1 THEN "write" ELSE "release"]
    BY <1>2 DEF Rename
  <2>2. todo' = [todo EXCEPT ![p] = Tail(todo[p])]
    BY <2>1 DEF Placed
  <2>3. \A q \in Process : q # p => pc'[q] = pc[q]
    BY <2>1 DEF TypeOK
  <2>4. \A q \in Process : q # p => todo'[q] = todo[q]
    BY <2>2 DEF Shaped
  <2>5. pc'[p] = IF Len(todo[p]) > 1 THEN "write" ELSE "release"
    BY <2>1 DEF TypeOK
  <2> QED
    BY <2>1, <2>3, <2>4, <2>5 DEF Places, DirStep
<1>3. CASE WriteFails(p)
  <2>1. UNCHANGED draft /\ pc' = [pc EXCEPT ![p] = "release"]
    BY <1>3 DEF WriteFails, Answer
  <2>2. /\ \A q \in Process : q # p => pc'[q] = pc[q]
        /\ pc'[p] = "release"
    BY <2>1 DEF TypeOK
  <2>3. CASE names' = names \ {p} /\ UNCHANGED <<manifest, todo>>
    BY <2>1, <2>2, <2>3 DEF Places, DirStep
  <2>4. CASE pc[p] = "rename" /\ Placed(p, Head(todo[p]))
    <3>1. todo' = [todo EXCEPT ![p] = Tail(todo[p])]
      BY <2>4 DEF Placed
    <3>2. \A q \in Process : q # p => todo'[q] = todo[q]
      BY <3>1 DEF Shaped
    <3> QED
      BY <2>1, <2>2, <2>4, <3>2 DEF Places, DirStep
  <2> QED
    BY <1>3, <2>3, <2>4 DEF WriteFails
<1> QED
  BY <1>1, <1>2, <1>3, WorkPlans, OpenDrafts DEF Act, DirStep

\* The plans stay functions of the process, and a case to record is known.
LEMMA ActShaped ==
    ASSUME Distinct, TypeOK, Shaped, NEW p \in Process, Act(p)
    PROVE  /\ Shaped'
           /\ cmd' \in [Process -> Command \cup {None}]
           /\ arg' \in [Process -> Case \cup {None}]
<1>1. \E x : todo' = todo \/ todo' = [todo EXCEPT ![p] = x]
  BY DEF Act, Start, Look, Claim, Compare, PutBack, Acquire, Sign, Release, CompareOwn, Work,
         Open, Rename, WriteFails, Kill, DoInit, DoRecord, DoFinalize, DoVerify, DoRecover,
         Refuse, Accept, Answer, Placed, Go, End, Gone, procVars
<1>2. \E x : draft' = draft \/ draft' = [draft EXCEPT ![p] = x]
  BY DEF Act, Start, Look, Claim, Compare, PutBack, Acquire, Sign, Release, CompareOwn, Work,
         Open, Rename, WriteFails, Kill, Go, End, Gone, procVars
<1>3. todo' = [q \in Process |-> todo'[q]]
  BY <1>1 DEF Shaped
<1>4. draft' = [q \in Process |-> draft'[q]]
  BY <1>2 DEF Shaped
<1>5. \/ UNCHANGED <<cmd, arg>>
      \/ cmd' = [cmd EXCEPT ![p] = None] /\ arg' = [arg EXCEPT ![p] = None]
      \/ \E c \in Started, a \in Case \cup {None} :
            /\ c = "record" <=> a \in Case
            /\ cmd' = [cmd EXCEPT ![p] = c] /\ arg' = [arg EXCEPT ![p] = a]
  <2>1. CASE Start(p)
    BY <2>1 DEF Start
  <2>2. CASE ~Start(p)
    BY <2>2 DEF Act, Look, Claim, Compare, PutBack, Acquire, Sign, Release, CompareOwn, Work,
         Open, Rename, WriteFails, Kill, Go, End, Gone, procVars
  <2> QED
    BY <2>1, <2>2
<1>6. \A q \in Process : cmd'[q] = "record" => arg'[q] \in Case
  <2>1. CASE UNCHANGED <<cmd, arg>>
    BY <2>1 DEF Shaped
  <2>2. CASE cmd' = [cmd EXCEPT ![p] = None] /\ arg' = [arg EXCEPT ![p] = None]
    <3>1. \A q \in Process : cmd'[q] = IF q = p THEN None ELSE cmd[q]
      BY <2>2 DEF TypeOK
    <3>2. \A q \in Process : arg'[q] = IF q = p THEN None ELSE arg[q]
      BY <2>2 DEF TypeOK
    <3>3. None # "record"
      BY DEF Distinct, Command
    <3> QED
      BY <3>1, <3>2, <3>3 DEF Shaped
  <2>3. ASSUME NEW c \in Started, NEW a \in Case \cup {None}, c = "record" <=> a \in Case,
               cmd' = [cmd EXCEPT ![p] = c], arg' = [arg EXCEPT ![p] = a]
        PROVE  \A q \in Process : cmd'[q] = "record" => arg'[q] \in Case
    BY <2>3 DEF Shaped, TypeOK
  <2> QED
    BY <1>5, <2>1, <2>2, <2>3
<1>7. cmd' \in [Process -> Command \cup {None}] /\ arg' \in [Process -> Case \cup {None}]
  <2>1. CASE UNCHANGED <<cmd, arg>>
    BY <2>1 DEF TypeOK
  <2>2. CASE cmd' = [cmd EXCEPT ![p] = None] /\ arg' = [arg EXCEPT ![p] = None]
    BY <2>2 DEF TypeOK
  <2>3. ASSUME NEW c \in Started, NEW a \in Case \cup {None},
               cmd' = [cmd EXCEPT ![p] = c], arg' = [arg EXCEPT ![p] = a]
        PROVE  cmd' \in [Process -> Command \cup {None}] /\ arg' \in [Process -> Case \cup {None}]
    BY <2>3 DEF TypeOK, Distinct
  <2> QED
    BY <1>5, <2>1, <2>2, <2>3
<1> QED
  BY <1>3, <1>4, <1>6, <1>7 DEF Shaped

\* What fits still fits when more files are there.
LEMMA FitsMore ==
    ASSUME NEW t, NEW n, NEW m, Fits(t, n), \A x : Permanent(x) /\ x \in n => x \in m
    PROVE  Fits(t, m)
  BY DEF Fits, Permanent

\* Only a rename brings a file that stays, and none ever goes.
LEMMA OnlyMore ==
    ASSUME Distinct, NEW p \in Process, DirStep(p)
    PROVE  \A x : Permanent(x) /\ x \in names => x \in names'
  BY DEF Distinct, DirStep, Rests, Plans, Drafts, Places, Placed, Permanent

\* The order of the files depends on those that stay.
LEMMA OrderedStays ==
    ASSUME Ordered, manifest' = manifest,
           \A x : Permanent(x) => (x \in names' <=> x \in names)
    PROVE  Ordered'
<1>1. \A c \in Case : c \in names' <=> c \in names
  BY DEF Permanent
<1>2. \A c \in {"session", "procedure", "result"} : c \in names' <=> c \in names
  BY DEF Permanent
<1>3. names' \cap Case = names \cap Case /\ (Case \subseteq names' <=> Case \subseteq names)
  BY <1>1
<1> QED
  BY <1>2, <1>3 DEF Ordered, Described

\* A file in its place leaves the order as it was, and the next write fits.
LEMMA PlacedFits ==
    ASSUME Distinct, TypeOK, Ordered, Planned, NEW p \in Process, pc[p] = "rename",
           Placed(p, Head(todo[p]))
    PROVE  Ordered' /\ (Len(todo[p]) > 1 => Fits(Tail(todo[p]), names'))
<1> DEFINE t == todo[p]
           item == Head(todo[p])
           ready == {"session", "procedure"} \subseteq names
<1>1. Fits(t, names)
  BY DEF Planned
<1>2. /\ names' = (names \ {p}) \cup ({item} \cap File)
      /\ manifest' = IF item \in {"PENDING", "COLLECTED"} THEN draft[p] ELSE manifest
  BY DEF Placed
<1>3. item \in {"PENDING", "COLLECTED"} => draft[p].status = item
  BY DEF Planned
<1>4. \A x : Permanent(x) => (x \in names' <=> x \in names \/ x = item)
  BY <1>2 DEF Permanent, File, Distinct
<1>5. /\ \A c \in Case : c \in names' <=> c \in names \/ c = item
      /\ "session" \in names' <=> "session" \in names \/ item = "session"
      /\ "procedure" \in names' <=> "procedure" \in names \/ item = "procedure"
      /\ "result" \in names' <=> "result" \in names \/ item = "result"
  BY <1>4 DEF Permanent
<1>6. /\ "session" \in names' /\ "procedure" \in names' => Described'
      /\ ready <=> "session" \in names /\ "procedure" \in names
      /\ Described <=> ready
      /\ names' \cap Case # {} => names \cap Case # {} \/ item \in Case
      /\ Case \subseteq names => Case \subseteq names'
  BY <1>5 DEF Described
<1> HIDE DEF t, item, ready
<1>7. /\ t = todo[p] /\ item = Head(t)
  BY DEF t, item
<1>8. CASE t = <<"session", "procedure", "PENDING", "sums">>
  <2>1. item = "session" /\ Tail(t) = <<"procedure", "PENDING", "sums">>
    BY <1>7, <1>8
  <2>2. Fits(Tail(t), names')
    BY <1>5, <2>1 DEF Fits
  <2>3. Ordered'
    BY <1>2, <1>5, <1>6, <2>1 DEF Ordered, Described, Distinct
  <2> QED
    BY <1>7, <2>2, <2>3
<1>9. CASE t = <<"procedure", "PENDING", "sums">> /\ "session" \in names
  <2>1. item = "procedure" /\ Tail(t) = <<"PENDING", "sums">>
    BY <1>7, <1>9
  <2>2. Fits(Tail(t), names')
    BY <1>5, <1>9, <2>1 DEF Fits
  <2>3. Ordered'
    BY <1>2, <1>5, <1>6, <1>9, <2>1 DEF Ordered, Described, Distinct
  <2> QED
    BY <1>7, <2>2, <2>3
<1>10. CASE t = <<"PENDING", "sums">> /\ ready
  <2>1. item = "PENDING" /\ Tail(t) = <<"sums">>
    BY <1>7, <1>10
  <2>2. Fits(Tail(t), names')
    BY <2>1 DEF Fits
  <2>3. manifest' = draft[p] /\ draft[p].status = "PENDING"
    BY <1>2, <1>3, <2>1
  <2>4. Ordered'
    BY <1>5, <1>6, <1>10, <2>1, <2>3 DEF Ordered, Distinct
  <2> QED
    BY <1>7, <2>2, <2>4
<1>11. ASSUME NEW c \in Case, t = <<c, "PENDING", "sums">>, ready
       PROVE  Ordered' /\ Fits(Tail(t), names')
  <2>1. item = c /\ Tail(t) = <<"PENDING", "sums">>
    BY <1>7, <1>11
  <2>2. {"session", "procedure"} \subseteq names'
    BY <1>5, <1>6, <1>11
  <2>3. Fits(Tail(t), names')
    BY <2>1, <2>2 DEF Fits
  <2>4. manifest' = manifest
    BY <1>2, <2>1 DEF Distinct
  <2>5. Ordered'
    BY <1>5, <1>6, <1>11, <2>1, <2>4 DEF Ordered, Distinct
  <2> QED
    BY <2>3, <2>5
<1>12. CASE t = <<"result", "COLLECTED", "sums">> /\ ready /\ Case \subseteq names
  <2>1. item = "result" /\ Tail(t) = <<"COLLECTED", "sums">>
    BY <1>7, <1>12
  <2>2. {"session", "procedure"} \subseteq names' /\ "result" \in names'
    BY <1>5, <1>6, <1>12, <2>1
  <2>3. Fits(Tail(t), names')
    BY <2>1, <2>2 DEF Fits
  <2>4. manifest' = manifest
    BY <1>2, <2>1
  <2>5. Ordered'
    BY <1>5, <1>6, <1>12, <2>1, <2>4 DEF Ordered, Distinct
  <2> QED
    BY <1>7, <2>3, <2>5
<1>13. CASE t = <<"COLLECTED", "sums">> /\ ready /\ "result" \in names
  <2>1. item = "COLLECTED" /\ Tail(t) = <<"sums">>
    BY <1>7, <1>13
  <2>2. Fits(Tail(t), names')
    BY <2>1 DEF Fits
  <2>3. manifest' = draft[p] /\ draft[p].status = "COLLECTED"
    BY <1>2, <1>3, <2>1
  <2>4. Ordered'
    BY <1>5, <1>6, <1>13, <2>1, <2>3 DEF Ordered, Distinct
  <2> QED
    BY <1>7, <2>2, <2>4
<1>14. CASE t = <<"sums">>
  <2>1. item = "sums" /\ Len(t) = 1
    BY <1>7, <1>14
  <2>2. manifest' = manifest
    BY <1>2, <2>1
  <2>3. Ordered'
    BY <1>5, <1>6, <2>1, <2>2 DEF Ordered, Distinct
  <2> QED
    BY <1>7, <2>1, <2>3
<1> QED
  BY <1>1, <1>7, <1>8, <1>9, <1>10, <1>11, <1>12, <1>13, <1>14 DEF Fits, ready

\* Every step leaves the files in an order that can be recovered.
LEMMA StepDir ==
    ASSUME Distinct, TypeOK, Shaped, Ordered, Planned, NEW p \in Process, DirStep(p)
    PROVE  Ordered' /\ Planned'
<1>1. \A x : Permanent(x) /\ x \in names => x \in names'
  BY OnlyMore
<1>2. \A q \in Process : q # p => pc'[q] = pc[q] /\ todo'[q] = todo[q] /\ draft'[q] = draft[q]
  BY DEF DirStep, Rests, Plans, Drafts, Places
<1>3. \A s : Fits(s, names) => Fits(s, names')
  BY <1>1, FitsMore
<1>4. ASSUME NEW q \in Process, q # p
      PROVE  /\ pc'[q] \in {"write", "rename"} => Fits(todo'[q], names')
             /\ pc'[q] = "rename" /\ Head(todo'[q]) \in {"PENDING", "COLLECTED"} =>
                   draft'[q].status = Head(todo'[q])
  BY <1>2, <1>3, <1>4 DEF Planned
<1>5. SUFFICES Ordered'
               /\ (pc'[p] \in {"write", "rename"} => Fits(todo'[p], names'))
               /\ (pc'[p] = "rename" /\ Head(todo'[p]) \in {"PENDING", "COLLECTED"} =>
                     draft'[p].status = Head(todo'[p]))
  BY <1>4 DEF Planned
<1>6. CASE Rests(p)
  <2>1. Ordered'
    BY <1>6, OrderedStays DEF Rests
  <2> QED
    BY <1>6, <2>1 DEF Rests
<1>7. CASE Plans(p)
  <2>1. \A x : Permanent(x) => (x \in names' <=> x \in names)
    BY <1>7 DEF Plans, Permanent, Distinct
  <2>2. Ordered'
    BY <1>7, <2>1, OrderedStays DEF Plans
  <2> QED
    BY <1>3, <1>7, <2>2 DEF Plans
<1>8. CASE Drafts(p)
  <2>1. \A x : Permanent(x) => (x \in names' <=> x \in names)
    BY <1>8 DEF Drafts, Permanent, Distinct
  <2>2. Ordered'
    BY <1>8, <2>1, OrderedStays DEF Drafts
  <2>3. Fits(todo'[p], names')
    BY <1>3, <1>8 DEF Drafts, Planned
  <2> QED
    BY <1>8, <2>2, <2>3 DEF Drafts
<1>9. CASE Places(p) /\ pc[p] = "rename" /\ Placed(p, Head(todo[p]))
           /\ pc'[p] \in {"release", IF Len(todo[p]) > 1 THEN "write" ELSE "release"}
  <2>1. Ordered' /\ (Len(todo[p]) > 1 => Fits(Tail(todo[p]), names'))
    BY <1>9, PlacedFits
  <2>2. pc'[p] = "release" \/ (pc'[p] = "write" /\ Len(todo[p]) > 1)
    BY <1>9
  <2>3. todo'[p] = Tail(todo[p])
    BY <1>9 DEF Placed, Shaped
  <2> QED
    BY <2>1, <2>2, <2>3
<1>10. CASE names' = names \ {p} /\ UNCHANGED manifest /\ pc'[p] = "release"
  <2>1. \A x : Permanent(x) => (x \in names' <=> x \in names)
    BY <1>10 DEF Permanent, Distinct
  <2>2. Ordered'
    BY <1>10, <2>1, OrderedStays
  <2> QED
    BY <1>10, <2>2
<1> QED
  BY <1>6, <1>7, <1>8, <1>9, <1>10 DEF DirStep, Places

-----------------------------------------------------------------------------
(* Theorems. *)

\* An empty, a pending and a collected directory are in order.
LEMMA InitDir == Distinct /\ Init => TypeOK /\ Shaped /\ Ordered /\ Planned
<1> SUFFICES ASSUME Distinct, Init PROVE TypeOK /\ Shaped /\ Ordered /\ Planned
  OBVIOUS
<1> DEFINE first == CHOOSE p \in Process : TRUE
<1>1. /\ pc = [p \in Process |-> IF p = first THEN "dead" ELSE "idle"]
      /\ (lock = None /\ wrote = {}) \/ (lock = first /\ wrote = {first})
  BY DEF Init
<1>2. Process # {} => first \in Process
  OBVIOUS
<1> HIDE DEF first
<1>3. /\ looked = [p \in Process |-> None] /\ moved = looked /\ draft = looked
      /\ cmd = looked /\ arg = looked
      /\ todo = [p \in Process |-> <<>>]
  BY DEF Init
<1>4. names \subseteq File /\ Ordered
  <2>1. CASE Settled({}, None)
    BY <2>1 DEF Settled, Ordered
  <2>2. ASSUME NEW done \in SUBSET Case, Settled({"session", "procedure"} \cup done, "PENDING")
        PROVE  names \subseteq File /\ Ordered
    <3>1. /\ names = {"session", "procedure"} \cup done
          /\ manifest.status = "PENDING"
      BY <2>2 DEF Settled
    <3>2. "result" \notin names
      BY <3>1 DEF Distinct
    <3> QED
      BY <3>1, <3>2 DEF Ordered, Described, File
  <2>3. CASE Settled({"session", "procedure", "result"} \cup Case, "COLLECTED")
    BY <2>3 DEF Settled, Ordered, Described, File
  <2> QED
    BY <2>1, <2>2, <2>3 DEF Init
<1>5. TypeOK
  <2>1. Process # {}
    BY DEF Distinct
  <2>2. /\ lock \in Process \cup {None} /\ wrote \subseteq Process
        /\ unsigned \subseteq Process
    BY <1>1, <1>2, <2>1 DEF Init
  <2> QED
    BY <1>1, <1>3, <1>4, <2>2 DEF TypeOK
<1>6. Shaped
  BY <1>3 DEF Shaped, Distinct, Command
<1>7. Planned
  BY <1>1 DEF Planned
<1> QED
  BY <1>4, <1>5, <1>6, <1>7

\* The initial states satisfy it.
LEMMA IInit == Distinct /\ Init => IInv
  BY InitLock, InitDir DEF IInv

\* A step keeps the types, the places of the lock files and the order of the files.
LEMMA INext == Distinct /\ IInv /\ [Next]_vars => IInv'
<1> SUFFICES ASSUME Distinct, IInv, [Next]_vars PROVE IInv'
  OBVIOUS
<1>1. ASSUME NEW p \in Process, Act(p) PROVE IInv'
  <2>1. LockStep(p) /\ Marks(p) /\ DirStep(p)
    BY <1>1, ActLocks, ActMarks, ActDirs DEF IInv
  <2>2. /\ pc' \in [Process -> Running \cup {"idle", "done", "dead"}]
        /\ lock' \in Process \cup {None} /\ wrote' \subseteq Process
        /\ looked' \in [Process -> Process \cup {None}]
        /\ moved' \in [Process -> Process \cup {None}]
        /\ unsigned' \subseteq Process
    BY <2>1, LockTypes DEF IInv, TypeOK, Marks
  <2>3. /\ Shaped'
        /\ cmd' \in [Process -> Command \cup {None}]
        /\ arg' \in [Process -> Case \cup {None}]
    BY <1>1, ActShaped DEF IInv
  <2>4. names' \subseteq File
    BY <2>1 DEF DirStep, Rests, Plans, Drafts, Places, Placed, IInv, TypeOK, File
  <2>5. TypeOK'
    BY <2>2, <2>3, <2>4 DEF TypeOK
  <2>6. OnePlace' /\ Judged' /\ Owned' /\ Legible'
    BY <2>1, StepOnePlace, StepJudged, StepOwned, StepLegible DEF IInv
  <2>7. Ordered' /\ Planned'
    BY <2>1, StepDir DEF IInv
  <2> QED
    BY <2>3, <2>5, <2>6, <2>7 DEF IInv
<1>2. CASE UNCHANGED vars
  BY <1>2 DEF vars, IInv, TypeOK, OnePlace, Judged, Owned, Misled, Abandoned, Legible, Known, Shaped, Ordered,
              Described, Planned
<1>3. Next => \E p \in Process : Act(p)
  BY DEF Next, Act
<1> QED
  BY <1>1, <1>2, <1>3

\* The order of the files is all that a recovery needs of the directory.
LEMMA OrderedIsEnough ==
    ASSUME TypeOK, Ordered, ~MayRecover
    PROVE  names \subseteq {"session"} \cup Process /\ manifest = None
<1>1. ~Described
  BY DEF MayRecover, Ordered
<1>2. manifest = None /\ "result" \notin names /\ names \cap Case = {}
  BY <1>1 DEF Ordered
<1>3. "procedure" \notin names
  BY <1>1 DEF Ordered, Described
<1> QED
  BY <1>2, <1>3 DEF TypeOK, File

\* When all have ended, a lock that is left has its contents or will never have.
LEMMA IInvIsRecoverable == IInv => Recoverable
<1> SUFFICES ASSUME IInv, \A p \in Process : pc[p] \notin Running
             PROVE  /\ Clearable \/ lock \in unsigned
                    /\ \/ MayRecover
                       \/ names \subseteq {"session"} \cup Process /\ manifest = None
  BY DEF Recoverable
<1>1. ASSUME lock # None PROVE lock \in wrote \cup unsigned /\ pc[lock] \notin Running
  <2>1. lock \in Process /\ Known(lock)
    BY <1>1 DEF IInv, TypeOK, Legible
  <2>2. pc[lock] # "sign"
    BY <2>1 DEF Running
  <2> QED
    BY <2>1, <2>2 DEF Known
<1> QED
  BY <1>1, OrderedIsEnough DEF IInv, Clearable

\* The invariant the other theorems follow from.
THEOREM InductiveInvariant == Distinct => (Spec => []IInv)
<1> SUFFICES ASSUME Distinct PROVE Spec => []IInv
  OBVIOUS
<1> QED
  BY IInit, INext, PTL DEF Spec

\* Every variable stays in its type.
THEOREM TypeCorrect == Distinct => (Spec => []TypeOK)
<1> SUFFICES ASSUME Distinct PROVE Spec => []TypeOK
  OBVIOUS
<1>1. IInv => TypeOK
  BY DEF IInv
<1> QED
  BY <1>1, InductiveInvariant, PTL

\* withSessionLock and clearDeadSessionLock: two commands are inside the lock at
\* once only if a recovery took away another lock than it had judged, whichever
\* commands are killed, wherever.
THEOREM OneOwnerKept == Distinct => (Spec => []OneOwner)
<1> SUFFICES ASSUME Distinct PROVE Spec => []OneOwner
  OBVIOUS
<1>1. IInv => OneOwner
  BY OwnedIsOneOwner DEF IInv
<1> QED
  BY <1>1, InductiveInvariant, PTL

\* writeProtected, writeManifest, withSessionLock and the two functions of recover:
\* whatever was killed or failed, even when two commands were at work, the directory
\* that is left can be recovered and the lock that is left is taken away, unless its
\* command stopped between creating the lock and having written it.
THEOREM LeftRecoverable == Distinct => (Spec => []Recoverable)
<1> SUFFICES ASSUME Distinct PROVE Spec => []Recoverable
  OBVIOUS
<1>1. IInv => Recoverable
  BY IInvIsRecoverable
<1> QED
  BY <1>1, InductiveInvariant, PTL
=============================================================================
