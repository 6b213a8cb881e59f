-------------------------- MODULE ValidationSession --------------------------
(***************************************************************************)
(* apps/cli/validate-external-ros2.ts: the directory in which the commands *)
(* init, record, finalize, verify and recover collect a validation, and    *)
(* the lock file beside it.  Every command is a process of its own: it     *)
(* creates the lock, works, writes each file to a temporary name and       *)
(* renames it, and takes the lock away again.  Between any two steps the   *)
(* process may be killed, a write may fail, and other commands may run.    *)
(*                                                                         *)
(* Abstractions.  A file stands for its contents; what a recorded case     *)
(* proves is the subject of ValidationCases.  The checks of one command    *)
(* on the directory are one step.  The staging directory of record is      *)
(* outside the session: it matters only as the thing that is renamed.      *)
(* Process identifiers are not reused.                                     *)
(***************************************************************************)
EXTENDS Integers, Sequences, FiniteSets

CONSTANTS
    Process,        \* bound: the commands that are ever started
    Case,           \* the required cases
    Started,        \* bound: which commands they are
    None            \* no lock, no manifest

Command == {"init", "record", "finalize", "verify", "recover"}

\* What a manifest can list; a temporary file bears its writer's name.
File == {"session", "procedure", "result"} \cup Case \cup Process

\* What the theorems assume of the constants: there are processes, of the five
\* commands, and the names of processes, cases and files are told apart.
Distinct ==
    /\ Process # {} /\ Started \subseteq Command
    /\ None \notin Process \cup Case \cup Command
    /\ "empty" \notin Process \cup {None}
    /\ Case \cap {"session", "procedure", "result", "PENDING", "COLLECTED", "sums"} = {}
    /\ Process \cap ({"session", "procedure", "result"} \cup Case) = {}

VARIABLES
    pc, cmd, arg,   \* per process: where it is, its command and case
    lock, wrote,    \* whose lock file is in place; the lock files with contents
    unsigned,       \* history: who created its lock and was killed, or failed,
                    \* before the contents were written
    looked, moved,  \* per process: the lock it read, the one it renamed
    todo, draft,    \* per process: the writes to come, the listing it made
    names,          \* the files of the directory but manifest and checksums
    manifest, sums  \* those two

vars == <<pc, cmd, arg, lock, wrote, unsigned, looked, moved, todo, draft,
          names, manifest, sums>>
procVars == <<cmd, arg, todo, draft>>
lockVars == <<lock, wrote, unsigned, looked, moved>>
dirVars == <<names, manifest, sums>>

Working == {"check", "write", "rename"}      \* inside operation()
Running == Working \cup {"look", "claim", "compare", "put_back", "acquire", "sign",
                         "release", "compare_own", "put_back_own"}

Bytes(p) == IF p \in wrote THEN p ELSE "empty"
Cases == names \cap Case
Temporary == names \cap Process

-----------------------------------------------------------------------------
(* withSessionLock and clearDeadSessionLock                                 *)

\* A process that has ended, or was killed, is forgotten, but not the lock
\* it holds or has renamed.
Gone(p, how) ==
    /\ pc' = [pc EXCEPT ![p] = how]
    /\ cmd' = [cmd EXCEPT ![p] = None]
    /\ arg' = [arg EXCEPT ![p] = None]
    /\ todo' = [todo EXCEPT ![p] = <<>>]
    /\ draft' = [draft EXCEPT ![p] = None]

End(p) == Gone(p, "done")
Go(p, to) == pc' = [pc EXCEPT ![p] = to] /\ UNCHANGED procVars

\* Commands that have not started are alike: any of them may be the next.
NextToStart == CHOOSE q \in Process : pc[q] = "idle"

\* recover looks at the lock first, every other command creates its own.
Start(p) ==
    /\ pc[p] = "idle" /\ p = NextToStart
    /\ \E c \in Started, a \in Case \cup {None} :
          /\ c = "record" <=> a \in Case
          /\ cmd' = [cmd EXCEPT ![p] = c]
          /\ arg' = [arg EXCEPT ![p] = a]
          /\ pc' = [pc EXCEPT ![p] = IF c = "recover" THEN "look" ELSE "acquire"]
    /\ UNCHANGED <<todo, draft, lockVars, dirVars>>

\* No lock: nothing to clear.  The bytes of a lock whose process is gone are
\* remembered; any other lock ends the command.
Look(p) ==
    /\ pc[p] = "look"
    /\ \/ /\ lock = None
          /\ Go(p, "acquire")
          /\ UNCHANGED looked
       \/ /\ lock # None
          /\ lock \in wrote /\ pc[lock] \notin Running
          /\ looked' = [looked EXCEPT ![p] = Bytes(lock)]
          /\ Go(p, "claim")
       \/ /\ lock # None
          /\ lock \notin wrote \/ pc[lock] \in Running
          /\ End(p)
          /\ UNCHANGED looked
    /\ UNCHANGED <<lock, wrote, unsigned, moved, dirVars>>

\* fault: the lock is removed under its own name, whoever's it is by now
ClaimBlindly(p) ==
    /\ pc[p] = "claim"
    /\ lock' = None
    /\ Go(p, "acquire")
    /\ UNCHANGED <<wrote, unsigned, looked, moved, dirVars>>

\* Whatever lock is in place now is renamed to a name of its own.
Claim(p) ==
    /\ pc[p] = "claim"
    /\ IF lock = None
       THEN /\ End(p)
            /\ looked' = [looked EXCEPT ![p] = None]
            /\ UNCHANGED <<lock, moved>>
       ELSE /\ moved' = [moved EXCEPT ![p] = lock]
            /\ lock' = None
            /\ Go(p, "compare")
            /\ UNCHANGED looked
    /\ UNCHANGED <<wrote, unsigned, dirVars>>

\* The lock that was read is removed; another one goes back, if its name is
\* still free.
Compare(p) ==
    /\ pc[p] = "compare"
    /\ \/ /\ Bytes(moved[p]) = looked[p]
          /\ wrote' = wrote \ {moved[p]}
          /\ moved' = [moved EXCEPT ![p] = None]
          /\ looked' = [looked EXCEPT ![p] = None]
          /\ Go(p, "acquire")
       \/ /\ Bytes(moved[p]) # looked[p] /\ lock = None
          /\ Go(p, "put_back")
          /\ UNCHANGED <<wrote, moved, looked>>
       \/ /\ Bytes(moved[p]) # looked[p] /\ lock # None
          /\ End(p)
          /\ UNCHANGED <<wrote, moved, looked>>
    /\ UNCHANGED <<lock, unsigned, dirVars>>

\* renameSync replaces a lock that was created since the name was found free.
PutBack(p) ==
    /\ pc[p] \in {"put_back", "put_back_own"}
    /\ lock' = moved[p]
    /\ End(p)
    /\ UNCHANGED <<wrote, unsigned, looked, moved, dirVars>>

Acquire(p) ==
    /\ pc[p] = "acquire"
    /\ IF lock = None
       THEN /\ lock' = p
            /\ Go(p, "sign")
       ELSE End(p) /\ UNCHANGED lock
    /\ UNCHANGED <<wrote, unsigned, looked, moved, dirVars>>

\* The contents of the lock are written, or the write fails.
Sign(p) ==
    /\ pc[p] = "sign"
    /\ \/ /\ wrote' = wrote \cup {p}
          /\ Go(p, "check")
          /\ UNCHANGED unsigned
       \/ /\ unsigned' = unsigned \cup {p}
          /\ Go(p, "release")
          /\ UNCHANGED wrote
    /\ UNCHANGED <<lock, looked, moved, dirVars>>

\* finally: rename, compare, remove.  A missing lock ends the command.
Release(p) ==
    /\ pc[p] = "release"
    /\ IF lock = None
       THEN End(p) /\ UNCHANGED <<lock, moved>>
       ELSE /\ moved' = [moved EXCEPT ![p] = lock]
            /\ lock' = None
            /\ Go(p, "compare_own")
    /\ UNCHANGED <<wrote, unsigned, looked, dirVars>>

CompareOwn(p) ==
    /\ pc[p] = "compare_own"
    /\ \/ /\ Bytes(moved[p]) = p
          /\ wrote' = wrote \ {p}
          /\ moved' = [moved EXCEPT ![p] = None]
          /\ End(p)
       \/ /\ Bytes(moved[p]) # p /\ lock = None
          /\ Go(p, "put_back_own")
          /\ UNCHANGED <<wrote, moved>>
       \/ /\ Bytes(moved[p]) # p /\ lock # None
          /\ End(p)
          /\ UNCHANGED <<wrote, moved>>
    /\ UNCHANGED <<lock, unsigned, looked, dirVars>>

-----------------------------------------------------------------------------
(* The commands                                                             *)

Described == {"session", "procedure"} \subseteq names

\* readVerifiedManifest: the status, the files there are, the checksums.
Verified(status) ==
    /\ manifest # None
    /\ manifest.status = status /\ manifest.files = names
    /\ sums = [files |-> manifest.files, of |-> manifest]

MayInit == names = {} /\ manifest = None /\ sums = None
MayRecord(p) == Verified("PENDING") /\ Described /\ arg[p] \notin names
MayFinalize == Verified("PENDING") /\ Described /\ Case \subseteq names
MayVerify == Verified("COLLECTED") /\ Described /\ Case \cup {"result"} \subseteq names

\* recoverIncompleteSession: a result needs all its cases, a manifest that
\* says COLLECTED needs the result; the old manifest may be missing.
MayRecover ==
    /\ Described
    /\ "result" \in names => Case \subseteq names
    /\ manifest # None /\ manifest.status = "COLLECTED" => "result" \in names

\* The work of a command is accepted: what it will write is known.
Accept(p, writes) ==
    /\ todo' = [todo EXCEPT ![p] = writes]
    /\ pc' = [pc EXCEPT ![p] = "write"]

\* The command says how it ended and gives its lock back.
Answer(p) == pc' = [pc EXCEPT ![p] = "release"]

DoInit(p) ==
    /\ cmd[p] = "init" /\ MayInit
    /\ Accept(p, <<"session", "procedure", "PENDING", "sums">>)
    /\ UNCHANGED names

DoRecord(p) ==
    /\ cmd[p] = "record" /\ MayRecord(p)
    /\ Accept(p, <<arg[p], "PENDING", "sums">>)
    /\ UNCHANGED names

\* fault: the manifest is written before the result it describes
FinalizeManifestFirst(p) ==
    /\ cmd[p] = "finalize" /\ MayFinalize
    /\ Accept(p, <<"COLLECTED", "sums", "result">>)
    /\ UNCHANGED names

DoFinalize(p) ==
    /\ cmd[p] = "finalize" /\ MayFinalize
    /\ Accept(p, <<"result", "COLLECTED", "sums">>)
    /\ UNCHANGED names

DoVerify(p) ==
    /\ cmd[p] = "verify" /\ MayVerify
    /\ Answer(p)
    /\ UNCHANGED <<names, todo>>

\* The temporary files of interrupted writes are removed, then all is judged.
DoRecover(p) ==
    /\ cmd[p] = "recover" /\ Described
    /\ names' = names \ Process
    /\ IF MayRecover
       THEN Accept(p, <<IF "result" \in names THEN "COLLECTED" ELSE "PENDING", "sums">>)
       ELSE Answer(p) /\ UNCHANGED todo

\* A command refuses what it finds; record and finalize also when the
\* evidence they are given does not hold together.
Refuse(p) ==
    /\ \/ cmd[p] = "init" /\ ~MayInit
       \/ cmd[p] \in {"record", "finalize"}
       \/ cmd[p] = "verify" /\ ~MayVerify
       \/ cmd[p] = "recover" /\ ~Described
    /\ Answer(p)
    /\ UNCHANGED <<names, todo>>

Work(p) ==
    /\ pc[p] = "check"
    /\ \/ DoInit(p)
       \/ DoRecord(p)
       \/ DoFinalize(p)
       \/ DoVerify(p)
       \/ DoRecover(p)
       \/ Refuse(p)
    /\ UNCHANGED <<cmd, arg, lockVars, draft, manifest, sums>>

-----------------------------------------------------------------------------
(* writeProtected and writeManifest                                         *)

\* The temporary file is created; that of a case is in the staging directory.
\* A manifest lists the files there are before, the checksums the manifest
\* in place with the listing of this process.
Open(p) ==
    /\ pc[p] = "write"
    /\ LET item == Head(todo[p]) IN
       /\ names' = IF item \in Case THEN names ELSE names \cup {p}
       /\ draft' = [draft EXCEPT ![p] =
             CASE item \in {"PENDING", "COLLECTED"} ->
                     [status |-> item, files |-> names, by |-> p]
               [] item = "sums" -> [files |-> draft[p].files, of |-> manifest]
               [] OTHER -> None]
    /\ pc' = [pc EXCEPT ![p] = "rename"]
    /\ UNCHANGED <<cmd, arg, lockVars, todo, manifest, sums>>

\* The rename puts the file in its place, unless the temporary file was
\* removed or the case is there.
Placed(p, item) ==
    /\ IF item \in Case THEN item \notin names ELSE p \in names
    /\ names' = (names \ {p}) \cup ({item} \cap File)
    /\ manifest' = IF item \in {"PENDING", "COLLECTED"} THEN draft[p] ELSE manifest
    /\ sums' = IF item = "sums" THEN draft[p] ELSE sums
    /\ todo' = [todo EXCEPT ![p] = Tail(@)]

Rename(p) ==
    /\ pc[p] = "rename"
    /\ Placed(p, Head(todo[p]))
    /\ pc' = [pc EXCEPT ![p] = IF Len(todo[p]) > 1 THEN "write" ELSE "release"]
    /\ UNCHANGED <<cmd, arg, lockVars, draft>>

\* A write fails before its rename, or when the directory is synchronised.
WriteFails(p) ==
    /\ pc[p] \in {"write", "rename"}
    /\ \/ /\ names' = names \ {p}
          /\ UNCHANGED <<manifest, sums, todo>>
       \/ pc[p] = "rename" /\ Placed(p, Head(todo[p]))
    /\ Answer(p)
    /\ UNCHANGED <<cmd, arg, lockVars, draft>>

Kill(p) ==
    /\ pc[p] \in Running
    /\ Gone(p, "dead")
    /\ unsigned' = IF pc[p] = "sign" THEN unsigned \cup {p} ELSE unsigned
    /\ UNCHANGED <<lock, wrote, looked, moved, dirVars>>

-----------------------------------------------------------------------------
\* A settled directory: none, pending with some cases, or collected.
Settled(files, status) ==
    /\ names = files
    /\ manifest = IF files = {} THEN None
                  ELSE [status |-> status, files |-> files, by |-> None]
    /\ sums = IF files = {} THEN None ELSE [files |-> files, of |-> manifest]

\* The first command was killed before it changed anything, inside its lock
\* or after it.
Init ==
    /\ LET first == CHOOSE p \in Process : TRUE IN
          /\ pc = [p \in Process |-> IF p = first THEN "dead" ELSE "idle"]
          /\ \/ lock = None /\ wrote = {}
             \/ lock = first /\ wrote = {first}
    /\ unsigned = {}
    /\ looked = [p \in Process |-> None] /\ moved = looked /\ draft = looked
    /\ cmd = looked /\ arg = looked
    /\ todo = [p \in Process |-> <<>>]
    /\ \/ Settled({}, None)
       \/ \E done \in SUBSET Case :
             Settled({"session", "procedure"} \cup done, "PENDING")
       \/ Settled({"session", "procedure", "result"} \cup Case, "COLLECTED")

Next == \E p \in Process :
    \/ Start(p) \/ Look(p) \/ Claim(p) \/ Compare(p) \/ PutBack(p)
    \/ Acquire(p) \/ Sign(p) \/ Release(p) \/ CompareOwn(p)
    \/ Work(p) \/ Open(p) \/ Rename(p) \/ WriteFails(p) \/ Kill(p)

Spec == Init /\ [][Next]_vars

-----------------------------------------------------------------------------
(* Properties                                                               *)

TypeOK ==
    /\ pc \in [Process -> Running \cup {"idle", "done", "dead"}]
    /\ cmd \in [Process -> Command \cup {None}] /\ arg \in [Process -> Case \cup {None}]
    /\ lock \in Process \cup {None} /\ wrote \subseteq Process
    /\ unsigned \subseteq Process
    /\ looked \in [Process -> Process \cup {None}]
    /\ moved \in [Process -> Process \cup {None}]
    /\ names \subseteq File

\* A recovery that took away another lock than the one it had judged stale.
Misled(p) == looked[p] # None /\ moved[p] \notin {None, looked[p]}

\* Two commands work in one directory at the same time only if a recovery
\* took away a lock that had changed since it was read (the case that
\* clearDeadSessionLock tells apart and reports).
OneOwner ==
    Cardinality({p \in Process : pc[p] \in Working}) > 1 => \E p \in Process : Misled(p)

\* A lock that does not stop recover.
Clearable == lock = None \/ (lock \in wrote /\ pc[lock] \notin Running)

\* Wherever commands were killed or failed, recover finds its way when all have
\* ended.  The lock it finds is one it takes away, but for one case: a command
\* killed or failing between the creation of its lock and the end of writing it
\* leaves a lock that no recover takes away (lines 478-487, 520-526).  And the
\* directory can be recovered: only an init that never wrote its procedure
\* cannot, and it holds nothing.
Recoverable ==
    (\A p \in Process : pc[p] \notin Running) =>
        /\ Clearable \/ lock \in unsigned
        /\ \/ MayRecover
           \/ names \subseteq {"session"} \cup Process /\ manifest = None

\* docs/EXTERNAL_ROS2_SHADOW_VALIDATION.md:430-431, "recover repairs ... a dead
\* collector lock": recover is refused no lock but that of a process that runs.
DeadLockRepaired ==
    [][\A p \in Process :
          pc[p] = "look" /\ pc'[p] = "done" => lock # None /\ pc[lock] \in Running]_vars

=============================================================================
