------------------------------ MODULE Installer ------------------------------
(***************************************************************************)
(* packaging/install.sh: one runtime version is installed into its         *)
(* directory, four registrations are made to point at it, and a failed     *)
(* command undoes what was done.  A kill may come between any two          *)
(* commands, and during a removal; the script can be run again.            *)
(*                                                                         *)
(* Abstractions.  Checks of the platform, the download and its checksum    *)
(* come before anything is touched.  A signal the script traps makes the   *)
(* current command fail and lets the script go on (the trap of line 35     *)
(* does not exit); only a kill stops it.  A snapshot and a registration    *)
(* are one command each.  The read of a kind in restore_path works.  Two   *)
(* installers at the same time are not modelled.                           *)
(***************************************************************************)
EXTENDS Integers, Sequences, FiniteSets

CONSTANTS
    MaxFailures,    \* bound: kinds of commands that fail in one run
    MaxRuns         \* bound: runs of the script

\* What the theorems assume of the bounds.
Bounds == MaxFailures \in Nat /\ MaxRuns \in Nat

Registrations == <<"cli", "uninstall", "pth", "pth_path">>
Registration == {Registrations[n] : n \in 1 .. Len(Registrations)}
Links == {"cli", "uninstall"}           \* made by ln, the others by printf

\* A directory holds the tree that run n unpacked (0: an earlier one), what a
\* removal left of a tree, or nothing.
Absent == -1
Damaged == -2
Tree == {Absent, Damaged} \cup 0 .. MaxRuns

\* What a registration says: this version, something else, or half a line.
Entry == {"absent", "this", "other", "torn"}

Commands == {"prepare", "stage", "snapshot", "set_aside", "activate", "register",
             "verify", "remove", "restore", "put_back"}

VARIABLES
    version, staged, rollback,  \* VERSION_ROOT, VERSION_ROOT.new, ROLLBACK_ROOT
    registered,                 \* the registrations
    site,                       \* PYTHON_SITE exists
    backup, saved,              \* BACKUP_ROOT exists; the snapshots in it
    phase, at,                  \* progress of the script
    undoing,                    \* activate_install has failed
    hadPrevious, siteExisted,   \* the script's variables
    said,                       \* how the last run ended
    run,                        \* runs so far
    failed,                     \* commands that failed in this run
    before                      \* what the last settled state was

trees == <<version, staged, rollback>>
copies == <<backup, saved>>
script == <<undoing, hadPrevious, siteExisted>>
vars == <<trees, registered, site, copies, phase, at, script, said, run, failed, before>>

Phases == {"idle", "prepare", "stage", "snapshot", "set_aside", "activate",
           "register", "verify", "undo", "discard", "put_back", "forget"}

Nothing == [r \in Registration |-> "none"]
RecoveryPaths == rollback # Absent \/ backup
Installation == [version |-> version, registered |-> registered, site |-> site]

TypeOK ==
    /\ version \in Tree /\ staged \in Tree /\ rollback \in Tree
    /\ registered \in [Registration -> Entry]
    /\ site \in BOOLEAN /\ backup \in BOOLEAN
    /\ saved \in [Registration -> Entry \cup {"none"}]
    /\ phase \in Phases /\ at \in 1 .. Len(Registrations)
    /\ undoing \in BOOLEAN /\ hadPrevious \in BOOLEAN /\ siteExisted \in BOOLEAN
    /\ said \in {"nothing", "refused", "failed", "installed", "restored",
                 "incomplete", "killed"}
    /\ run \in 0 .. MaxRuns
    /\ failed \subseteq Commands /\ Cardinality(failed) <= MaxFailures
    /\ before \in [version : Tree, registered : [Registration -> Entry], site : BOOLEAN]

\* This version, another one or none is installed, by hand in part perhaps.
Init ==
    /\ version \in {Absent, 0} /\ staged = Absent /\ rollback = Absent
    /\ registered \in {f \in [Registration -> {"absent", "this", "other"}] :
                         \A l \in Links : f[l] = f["cli"]}
    /\ site \in BOOLEAN /\ (registered["pth"] # "absent" => site)
    /\ backup = FALSE /\ saved = Nothing
    /\ phase = "idle" /\ at = 1
    /\ undoing = FALSE /\ hadPrevious = FALSE /\ siteExisted = FALSE
    /\ said = "nothing" /\ run = 0 /\ failed = {}
    /\ before = Installation

-----------------------------------------------------------------------------

Works == UNCHANGED failed
Fails(command) ==
    /\ Cardinality(failed) < MaxFailures
    /\ command \notin failed
    /\ failed' = failed \cup {command}

GoTo(p) == phase' = p /\ UNCHANGED <<said, at>>
Exit(message) == phase' = "idle" /\ said' = message /\ at' = 1

\* activate_install returns 1: rollback_install begins with the last
\* registration.
AllButLast == Len(Registrations) - 1                            \* fault
FirstToUndo == Len(Registrations)
UndoAll ==
    /\ phase' = "undo" /\ at' = FirstToUndo
    /\ undoing' = TRUE
    /\ UNCHANGED <<said, hadPrevious, siteExisted>>

\* rm -rf takes its time: a kill may find half of the tree.
Shrunk(tree) == IF tree \in {Absent, Damaged} THEN Absent ELSE Damaged

OneMore(n) == n > Len(Registrations)                            \* fault
Last(n) == n = Len(Registrations)

-----------------------------------------------------------------------------
(* Before the activation: set -e ends the script at the first failure. *)

OnlyRollback == rollback # Absent                               \* fault
UnfinishedRecovery == rollback # Absent \/ backup

Start ==
    /\ phase = "idle" /\ run < MaxRuns
    /\ run' = run + 1
    /\ before' = IF RecoveryPaths THEN before ELSE Installation
    /\ \/ /\ UnfinishedRecovery
          /\ said' = "refused"
          /\ UNCHANGED <<phase, failed>>
       \/ /\ ~UnfinishedRecovery
          /\ phase' = "prepare" /\ said' = "nothing" /\ failed' = {}
    /\ UNCHANGED <<trees, registered, site, copies, at, script>>

Prepare ==
    /\ phase = "prepare"
    /\ \/ /\ Works /\ GoTo("stage")
          /\ backup' = TRUE /\ staged' = Absent
       \/ /\ Fails("prepare") /\ Exit("failed")
          /\ backup' \in BOOLEAN /\ UNCHANGED staged
    /\ UNCHANGED <<version, rollback, registered, site, saved, script, run, before>>

Stage ==
    /\ phase = "stage"
    /\ \/ Works /\ GoTo("snapshot") /\ staged' = run
       \/ Fails("stage") /\ Exit("failed") /\ staged' \in {Absent, Damaged}
    /\ UNCHANGED <<version, rollback, registered, site, copies, script, run, before>>

Snapshot ==
    /\ phase = "snapshot"
    /\ LET r == Registrations[at]
       IN \/ /\ Works
             /\ saved' = [saved EXCEPT ![r] = registered[r]]
             /\ phase' = IF Last(at) THEN "set_aside" ELSE phase
             /\ at' = IF Last(at) THEN 1 ELSE at + 1
             /\ UNCHANGED said
          \/ Fails("snapshot") /\ Exit("failed") /\ UNCHANGED saved
    /\ siteExisted' = site
    /\ hadPrevious' = FALSE /\ undoing' = FALSE
    /\ UNCHANGED <<trees, registered, site, backup, run, before>>

-----------------------------------------------------------------------------
(* activate_install *)

SetAside ==
    /\ phase = "set_aside"
    /\ \/ /\ version = Absent
          /\ Works /\ GoTo("activate") /\ UNCHANGED <<trees, script>>
       \/ /\ version # Absent
          /\ Works /\ GoTo("activate")
          /\ rollback' = version /\ version' = Absent
          /\ hadPrevious' = TRUE
          /\ UNCHANGED <<staged, undoing, siteExisted>>
       \/ /\ version # Absent
          /\ Fails("set_aside") /\ UndoAll /\ UNCHANGED trees
    /\ UNCHANGED <<registered, site, copies, run, before>>

Activate ==
    /\ phase = "activate"
    /\ \/ /\ Works /\ GoTo("register")
          /\ version' = staged /\ staged' = Absent
          /\ UNCHANGED <<rollback, script>>
       \/ Fails("activate") /\ UndoAll /\ UNCHANGED trees
    /\ UNCHANGED <<registered, site, copies, run, before>>

\* A printf that fails has emptied its file.
Register ==
    /\ phase = "register"
    /\ LET r == Registrations[at]
       IN \/ /\ Works
             /\ registered' = [registered EXCEPT ![r] = "this"]
             /\ site' = (site \/ r = "pth")
             /\ phase' = IF Last(at) THEN "verify" ELSE phase
             /\ at' = IF Last(at) THEN 1 ELSE at + 1
             /\ UNCHANGED <<said, script>>
          \/ /\ Fails("register") /\ UndoAll
             /\ \/ UNCHANGED registered /\ UNCHANGED site
                \/ /\ r \notin Links
                   /\ registered' = [registered EXCEPT ![r] = "torn"]
                   /\ site' = TRUE
    /\ UNCHANGED <<trees, copies, run, before>>

Verify ==
    /\ phase = "verify"
    /\ \/ Works /\ GoTo("forget") /\ UNCHANGED script
       \/ Fails("verify") /\ UndoAll
    /\ UNCHANGED <<trees, registered, site, copies, run, before>>

-----------------------------------------------------------------------------
(* rollback_install: runs as a condition, where set -e has no effect, so a   *)
(* failing rm is passed over.                                                *)

\* restore_path.  Without its rm, a link cannot be made, a file is written
\* over, and what should be absent stays.
Undo ==
    /\ phase = "undo"
    /\ LET r == Registrations[at]
           Becomes(entry) ==
              /\ registered' = [registered EXCEPT ![r] = entry]
              /\ site' = (site /\ ~(r = "pth" /\ entry = "absent" /\ ~siteExisted))
           Onward == IF at = 1 THEN GoTo("discard") ELSE at' = at - 1 /\ UNCHANGED <<phase, said>>
       IN \/ Works /\ Becomes(saved[r]) /\ Onward
          \/ /\ Fails("remove")
             /\ \/ saved[r] = "absent" /\ Becomes(registered[r]) /\ Onward
                \/ /\ saved[r] # "absent" /\ r \notin Links
                   /\ Becomes(saved[r]) /\ Onward
                \/ /\ saved[r] # "absent" /\ r \in Links /\ registered[r] # "absent"
                   /\ Becomes(registered[r]) /\ Exit("incomplete")
          \/ /\ saved[r] # "absent"
             /\ Fails("restore")
             /\ \/ Becomes("absent")
                \/ r \notin Links /\ Becomes("torn")
             /\ Exit("incomplete")
    /\ UNCHANGED <<trees, copies, script, run, before>>

Discard ==
    /\ phase = "discard"
    /\ UNCHANGED rollback
    /\ \/ /\ version # Absent \/ staged # Absent
          /\ Works /\ UNCHANGED <<phase, said, at>>
          /\ version' = Shrunk(version) /\ staged' = Shrunk(staged)
       \/ /\ version = Absent /\ staged = Absent
          /\ Works /\ GoTo("put_back") /\ UNCHANGED <<version, staged>>
       \/ /\ version # Absent \/ staged # Absent
          /\ Fails("remove") /\ GoTo("put_back") /\ UNCHANGED <<version, staged>>
    /\ UNCHANGED <<registered, site, copies, script, run, before>>

\* mv into a directory that is still there moves the tree below it.
PutBack ==
    /\ phase = "put_back"
    /\ \/ /\ hadPrevious
          /\ Works /\ GoTo("forget")
          /\ version' = IF version = Absent THEN rollback ELSE Damaged
          /\ rollback' = Absent
       \/ /\ ~hadPrevious
          /\ Works /\ GoTo("forget") /\ UNCHANGED <<version, rollback>>
       \/ /\ hadPrevious
          /\ Fails("put_back") /\ Exit("incomplete") /\ UNCHANGED <<version, rollback>>
    /\ UNCHANGED <<staged, registered, site, copies, script, run, before>>

\* The copies go, those of the tree first.  After a rollback only the last
\* rm is asked whether it worked; after an installation set -e asks.
Forget ==
    /\ phase = "forget"
    /\ \/ /\ rollback # Absent
          /\ Works /\ rollback' = Shrunk(rollback)
          /\ UNCHANGED <<copies, phase, said, at>>
       \/ /\ rollback = Absent /\ saved # Nothing
          /\ Works /\ saved' = Nothing
          /\ UNCHANGED <<rollback, backup, phase, said, at>>
       \/ /\ rollback = Absent /\ saved = Nothing
          /\ Works /\ backup' = FALSE
          /\ Exit(IF undoing THEN "restored" ELSE "installed")
          /\ UNCHANGED <<rollback, saved>>
       \/ /\ Fails("remove")
          /\ Exit(IF undoing THEN "incomplete" ELSE "failed")
          /\ UNCHANGED rollback
          /\ \/ UNCHANGED copies
             \/ rollback # Absent /\ backup' = FALSE /\ saved' = Nothing
    /\ UNCHANGED <<version, staged, registered, site, script, run, before>>

Kill ==
    /\ phase # "idle"
    /\ Exit("killed")
    /\ UNCHANGED <<trees, registered, site, copies, script, run, failed, before>>

Next ==
    \/ Start \/ Prepare \/ Stage \/ Snapshot
    \/ SetAside \/ Activate \/ Register \/ Verify
    \/ Undo \/ Discard \/ PutBack \/ Forget
    \/ Kill

Spec == Init /\ [][Next]_vars

-----------------------------------------------------------------------------
(* Properties. *)

Complete ==
    /\ version \in (1 .. run) \ {before.version}
    /\ \A r \in Registration : registered[r] = "this"

\* What the paths the messages name still hold of the state before.
Restorable ==
    /\ before.version \in {Absent, version, rollback}
    /\ \A r \in Registration :
          before.registered[r] \in {registered[r]} \cup (IF backup THEN {saved[r]} ELSE {})

\* These two failures the script misjudges: see RestoredMeansPrevious.
Misjudged == failed \cap {"set_aside", "remove"} # {}

\* Whatever fails and wherever the script is killed, the new version is
\* installed, or the previous runtime and each previous registration is in its
\* place or in the recovery paths (install.sh:61-64, 152-159).
PreviousRecoverable == Misjudged \/ Complete \/ Restorable

\* What the script prints at its end is so: nothing was touched, all is
\* installed, all is as before, or the recovery paths remain
\* (install.sh:61-64, 153-156, 161).
MessageTrue ==
    /\ said = "installed" => Complete /\ ~RecoveryPaths
    /\ said = "restored" /\ ~Misjudged => Installation = before /\ ~RecoveryPaths
    /\ said = "incomplete" /\ ~Misjudged => RecoveryPaths /\ Restorable
    /\ said = "refused" => RecoveryPaths

\* "the previous runtime and registrations were restored" (install.sh:154).
RestoredMeansPrevious == said = "restored" => Installation = before
=============================================================================
