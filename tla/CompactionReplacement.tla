------------------------ MODULE CompactionReplacement ------------------------
(***************************************************************************)
(* Replacing the telemetry database by a rebuilt one.  A starting service   *)
(* (compaction.MigrateIfNeeded) or the command line (Migrate) takes the     *)
(* database lock, undoes or finishes what an earlier attempt left behind,   *)
(* builds a candidate from the journal, and swaps it in by renaming files   *)
(* under a manifest whose phase tells the next attempt how far it came.     *)
(* Only then is the store opened and used.                                  *)
(*                                                                          *)
(* Names and files are kept apart: dir says which file each name of the     *)
(* directory stands for, db what each file holds.  A process may crash      *)
(* after every directory operation; a power loss also undoes the operations *)
(* since the last sync of the directory, the latest first.                  *)
(***************************************************************************)
EXTENDS Integers, FiniteSets

CONSTANTS
    Processes,      \* processes that use the database
    Compactors,     \* those started to compact it (--compact)
    Nobody,         \* nobody owns the database
    Files,          \* files (None is no file)
    MaxGeneration,  \* bound: storage generations of successive binaries
    MaxExports,     \* bound: exports accepted
    Mishaps,        \* kinds a run admits: "crash", "power", "fault", "damage"
    MaxMishaps      \* bound: mishaps that happen

None == 0

ASSUME Parameters ==
    /\ Compactors \subseteq Processes
    /\ Nobody \notin Processes
    /\ Files \subseteq Nat \ {0} /\ IsFiniteSet(Files)
    /\ MaxGeneration \in Nat \ {0} /\ MaxExports \in Nat /\ MaxMishaps \in Nat

VARIABLES
    dir,       \* source, candidate, backup, failed: the files; phase, target: the manifest
    since,     \* the directories a power loss may leave, since the last sync
    db,        \* the content of each file: generation, exports held, whole or not
    accepted,  \* exports the service has stored for its clients
    binary,    \* storage generation of the installed binary
    owner,     \* who holds the lock file
    proc,      \* the processes: where they are, their generation, what follows recovery
    mishaps    \* mishaps so far

vars == <<dir, since, db, accepted, binary, owner, proc, mishaps>>
data == <<db, accepted, binary>>

\* migrationPhase; "none" is no manifest.
Replacing == {"source-preserved", "installed", "verified"}

Stopped == [pc |-> "stopped", generation |-> 0, after |-> "none"]

Init ==
    /\ dir = [source |-> None, candidate |-> None, backup |-> None, failed |-> None,
              phase |-> "none", target |-> 0]
    /\ since = {dir}
    /\ db = [f \in Files |-> [generation |-> 0, exports |-> 0, whole |-> FALSE]]
    /\ accepted = 0
    /\ binary = 1
    /\ owner = Nobody
    /\ proc = [p \in Processes |-> Stopped]
    /\ mishaps = 0

----------------------------------------------------------------------------
\* Directory operations, synced and not.
Change(d) == dir' = d /\ since' = since \union {d}
Synced(d) == dir' = d /\ since' = {d}

Named(d) == {d.source, d.candidate, d.backup, d.failed}
Free == Files \ UNION {Named(d) : d \in since}
FreshFile == {f \in Free : \A g \in Free : f <= g}

At(p, pc) == proc[p].pc = pc
To(p, pc) == proc' = [proc EXCEPT ![p].pc = pc]

\* The process releases the lock with an error and ends.
Give(p) ==
    /\ proc' = [proc EXCEPT ![p] = Stopped]
    /\ owner' = Nobody

\* An error once the manifest is written: recoverAfterError recovers at once,
\* and the process ends with the error whatever that brings.
RecoverAfterError(p) ==
    /\ proc' = [proc EXCEPT ![p].pc = "recover", ![p].after = "give up"]
    /\ UNCHANGED owner

Mishap(kind) ==
    /\ kind \in Mishaps
    /\ mishaps < MaxMishaps
    /\ mishaps' = mishaps + 1

\* What comes after a recovery or a replacement that succeeded: the decision,
\* the end, or, the lock released, the store.
Proceed(p) ==
    IF proc[p].after = "decide" THEN To(p, "decide") /\ UNCHANGED owner
    ELSE IF proc[p].after = "open" /\ p \notin Compactors
    THEN To(p, "open") /\ owner' = Nobody
    ELSE Give(p)

----------------------------------------------------------------------------
\* Processes come, wait for the lock, serve and go.

Start(p) ==
    /\ At(p, "stopped")
    /\ proc' = [proc EXCEPT ![p] = [pc |-> "lock", generation |-> binary, after |-> "decide"]]
    /\ UNCHANGED <<dir, since, data, owner, mishaps>>

\* A new release is installed; running processes keep their own.
Upgrade ==
    /\ binary < MaxGeneration
    /\ binary' = binary + 1
    /\ UNCHANGED <<dir, since, db, accepted, owner, proc, mishaps>>

\* migrate acquires the ownership lock.
LockForMigration(p) ==
    /\ At(p, "lock")
    /\ owner = Nobody
    /\ owner' = p
    /\ To(p, "recover")
    /\ UNCHANGED <<dir, since, data, mishaps>>

\* A replacement is pending.
\* Fault: the manifest is not looked for.
NotPending == FALSE
Pending == dir.phase # "none"

\* Store.Open takes the lock again, for which it waits a few seconds only, and
\* refuses a pending replacement; a missing database is created.
OpenStore(p) ==
    /\ At(p, "open")
    /\ \/ /\ \/ (owner # Nobody \/ Pending) /\ UNCHANGED mishaps
             \/ Mishap("fault")
          /\ proc' = [proc EXCEPT ![p] = Stopped]
          /\ UNCHANGED <<dir, since, db, owner>>
       \/ /\ owner = Nobody /\ ~Pending /\ dir.source # None
          /\ owner' = p
          /\ To(p, "serving")
          /\ UNCHANGED <<dir, since, db, mishaps>>
       \/ /\ owner = Nobody /\ ~Pending /\ dir.source = None
          /\ \E f \in FreshFile :
                /\ Synced([dir EXCEPT !.source = f])
                /\ db' = [db EXCEPT ![f] = [generation |-> proc[p].generation,
                                            exports |-> 0, whole |-> TRUE]]
          /\ owner' = p
          /\ To(p, "serving")
          /\ UNCHANGED mishaps
    /\ UNCHANGED <<accepted, binary>>

\* An export is committed to the database.
Accept(p) ==
    /\ At(p, "serving")
    /\ accepted < MaxExports
    /\ accepted' = accepted + 1
    /\ db' = [db EXCEPT ![dir.source].exports = @ + 1]
    /\ UNCHANGED <<dir, since, binary, owner, proc, mishaps>>

Stop(p) ==
    /\ At(p, "serving")
    /\ Give(p)
    /\ UNCHANGED <<dir, since, data, mishaps>>

Crash(p) ==
    /\ ~At(p, "stopped")
    /\ Mishap("crash")
    /\ proc' = [proc EXCEPT ![p] = Stopped]
    /\ owner' = IF owner = p THEN Nobody ELSE owner
    /\ UNCHANGED <<dir, since, data>>

PowerLoss ==
    /\ Mishap("power")
    /\ \E d \in since : Synced(d)
    /\ proc' = [p \in Processes |-> Stopped]
    /\ owner' = Nobody
    /\ UNCHANGED data

\* The candidate goes bad after it was validated and before it is in place.
Damage ==
    /\ dir.phase \in {"validated", "source-preserved"} /\ dir.candidate # None
    /\ Mishap("damage")
    /\ db' = [db EXCEPT ![dir.candidate].whole = FALSE]
    /\ UNCHANGED <<dir, since, accepted, binary, owner, proc>>

----------------------------------------------------------------------------
\* recoverOwned: the manifest decides.

\* validateInstalledDatabase
\* Fault: the integrity of the journal is not checked.
InstalledGeneration(d) == db[d.source].generation = d.target
Installed(d) == db[d.source].whole /\ db[d.source].generation = d.target

\* Neither branch of recoverOwned can make sense of the directory.
\* Fault: without a backup nothing is tried.
WithoutBackup(d) == d.phase # "none" /\ d.backup = None
Unresolvable(d) ==
    /\ d.phase # "none"
    /\ d.backup = None
    /\ d.source = None \/ (d.phase \in Replacing /\ ~Installed(d))

NothingToRecover(p) ==
    /\ At(p, "recover")
    /\ dir.phase = "none"
    /\ Proceed(p)
    /\ UNCHANGED <<dir, since, data, mishaps>>

\* A manifest of a newer binary, or one nothing can be made of.
RefuseRecovery(p) ==
    /\ At(p, "recover")
    /\ dir.phase # "none"
    /\ dir.target > proc[p].generation \/ Unresolvable(dir)
    /\ Give(p)
    /\ UNCHANGED <<dir, since, data, mishaps>>

Resolvable(p) ==
    /\ At(p, "recover")
    /\ dir.phase # "none"
    /\ dir.target <= proc[p].generation

\* The source was renamed, the candidate not: the source is put back.  Once
\* the candidate was to be placed, what is left of it is dropped quietly.
RestoreLegacy(p) ==
    /\ Resolvable(p)
    /\ dir.source = None /\ dir.backup # None
    /\ \/ /\ Change([dir EXCEPT !.source = dir.backup, !.backup = None])
          /\ IF dir.phase = "validated" THEN To(p, "drop candidate") ELSE To(p, "tidy")
          /\ UNCHANGED <<owner, mishaps>>
       \/ Mishap("fault") /\ Give(p) /\ UNCHANGED <<dir, since>>
    /\ UNCHANGED data

\* The replacement had not begun.
AbandonReplacement(p) ==
    /\ Resolvable(p)
    /\ dir.phase = "validated" /\ dir.source # None
    /\ To(p, "drop candidate")
    /\ UNCHANGED <<dir, since, data, owner, mishaps>>

\* The source is there: it is validated once more, and kept or rolled back.
ValidateAgain(p) ==
    /\ Resolvable(p)
    /\ dir.phase \in Replacing /\ dir.source # None
    /\ \/ Installed(dir) /\ To(p, "drop backup") /\ UNCHANGED <<owner, mishaps>>
       \/ ~Installed(dir) /\ dir.backup # None /\ To(p, "set aside") /\ UNCHANGED <<owner, mishaps>>
       \/ /\ Installed(dir) /\ Mishap("fault")
          /\ IF dir.backup = None THEN Give(p) ELSE To(p, "set aside") /\ UNCHANGED owner
    /\ UNCHANGED <<dir, since, data>>

\* restoreBackup: the invalid file is set aside, the backup renamed back.
SetAside(p) ==
    /\ At(p, "set aside")
    /\ \/ /\ Change([dir EXCEPT !.failed = dir.source, !.source = None])
          /\ To(p, "bring back")
          /\ UNCHANGED <<owner, mishaps>>
       \/ Mishap("fault") /\ Give(p) /\ UNCHANGED <<dir, since>>
    /\ UNCHANGED data

BringBack(p) ==
    /\ At(p, "bring back")
    /\ LET d == [dir EXCEPT !.source = dir.backup, !.backup = None] IN
       \/ /\ Synced(d)
          /\ proc' = [proc EXCEPT ![p].pc = "tidy rollback", ![p].after = "give up"]
          /\ UNCHANGED <<owner, mishaps>>
       \/ Mishap("fault") /\ Give(p) /\ (Change(d) \/ UNCHANGED <<dir, since>>)
    /\ UNCHANGED data

\* Temporary files are removed, and errors of that are ignored.
Tidy(p) ==
    /\ proc[p].pc \in {"tidy", "tidy rollback"}
    /\ \/ /\ Change([dir EXCEPT !.candidate = None,
                                !.failed = IF At(p, "tidy rollback") THEN None ELSE @])
          /\ UNCHANGED mishaps
       \/ Mishap("fault") /\ UNCHANGED <<dir, since>>
    /\ To(p, "unregister")
    /\ UNCHANGED <<data, owner>>

\* finalizeReplacement removes the backup, then the candidate ...
\* Fault: an error is ignored.
DropBackupQuietly(p) ==
    /\ At(p, "drop backup")
    /\ \/ Change([dir EXCEPT !.backup = None]) /\ UNCHANGED mishaps
       \/ Mishap("fault") /\ UNCHANGED <<dir, since>>
    /\ To(p, "drop candidate")
    /\ UNCHANGED <<data, owner>>
DropBackup(p) ==
    /\ At(p, "drop backup")
    /\ \/ /\ Change([dir EXCEPT !.backup = None])
          /\ To(p, "drop candidate")
          /\ UNCHANGED <<owner, mishaps>>
       \/ Mishap("fault") /\ Give(p) /\ UNCHANGED <<dir, since>>
    /\ UNCHANGED data

DropCandidate(p) ==
    /\ At(p, "drop candidate")
    /\ \/ /\ Change([dir EXCEPT !.candidate = None])
          /\ To(p, "unregister")
          /\ UNCHANGED <<owner, mishaps>>
       \/ Mishap("fault") /\ Give(p) /\ UNCHANGED <<dir, since>>
    /\ UNCHANGED data

\* ... and removeManifest the manifest, which makes it all durable.
Unregister(p) ==
    /\ At(p, "unregister")
    /\ LET d == [dir EXCEPT !.phase = "none", !.target = 0] IN
       \/ Synced(d) /\ Proceed(p) /\ UNCHANGED mishaps
       \/ Mishap("fault") /\ Give(p) /\ (Change(d) \/ UNCHANGED <<dir, since>>)
    /\ UNCHANGED data

----------------------------------------------------------------------------
\* migrate: is a rebuild needed, and the candidate.

\* needsDataMigration: an older database needs a rebuild, one of a newer binary
\* is refused; a projection change may also ask for a rebuild.
Generation(f) == IF f = None THEN 0 ELSE db[f].generation

Decide(p) ==
    /\ At(p, "decide")
    /\ \/ /\ dir.source = None \/ Generation(dir.source) = proc[p].generation
          /\ p \notin Compactors
          /\ To(p, "open")
          /\ owner' = Nobody
          /\ UNCHANGED mishaps
       \/ /\ \/ Generation(dir.source) > proc[p].generation
             \/ dir.source = None /\ p \in Compactors
          /\ Give(p)
          /\ UNCHANGED mishaps
       \/ Mishap("fault") /\ Give(p)
       \/ /\ dir.source # None
          /\ Generation(dir.source) <= proc[p].generation
          /\ To(p, "build")
          /\ UNCHANGED <<owner, mishaps>>
    /\ UNCHANGED <<dir, since, data>>

\* buildCandidate removes a stale candidate and starts a new file ...
BeginCandidate(p) ==
    /\ At(p, "build")
    /\ \E f \in FreshFile :
          /\ Change([dir EXCEPT !.candidate = f])
          /\ db' = [db EXCEPT ![f] = [generation |-> 0, exports |-> 0, whole |-> FALSE]]
    /\ To(p, "replay")
    /\ UNCHANGED <<accepted, binary, owner, mishaps>>

\* ... into which the whole journal is replayed and which is then validated.
FinishCandidate(p) ==
    /\ At(p, "replay")
    /\ db' = [db EXCEPT ![dir.candidate] =
                [generation |-> proc[p].generation, exports |-> db[dir.source].exports,
                 whole |-> TRUE]]
    /\ To(p, "register")
    /\ UNCHANGED <<dir, since, accepted, binary, owner, mishaps>>

\* A failing build removes its candidate, or fails at that too.
BuildFails(p) ==
    /\ proc[p].pc \in {"build", "replay"}
    /\ Mishap("fault")
    /\ Change([dir EXCEPT !.candidate = None]) \/ UNCHANGED <<dir, since>>
    /\ Give(p)
    /\ UNCHANGED data

----------------------------------------------------------------------------
\* installValidated.

\* writeManifest installs the next phase; when it fails the manifest may have
\* been replaced or not.
WriteManifest(p, phase, pc) ==
    LET d == [dir EXCEPT !.phase = phase, !.target = proc[p].generation] IN
    \/ Synced(d) /\ To(p, pc) /\ UNCHANGED <<owner, mishaps>>
    \/ /\ Mishap("fault")
       /\ Change(d) \/ UNCHANGED <<dir, since>>
       /\ IF phase = "validated" THEN Give(p) ELSE RecoverAfterError(p)

RegisterReplacement(p) ==
    /\ At(p, "register")
    /\ IF dir.backup = None
       THEN WriteManifest(p, "validated", "preserve")
       ELSE Give(p) /\ UNCHANGED <<dir, since, mishaps>>
    /\ UNCHANGED data

\* A rename, synced; when it fails it may have happened or not.
Rename(p, d, pc) ==
    \/ Synced(d) /\ To(p, pc) /\ UNCHANGED <<owner, mishaps>>
    \/ Mishap("fault") /\ (Change(d) \/ UNCHANGED <<dir, since>>) /\ RecoverAfterError(p)

PreserveSource(p) ==
    /\ At(p, "preserve")
    /\ Rename(p, [dir EXCEPT !.backup = dir.source, !.source = None], "record preserved")
    /\ UNCHANGED data

RecordPreserved(p) ==
    /\ At(p, "record preserved")
    /\ WriteManifest(p, "source-preserved", "place")
    /\ UNCHANGED data

PlaceCandidate(p) ==
    /\ At(p, "place")
    /\ Rename(p, [dir EXCEPT !.source = dir.candidate, !.candidate = None], "record installed")
    /\ UNCHANGED data

RecordInstalled(p) ==
    /\ At(p, "record installed")
    /\ WriteManifest(p, "installed", "validate")
    /\ UNCHANGED data

ValidateInstalled(p) ==
    /\ At(p, "validate")
    /\ \/ Installed(dir) /\ To(p, "record verified") /\ UNCHANGED <<owner, mishaps>>
       \/ (IF Installed(dir) THEN Mishap("fault") ELSE UNCHANGED mishaps) /\ RecoverAfterError(p)
    /\ UNCHANGED <<dir, since, data>>

RecordVerified(p) ==
    /\ At(p, "record verified")
    /\ LET d == [dir EXCEPT !.phase = "verified"] IN
       \/ /\ Synced(d)
          /\ proc' = [proc EXCEPT ![p].pc = "drop backup", ![p].after = "open"]
          /\ UNCHANGED <<owner, mishaps>>
       \/ Mishap("fault") /\ (Change(d) \/ UNCHANGED <<dir, since>>) /\ RecoverAfterError(p)
    /\ UNCHANGED data

----------------------------------------------------------------------------
Recovering(p) ==
    \/ NothingToRecover(p) \/ RefuseRecovery(p) \/ RestoreLegacy(p) \/ AbandonReplacement(p)
    \/ ValidateAgain(p) \/ SetAside(p) \/ BringBack(p) \/ Tidy(p)
    \/ DropBackup(p) \/ DropCandidate(p) \/ Unregister(p)

Migrating(p) ==
    \/ Decide(p) \/ BeginCandidate(p) \/ FinishCandidate(p) \/ BuildFails(p)
    \/ RegisterReplacement(p) \/ PreserveSource(p) \/ RecordPreserved(p) \/ PlaceCandidate(p)
    \/ RecordInstalled(p) \/ ValidateInstalled(p) \/ RecordVerified(p)

Step(p) == LockForMigration(p) \/ Recovering(p) \/ Migrating(p) \/ OpenStore(p)

Next ==
    \/ \E p \in Processes : Start(p) \/ Step(p) \/ Accept(p) \/ Stop(p) \/ Crash(p)
    \/ Upgrade \/ PowerLoss \/ Damage

Spec == Init /\ [][Next]_vars

(***************************************************************************)
(* Fairness: a process that runs keeps running, a lock that is free again   *)
(* and again is got, and the service is started again when it has stopped.  *)
(***************************************************************************)
FairSpec ==
    /\ Spec
    /\ \A p \in Processes : SF_vars(Step(p))
    /\ \A p \in Processes \ Compactors : WF_vars(Start(p))

----------------------------------------------------------------------------
Directory ==
    [source : Files \union {None}, candidate : Files \union {None},
     backup : Files \union {None}, failed : Files \union {None},
     phase : {"none", "validated"} \union Replacing, target : Nat]

Contents == [generation : Nat, exports : Nat, whole : BOOLEAN]

Progress ==
    [pc : {"stopped", "lock", "recover", "decide", "open", "serving", "build", "replay",
           "register", "preserve", "record preserved", "place", "record installed",
           "validate", "record verified", "set aside", "bring back", "tidy",
           "tidy rollback", "drop backup", "drop candidate", "unregister"},
     generation : Nat, after : {"none", "decide", "open", "give up"}]

(* Type correctness of the directory, the files and the processes.          *)
TypeOK ==
    /\ dir \in Directory
    /\ since \subseteq Directory /\ dir \in since
    /\ db \in [Files -> Contents]
    /\ accepted \in Nat /\ binary \in Nat /\ mishaps \in Nat
    /\ owner \in Processes \union {Nobody}
    /\ proc \in [Processes -> Progress]

(* No export is ever lost: the source or its backup is a whole database     *)
(* with every export the service accepted, wherever two mishaps, a power    *)
(* loss among them, interrupt a replacement and its recovery                *)
(* (installValidated and recoverOwned).                                     *)
Holds(f) == f # None /\ db[f].whole /\ db[f].exports = accepted
JournalIsKept == accepted > 0 => Holds(dir.source) \/ Holds(dir.backup)

(* What is served is complete: the store is open on a whole database with   *)
(* every accepted export, never on one a half-done replacement left.        *)
ServesEverything ==
    \A p \in Processes : At(p, "serving") => Holds(dir.source)

(* A backup never outlives its manifest: an orphan would make every later   *)
(* replacement refuse to start (the first check of installValidated).       *)
NoOrphanedBackup == dir.backup # None => dir.phase # "none"

(* The service comes back, whatever step a single mishap hits, once nobody  *)
(* compacts by hand any more: a replacement abandoned at any point, also by *)
(* the command line, is resolved by a later start.                          *)
Calm == mishaps <= 1 /\ \A p \in Compactors : At(p, "stopped")
ServiceReturns == <>[]Calm => []<>(\E p \in Processes \ Compactors : At(p, "serving"))

(* Recovery resolves every durable manifest state (comment on recoverOwned).*)
RecoveryResolves == \A p \in Processes : At(p, "recover") => ~Unresolvable(dir)
=============================================================================
