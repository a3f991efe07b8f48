--------------------- MODULE CompactionReplacementProofs ---------------------
(***************************************************************************)
(* Theorems about CompactionReplacement for any processes, files, releases, *)
(* exports and number of mishaps: a backup has a manifest, and no export    *)
(* is lost unless both a power loss and a failing operation interrupt it.   *)
(***************************************************************************)
EXTENDS CompactionReplacement, TLAPS

\* Who does not hold the database lock.
Outside == {"stopped", "lock", "open"}

\* The lock is held by the one process that works on the directory.
OwnerRuns == \A p \in Processes : owner = p <=> proc[p].pc \notin Outside

\* What every directory looks like, the ones a power loss would leave included.
Shape(d) ==
    /\ d.phase = "none" => d.backup = None
    /\ d.phase # "none" => d.source # None \/ d.backup # None
    /\ d.phase = "validated" => d.source = None \/ d.backup = None
    /\ d.source # None /\ d.backup # None => d.candidate = None
    /\ d.candidate # None => d.candidate \notin {d.source, d.backup}
    /\ d.source # None => d.source # d.backup

Shapes == \A d \in since : Shape(d)

\* What the owner of the lock finds at each of its steps.
Stage(p) ==
    LET pc == proc[p].pc
    IN  /\ pc \in {"decide", "serving", "build", "replay", "register"} => dir.phase = "none"
        /\ pc \in {"serving", "build", "replay", "register"} => dir.source # None
        /\ pc \in {"replay", "register"} => dir.candidate # None
        /\ pc \in {"preserve", "record preserved"} => dir.phase = "validated"
        /\ pc \in {"place", "record installed"} => dir.phase = "source-preserved"
        /\ pc \in {"validate", "record verified"} => dir.phase = "installed"
        /\ pc \in {"preserve", "record preserved", "place"} =>
              dir.candidate # None /\ dir.target = proc[p].generation
        /\ pc = "preserve" => dir.source # None
        /\ pc \in {"record preserved", "place", "bring back"} => dir.source = None
        /\ pc \in {"record installed", "validate", "record verified"} =>
              dir.source # None /\ dir.backup # None
        /\ pc \in {"set aside", "bring back"} => dir.phase \in Replacing /\
           dir.backup # None
        /\ pc = "set aside" => dir.source # None
        /\ pc = "drop backup" => dir.phase \in Replacing /\ dir.source # None
        /\ pc \in {"tidy", "tidy rollback", "drop candidate", "unregister"} =>
              dir.phase # "none" /\ dir.source # None /\ dir.backup = None

Stages == \A p \in Processes : Stage(p)

ControlInv == TypeOK /\ OwnerRuns /\ Shapes /\ Stages

-----------------------------------------------------------------------------
(* The parts of a step *)

Steps == {"stopped", "lock", "recover", "decide", "open", "serving", "build", "replay",
          "register", "preserve", "record preserved", "place", "record installed",
          "validate", "record verified", "set aside", "bring back", "tidy",
          "tidy rollback", "drop backup", "drop candidate", "unregister"}

\* Process p alone moves.
Turns(p) == proc'[p] \in Progress /\ proc' = [proc EXCEPT ![p] = proc'[p]]

\* It keeps the lock, gives it up, takes it, or does without.
Locks(p) ==
    \/ owner = p /\ owner' = p /\ proc'[p].pc \notin Outside
    \/ owner = p /\ owner' = Nobody /\ proc'[p].pc \in Outside
    \/ owner = Nobody /\ owner' = p /\ proc'[p].pc \notin Outside
    \/ owner # p /\ owner' = owner /\ proc'[p].pc \in Outside

\* The directory becomes another well-shaped one, durable or not.
Moves ==
    /\ dir' \in Directory /\ Shape(dir')
    /\ dir' \in since' /\ since' \subseteq since \cup {dir'}

\* What the type invariant says, part by part.
LEMMA Types ==
    TypeOK => /\ binary \in Nat /\ mishaps \in Nat /\ accepted \in Nat
              /\ dir \in Directory /\ since \subseteq Directory /\ dir \in since
              /\ proc \in [Processes -> Progress] /\ db \in [Files -> Contents]
BY DEF TypeOK

\* Process p turns to another step.
LEMMA ToTurns ==
    ASSUME TypeOK, NEW p \in Processes, NEW pc \in Steps, To(p, pc)
    PROVE  /\ Turns(p) /\ proc'[p].pc = pc
           /\ proc'[p].generation = proc[p].generation /\ proc'[p].after = proc[p].after
BY DEF TypeOK, To, Turns, Progress, Steps

\* Process p stops.
LEMMA StopTurns ==
    ASSUME TypeOK, NEW p \in Processes, proc' = [proc EXCEPT ![p] = Stopped]
    PROVE  Turns(p) /\ proc'[p].pc = "stopped"
BY DEF TypeOK, Stopped, Turns, Progress

\* Process p goes back to the recovery with the lock it has.
LEMMA RecoverTurns ==
    ASSUME TypeOK, NEW p \in Processes, RecoverAfterError(p)
    PROVE  Turns(p) /\ proc'[p].pc = "recover" /\ UNCHANGED owner
BY DEF TypeOK, RecoverAfterError, Turns, Progress

\* Process p goes on to decide, or leaves the directory.
LEMMA ProceedTurns ==
    ASSUME TypeOK, NEW p \in Processes, Proceed(p)
    PROVE  /\ Turns(p)
           /\ \/ proc'[p].pc = "decide" /\ UNCHANGED owner
              \/ proc'[p].pc \in {"open", "stopped"} /\ owner' = Nobody
BY ToTurns, StopTurns DEF Proceed, Give, Steps

\* A mishap is counted.
LEMMA MishapCounts ==
    ASSUME TypeOK, NEW kind, Mishap(kind) PROVE mishaps' \in Nat
BY Types DEF Mishap

\* The directory may change by a whole operation, durably or not.
LEMMA DirectoryMoves ==
    ASSUME TypeOK, Shapes, NEW d \in Directory, Shape(d),
           Change(d) \/ Synced(d) \/ UNCHANGED <<dir, since>>
    PROVE  Moves
BY DEF TypeOK, Shapes, Moves, Change, Synced

\* The directory may stay.
LEMMA DirectoryStays ==
    ASSUME TypeOK, Shapes, UNCHANGED <<dir, since>> PROVE Moves
BY DEF TypeOK, Shapes, Moves

\* The lock passes from one process to another as their steps need it.
LEMMA OwnerTurns ==
    ASSUME TypeOK, OwnerRuns, NEW p \in Processes, Turns(p), Locks(p)
    PROVE  /\ OwnerRuns'
           /\ owner' \in Processes \union {Nobody}
           /\ \A q \in Processes \ {p} :
                 proc'[q] = proc[q] /\ (p \in {owner, owner'} => proc[q].pc \in Outside)
BY Parameters DEF TypeOK, OwnerRuns, Turns, Locks, Outside

\* Outside the directory a process expects nothing.
LEMMA OutsideStage ==
    ASSUME NEW p, proc[p].pc \in Outside PROVE Stage(p)
BY DEF Outside, Stage

\* The same of the next state.
LEMMA OutsideStageNext ==
    ASSUME NEW p, proc'[p].pc \in Outside PROVE Stage(p)'
BY DEF Outside, Stage

\* Inside it, it has the lock and finds what it expects.
LEMMA OwnerStage ==
    ASSUME ControlInv, NEW p \in Processes, proc[p].pc \notin Outside
    PROVE  owner = p /\ Stage(p) /\ Shape(dir) /\ p # Nobody
BY Parameters DEF ControlInv, OwnerRuns, Stages, Shapes, TypeOK

\* A step of one process keeps the invariant when its parts do.
LEMMA StepKeepsControl ==
    ASSUME ControlInv, NEW p \in Processes, Turns(p), Locks(p), Moves, Stage(p)',
           dir' = dir \/ p \in {owner, owner'},
           db' \in [Files -> Contents],
           accepted' \in Nat /\ binary' \in Nat /\ mishaps' \in Nat
    PROVE  ControlInv'
<1>1. /\ OwnerRuns' /\ owner' \in Processes \union {Nobody}
      /\ \A q \in Processes \ {p} :
            proc'[q] = proc[q] /\ (p \in {owner, owner'} => proc[q].pc \in Outside)
  BY OwnerTurns DEF ControlInv
<1>2. Shapes'
  BY DEF ControlInv, Shapes, Moves
<1>3. ASSUME NEW q \in Processes PROVE Stage(q)'
  <2>1. CASE q = p
    BY <2>1
  <2>2. CASE q # p /\ dir' = dir
    BY <2>2, <1>1, ZenonT(40) DEF ControlInv, Stages, Stage
  <2>3. CASE q # p /\ p \in {owner, owner'}
    BY <2>3, <1>1, OutsideStageNext
  <2> QED BY <2>1, <2>2, <2>3
<1>4. proc' \in [Processes -> Progress]
  BY DEF Turns, ControlInv, TypeOK
<1>5. since' \subseteq Directory /\ dir' \in since' /\ dir' \in Directory
  BY DEF Moves, ControlInv, TypeOK
<1>6. TypeOK'
  BY <1>1, <1>4, <1>5 DEF TypeOK
<1> QED BY <1>1, <1>2, <1>3, <1>6 DEF ControlInv, Stages


\* Process p turns to another step and notes what comes after it.
LEMMA BothTurns ==
    ASSUME TypeOK, NEW p \in Processes, NEW pc \in Steps, NEW after \in {"open", "give up"},
           proc' = [proc EXCEPT ![p].pc = pc, ![p].after = after]
    PROVE  Turns(p) /\ proc'[p].pc = pc
BY DEF TypeOK, Turns, Progress, Steps

\* Steps of which Stage asks nothing.
Anywhere == Outside \cup {"recover"}

\* Some steps expect nothing.
LEMMA AnywhereStage ==
    ASSUME NEW p, proc'[p].pc \in Anywhere PROVE Stage(p)'
BY DEF Anywhere, Outside, Stage

\* The control of the directory survives a recovery with nothing to do.
LEMMA ControlNothingToRecover ==
    ASSUME ControlInv, NEW p \in Processes, NothingToRecover(p) PROVE ControlInv'
<1>0. TypeOK /\ Shapes
  BY DEF ControlInv
<1>1. owner = p /\ Stage(p) /\ Shape(dir) /\ p # Nobody
  BY OwnerStage DEF NothingToRecover, At, Outside
<1>3. Turns(p) /\ Locks(p)
  BY <1>0, <1>1, ProceedTurns DEF NothingToRecover, Proceed, Give, Locks, Outside
<1>4. Moves
  BY <1>0, DirectoryStays DEF NothingToRecover, Proceed, Give
<1>5. Stage(p)'
  BY <1>0, <1>1, ProceedTurns DEF NothingToRecover, Proceed, Give, Stage
<1>6. mishaps' \in Nat
  BY <1>0, Types DEF NothingToRecover, Proceed, Give
<1>7. db' \in [Files -> Contents] /\ accepted' \in Nat /\ binary' \in Nat
  BY <1>0, Types DEF NothingToRecover, data
<1> QED BY <1>1, <1>3, <1>4, <1>5, <1>6, <1>7, StepKeepsControl

\* The control of the directory survives a refused recovery.
LEMMA ControlRefuseRecovery ==
    ASSUME ControlInv, NEW p \in Processes, RefuseRecovery(p) PROVE ControlInv'
<1>0. TypeOK /\ Shapes
  BY DEF ControlInv
<1>1. owner = p /\ Stage(p) /\ Shape(dir) /\ p # Nobody
  BY OwnerStage DEF RefuseRecovery, At, Outside
<1>3. Turns(p) /\ Locks(p)
  BY <1>0, <1>1, StopTurns DEF RefuseRecovery, Give, Locks, Outside
<1>4. Moves
  BY <1>0, DirectoryStays DEF RefuseRecovery, Give
<1>5. Stage(p)'
  BY <1>0, <1>1, StopTurns DEF RefuseRecovery, Give, Stage
<1>6. mishaps' \in Nat
  BY <1>0, Types DEF RefuseRecovery, Give
<1>7. db' \in [Files -> Contents] /\ accepted' \in Nat /\ binary' \in Nat
  BY <1>0, Types DEF RefuseRecovery, data
<1> QED BY <1>1, <1>3, <1>4, <1>5, <1>6, <1>7, StepKeepsControl

\* The control of the directory survives recovering a backup without manifest.
LEMMA ControlRestoreLegacy ==
    ASSUME ControlInv, NEW p \in Processes, RestoreLegacy(p) PROVE ControlInv'
<1> DEFINE d == [dir EXCEPT !.source = dir.backup, !.backup = None]
<1>0. TypeOK /\ Shapes
  BY DEF ControlInv
<1>1. owner = p /\ Stage(p) /\ Shape(dir) /\ p # Nobody
  BY OwnerStage DEF RestoreLegacy, Resolvable, At, Outside
<1>2. dir.phase # "none" /\ dir.source = None /\ dir.backup # None
  BY <1>1 DEF RestoreLegacy, Resolvable, Stage, Shape, At
<1>3. Turns(p) /\ Locks(p)
  BY <1>0, <1>1, ToTurns, StopTurns
     DEF RestoreLegacy, Give, Resolvable, Locks, Outside, Steps
<1>4. Moves
  <2>1. d \in Directory
    BY <1>0, Types DEF Directory, None
  <2>2. Shape(d)
    BY <1>0, <1>1, <1>2, Types DEF RestoreLegacy, Resolvable, Shape, Directory
  <2>3. Change(d) \/ Synced(d) \/ UNCHANGED <<dir, since>>
    BY DEF RestoreLegacy, Give, Resolvable
  <2> QED BY <1>0, <2>1, <2>2, <2>3, DirectoryMoves
<1>5. Stage(p)'
  <2>1. proc'[p].pc \in Anywhere \/ (proc'[p].pc \in {"tidy", "drop candidate"} /\ dir' = d)
    BY <1>0, ToTurns, StopTurns
       DEF RestoreLegacy, Give, Resolvable, Change, Synced, Anywhere, Outside, Steps
  <2>2. ASSUME proc'[p].pc \in {"tidy", "drop candidate"}, dir' = d PROVE Stage(p)'
    BY <1>0, <1>1, <1>2, <2>2, Types DEF Stage, Directory, Replacing
  <2> QED BY <2>1, <2>2, AnywhereStage
<1>6. mishaps' \in Nat
  BY <1>0, Types, MishapCounts DEF RestoreLegacy, Give, Resolvable
<1>7. db' \in [Files -> Contents] /\ accepted' \in Nat /\ binary' \in Nat
  BY <1>0, Types DEF RestoreLegacy, data
<1> QED BY <1>1, <1>3, <1>4, <1>5, <1>6, <1>7, StepKeepsControl

\* The control of the directory survives abandoning a replacement.
LEMMA ControlAbandonReplacement ==
    ASSUME ControlInv, NEW p \in Processes, AbandonReplacement(p) PROVE ControlInv'
<1>0. TypeOK /\ Shapes
  BY DEF ControlInv
<1>1. owner = p /\ Stage(p) /\ Shape(dir) /\ p # Nobody
  BY OwnerStage DEF AbandonReplacement, Resolvable, At, Outside
<1>2. dir.phase = "validated" /\ dir.source # None /\ dir.backup = None
  BY <1>1 DEF AbandonReplacement, Resolvable, Stage, Shape, At
<1>3. Turns(p) /\ Locks(p)
  BY <1>0, <1>1, ToTurns DEF AbandonReplacement, Resolvable, Locks, Outside, Steps
<1>4. Moves
  BY <1>0, DirectoryStays DEF AbandonReplacement, Resolvable
<1>5. Stage(p)'
  <2>1. proc'[p].pc \in Anywhere \/ (proc'[p].pc = "drop candidate" /\ dir' = dir)
    BY <1>0, ToTurns
       DEF AbandonReplacement, Resolvable, Change, Synced, Anywhere, Outside, Steps
  <2>2. ASSUME proc'[p].pc = "drop candidate", dir' = dir PROVE Stage(p)'
    BY <1>0, <1>1, <1>2, <2>2, Types DEF Stage, Directory, Replacing
  <2> QED BY <2>1, <2>2, AnywhereStage
<1>6. mishaps' \in Nat
  BY <1>0, Types DEF AbandonReplacement, Resolvable
<1>7. db' \in [Files -> Contents] /\ accepted' \in Nat /\ binary' \in Nat
  BY <1>0, Types DEF AbandonReplacement, data
<1> QED BY <1>1, <1>3, <1>4, <1>5, <1>6, <1>7, StepKeepsControl

\* The control of the directory survives another look at the installed candidate.
LEMMA ControlValidateAgain ==
    ASSUME ControlInv, NEW p \in Processes, ValidateAgain(p) PROVE ControlInv'
<1>0. TypeOK /\ Shapes
  BY DEF ControlInv
<1>1. owner = p /\ Stage(p) /\ Shape(dir) /\ p # Nobody
  BY OwnerStage DEF ValidateAgain, Resolvable, At, Outside
<1>2. dir.phase \in Replacing /\ dir.source # None
  BY <1>1 DEF ValidateAgain, Resolvable, Stage, Shape, At, Replacing
<1>3. Turns(p) /\ Locks(p)
  BY <1>0, <1>1, ToTurns, StopTurns
     DEF ValidateAgain, Give, Resolvable, Locks, Outside, Steps
<1>4. Moves
  BY <1>0, DirectoryStays DEF ValidateAgain, Give, Resolvable
<1>5. Stage(p)'
  <2>1. proc'[p].pc \in Anywhere \/ ((proc'[p].pc = "drop backup" \/ (proc'[p].pc = "set aside" /\ dir.backup # None)) /\ dir' = dir)
    BY <1>0, ToTurns, StopTurns
       DEF ValidateAgain, Give, Resolvable, Change, Synced, Anywhere, Outside, Steps
  <2>2. ASSUME (proc'[p].pc = "drop backup" \/ (proc'[p].pc = "set aside" /\
     dir.backup # None)), dir' = dir PROVE Stage(p)'
    BY <1>0, <1>1, <1>2, <2>2, Types DEF Stage, Directory, Replacing
  <2> QED BY <2>1, <2>2, AnywhereStage
<1>6. mishaps' \in Nat
  BY <1>0, Types, MishapCounts DEF ValidateAgain, Give, Resolvable
<1>7. db' \in [Files -> Contents] /\ accepted' \in Nat /\ binary' \in Nat
  BY <1>0, Types DEF ValidateAgain, data
<1> QED BY <1>1, <1>3, <1>4, <1>5, <1>6, <1>7, StepKeepsControl

\* The control of the directory survives setting an unproven candidate aside.
LEMMA ControlSetAside ==
    ASSUME ControlInv, NEW p \in Processes, SetAside(p) PROVE ControlInv'
<1> DEFINE d == [dir EXCEPT !.failed = dir.source, !.source = None]
<1>0. TypeOK /\ Shapes
  BY DEF ControlInv
<1>1. owner = p /\ Stage(p) /\ Shape(dir) /\ p # Nobody
  BY OwnerStage DEF SetAside, At, Outside
<1>2. dir.phase \in Replacing /\ dir.backup # None
  BY <1>1 DEF SetAside, Stage, Shape, At, Replacing
<1>3. Turns(p) /\ Locks(p)
  BY <1>0, <1>1, ToTurns, StopTurns DEF SetAside, Give, Locks, Outside, Steps
<1>4. Moves
  <2>1. d \in Directory
    BY <1>0, Types DEF Directory, None
  <2>2. Shape(d)
    BY <1>0, <1>1, <1>2, Types DEF SetAside, Shape, Directory, Replacing
  <2>3. Change(d) \/ Synced(d) \/ UNCHANGED <<dir, since>>
    BY DEF SetAside, Give
  <2> QED BY <1>0, <2>1, <2>2, <2>3, DirectoryMoves
<1>5. Stage(p)'
  <2>1. proc'[p].pc \in Anywhere \/ (proc'[p].pc = "bring back" /\ dir' = d)
    BY <1>0, ToTurns, StopTurns DEF SetAside, Give, Change, Synced, Anywhere, Outside, Steps
  <2>2. ASSUME proc'[p].pc = "bring back", dir' = d PROVE Stage(p)'
    BY <1>0, <1>1, <1>2, <2>2, Types DEF Stage, Directory, Replacing
  <2> QED BY <2>1, <2>2, AnywhereStage
<1>6. mishaps' \in Nat
  BY <1>0, Types, MishapCounts DEF SetAside, Give
<1>7. db' \in [Files -> Contents] /\ accepted' \in Nat /\ binary' \in Nat
  BY <1>0, Types DEF SetAside, data
<1> QED BY <1>1, <1>3, <1>4, <1>5, <1>6, <1>7, StepKeepsControl

\* The control of the directory survives bringing the backup back.
LEMMA ControlBringBack ==
    ASSUME ControlInv, NEW p \in Processes, BringBack(p) PROVE ControlInv'
<1> DEFINE d == [dir EXCEPT !.source = dir.backup, !.backup = None]
<1>0. TypeOK /\ Shapes
  BY DEF ControlInv
<1>1. owner = p /\ Stage(p) /\ Shape(dir) /\ p # Nobody
  BY OwnerStage DEF BringBack, At, Outside
<1>2. dir.phase \in Replacing /\ dir.backup # None /\ dir.source = None
  BY <1>1 DEF BringBack, Stage, Shape, At, Replacing
<1>3. Turns(p) /\ Locks(p)
  BY <1>0, <1>1, BothTurns, StopTurns DEF BringBack, Give, Locks, Outside, Steps
<1>4. Moves
  <2>1. d \in Directory
    BY <1>0, Types DEF Directory, None
  <2>2. Shape(d)
    BY <1>0, <1>1, <1>2, Types DEF BringBack, Shape, Directory, Replacing
  <2>3. Change(d) \/ Synced(d) \/ UNCHANGED <<dir, since>>
    BY DEF BringBack, Give
  <2> QED BY <1>0, <2>1, <2>2, <2>3, DirectoryMoves
<1>5. Stage(p)'
  <2>1. proc'[p].pc \in Anywhere \/ (proc'[p].pc = "tidy rollback" /\ dir' = d)
    BY <1>0, BothTurns, StopTurns
       DEF BringBack, Give, Change, Synced, Anywhere, Outside, Steps
  <2>2. ASSUME proc'[p].pc = "tidy rollback", dir' = d PROVE Stage(p)'
    BY <1>0, <1>1, <1>2, <2>2, Types DEF Stage, Directory, Replacing
  <2> QED BY <2>1, <2>2, AnywhereStage
<1>6. mishaps' \in Nat
  BY <1>0, Types, MishapCounts DEF BringBack, Give
<1>7. db' \in [Files -> Contents] /\ accepted' \in Nat /\ binary' \in Nat
  BY <1>0, Types DEF BringBack, data
<1> QED BY <1>1, <1>3, <1>4, <1>5, <1>6, <1>7, StepKeepsControl

\* The control of the directory survives tidying up a replacement that ends.
LEMMA ControlTidy ==
    ASSUME ControlInv, NEW p \in Processes, Tidy(p) PROVE ControlInv'
<1> DEFINE d == [dir EXCEPT !.candidate = None,
                  !.failed = IF At(p, "tidy rollback") THEN None ELSE @]
<1>0. TypeOK /\ Shapes
  BY DEF ControlInv
<1>1. owner = p /\ Stage(p) /\ Shape(dir) /\ p # Nobody
  BY OwnerStage DEF Tidy, At, Outside
<1>2. dir.phase # "none" /\ dir.source # None /\ dir.backup = None
  BY <1>1 DEF Tidy, Stage, Shape, At
<1>3. Turns(p) /\ Locks(p)
  BY <1>0, <1>1, ToTurns DEF Tidy, Locks, Outside, Steps
<1>4. Moves
  <2>1. d \in Directory
    BY <1>0, Types DEF Directory, None
  <2>2. Shape(d)
    BY <1>0, <1>1, <1>2, Types DEF Tidy, Shape, Directory
  <2>3. Change(d) \/ Synced(d) \/ UNCHANGED <<dir, since>>
    BY DEF Tidy
  <2> QED BY <1>0, <2>1, <2>2, <2>3, DirectoryMoves
<1>5. Stage(p)'
  <2>1. proc'[p].pc \in Anywhere \/ (proc'[p].pc = "unregister" /\ dir' \in {d, dir})
    BY <1>0, ToTurns DEF Tidy, Change, Synced, Anywhere, Outside, Steps
  <2>2. ASSUME proc'[p].pc = "unregister", dir' \in {d, dir} PROVE Stage(p)'
    BY <1>0, <1>1, <1>2, <2>2, Types DEF Stage, Directory, Replacing
  <2> QED BY <2>1, <2>2, AnywhereStage
<1>6. mishaps' \in Nat
  BY <1>0, Types, MishapCounts DEF Tidy
<1>7. db' \in [Files -> Contents] /\ accepted' \in Nat /\ binary' \in Nat
  BY <1>0, Types DEF Tidy, data
<1> QED BY <1>1, <1>3, <1>4, <1>5, <1>6, <1>7, StepKeepsControl

\* The control of the directory survives removing the backup.
LEMMA ControlDropBackup ==
    ASSUME ControlInv, NEW p \in Processes, DropBackup(p) PROVE ControlInv'
<1> DEFINE d == [dir EXCEPT !.backup = None]
<1>0. TypeOK /\ Shapes
  BY DEF ControlInv
<1>1. owner = p /\ Stage(p) /\ Shape(dir) /\ p # Nobody
  BY OwnerStage DEF DropBackup, At, Outside
<1>2. dir.phase \in Replacing /\ dir.source # None
  BY <1>1 DEF DropBackup, Stage, Shape, At, Replacing
<1>3. Turns(p) /\ Locks(p)
  BY <1>0, <1>1, ToTurns, StopTurns DEF DropBackup, Give, Locks, Outside, Steps
<1>4. Moves
  <2>1. d \in Directory
    BY <1>0, Types DEF Directory, None
  <2>2. Shape(d)
    BY <1>0, <1>1, <1>2, Types DEF DropBackup, Shape, Directory, Replacing
  <2>3. Change(d) \/ Synced(d) \/ UNCHANGED <<dir, since>>
    BY DEF DropBackup, Give
  <2> QED BY <1>0, <2>1, <2>2, <2>3, DirectoryMoves
<1>5. Stage(p)'
  <2>1. proc'[p].pc \in Anywhere \/ (proc'[p].pc = "drop candidate" /\ dir' = d)
    BY <1>0, ToTurns, StopTurns
       DEF DropBackup, Give, Change, Synced, Anywhere, Outside, Steps
  <2>2. ASSUME proc'[p].pc = "drop candidate", dir' = d PROVE Stage(p)'
    BY <1>0, <1>1, <1>2, <2>2, Types DEF Stage, Directory, Replacing
  <2> QED BY <2>1, <2>2, AnywhereStage
<1>6. mishaps' \in Nat
  BY <1>0, Types, MishapCounts DEF DropBackup, Give
<1>7. db' \in [Files -> Contents] /\ accepted' \in Nat /\ binary' \in Nat
  BY <1>0, Types DEF DropBackup, data
<1> QED BY <1>1, <1>3, <1>4, <1>5, <1>6, <1>7, StepKeepsControl

\* The control of the directory survives removing the candidate.
LEMMA ControlDropCandidate ==
    ASSUME ControlInv, NEW p \in Processes, DropCandidate(p) PROVE ControlInv'
<1> DEFINE d == [dir EXCEPT !.candidate = None]
<1>0. TypeOK /\ Shapes
  BY DEF ControlInv
<1>1. owner = p /\ Stage(p) /\ Shape(dir) /\ p # Nobody
  BY OwnerStage DEF DropCandidate, At, Outside
<1>2. dir.phase # "none" /\ dir.source # None /\ dir.backup = None
  BY <1>1 DEF DropCandidate, Stage, Shape, At
<1>3. Turns(p) /\ Locks(p)
  BY <1>0, <1>1, ToTurns, StopTurns DEF DropCandidate, Give, Locks, Outside, Steps
<1>4. Moves
  <2>1. d \in Directory
    BY <1>0, Types DEF Directory, None
  <2>2. Shape(d)
    BY <1>0, <1>1, <1>2, Types DEF DropCandidate, Shape, Directory
  <2>3. Change(d) \/ Synced(d) \/ UNCHANGED <<dir, since>>
    BY DEF DropCandidate, Give
  <2> QED BY <1>0, <2>1, <2>2, <2>3, DirectoryMoves
<1>5. Stage(p)'
  <2>1. proc'[p].pc \in Anywhere \/ (proc'[p].pc = "unregister" /\ dir' = d)
    BY <1>0, ToTurns, StopTurns
       DEF DropCandidate, Give, Change, Synced, Anywhere, Outside, Steps
  <2>2. ASSUME proc'[p].pc = "unregister", dir' = d PROVE Stage(p)'
    BY <1>0, <1>1, <1>2, <2>2, Types DEF Stage, Directory, Replacing
  <2> QED BY <2>1, <2>2, AnywhereStage
<1>6. mishaps' \in Nat
  BY <1>0, Types, MishapCounts DEF DropCandidate, Give
<1>7. db' \in [Files -> Contents] /\ accepted' \in Nat /\ binary' \in Nat
  BY <1>0, Types DEF DropCandidate, data
<1> QED BY <1>1, <1>3, <1>4, <1>5, <1>6, <1>7, StepKeepsControl

\* The control of the directory survives removing the manifest.
LEMMA ControlUnregister ==
    ASSUME ControlInv, NEW p \in Processes, Unregister(p) PROVE ControlInv'
<1> DEFINE d == [dir EXCEPT !.phase = "none", !.target = 0]
<1>0. TypeOK /\ Shapes
  BY DEF ControlInv
<1>1. owner = p /\ Stage(p) /\ Shape(dir) /\ p # Nobody
  BY OwnerStage DEF Unregister, At, Outside
<1>2. dir.backup = None /\ dir.source # None
  BY <1>1 DEF Unregister, Stage, Shape, At
<1>3. Turns(p) /\ Locks(p)
  BY <1>0, <1>1, StopTurns, ProceedTurns DEF Unregister, Give, Locks, Outside
<1>4. Moves
  <2>1. d \in Directory
    BY <1>0, Types DEF Directory
  <2>2. Shape(d)
    BY <1>0, <1>1, <1>2, Types DEF Unregister, Shape, Directory
  <2>3. Change(d) \/ Synced(d) \/ UNCHANGED <<dir, since>>
    BY DEF Unregister, Give
  <2> QED BY <1>0, <2>1, <2>2, <2>3, DirectoryMoves
<1>5. Stage(p)'
  <2>1. proc'[p].pc \in Anywhere \/ (proc'[p].pc = "decide" /\ dir' = d)
    BY <1>0, StopTurns, ProceedTurns DEF Unregister, Give, Change, Synced, Anywhere, Outside
  <2>2. ASSUME proc'[p].pc = "decide", dir' = d PROVE Stage(p)'
    BY <1>0, <1>1, <1>2, <2>2, Types DEF Stage, Directory, Replacing
  <2> QED BY <2>1, <2>2, AnywhereStage
<1>6. mishaps' \in Nat
  BY <1>0, Types, MishapCounts DEF Unregister, Give
<1>7. db' \in [Files -> Contents] /\ accepted' \in Nat /\ binary' \in Nat
  BY <1>0, Types DEF Unregister, data
<1> QED BY <1>1, <1>3, <1>4, <1>5, <1>6, <1>7, StepKeepsControl

\* The control of the directory survives the decision to compact.
LEMMA ControlDecide ==
    ASSUME ControlInv, NEW p \in Processes, Decide(p) PROVE ControlInv'
<1>0. TypeOK /\ Shapes
  BY DEF ControlInv
<1>1. owner = p /\ Stage(p) /\ Shape(dir) /\ p # Nobody
  BY OwnerStage DEF Decide, At, Outside
<1>2. dir.phase = "none"
  BY <1>1 DEF Decide, Stage, Shape, At
<1>3. Turns(p) /\ Locks(p)
  BY <1>0, <1>1, ToTurns, StopTurns DEF Decide, Give, Locks, Outside, Steps
<1>4. Moves
  BY <1>0, DirectoryStays DEF Decide, Give
<1>5. Stage(p)'
  <2>1. proc'[p].pc \in Anywhere \/ (proc'[p].pc = "build" /\ dir' = dir /\
     dir.source # None)
    BY <1>0, ToTurns, StopTurns DEF Decide, Give, Change, Synced, Anywhere, Outside, Steps
  <2>2. ASSUME proc'[p].pc = "build", dir' = dir /\ dir.source # None PROVE Stage(p)'
    BY <1>0, <1>1, <1>2, <2>2, Types DEF Stage, Directory, Replacing
  <2> QED BY <2>1, <2>2, AnywhereStage
<1>6. mishaps' \in Nat
  BY <1>0, Types, MishapCounts DEF Decide, Give
<1>7. db' \in [Files -> Contents] /\ accepted' \in Nat /\ binary' \in Nat
  BY <1>0, Types DEF Decide, data
<1> QED BY <1>1, <1>3, <1>4, <1>5, <1>6, <1>7, StepKeepsControl

\* The control of the directory survives a build that fails.
LEMMA ControlBuildFails ==
    ASSUME ControlInv, NEW p \in Processes, BuildFails(p) PROVE ControlInv'
<1> DEFINE d == [dir EXCEPT !.candidate = None]
<1>0. TypeOK /\ Shapes
  BY DEF ControlInv
<1>1. owner = p /\ Stage(p) /\ Shape(dir) /\ p # Nobody
  BY OwnerStage DEF BuildFails, At, Outside
<1>3. Turns(p) /\ Locks(p)
  BY <1>0, <1>1, StopTurns DEF BuildFails, Give, Locks, Outside
<1>4. Moves
  <2>1. d \in Directory
    BY <1>0, Types DEF Directory, None
  <2>2. Shape(d)
    BY <1>0, <1>1, Types DEF BuildFails, Shape, Directory, Stage, At
  <2>3. Change(d) \/ Synced(d) \/ UNCHANGED <<dir, since>>
    BY DEF BuildFails, Give
  <2> QED BY <1>0, <2>1, <2>2, <2>3, DirectoryMoves
<1>5. Stage(p)'
  BY <1>0, <1>1, StopTurns DEF BuildFails, Give, Stage
<1>6. mishaps' \in Nat
  BY <1>0, Types, MishapCounts DEF BuildFails, Give
<1>7. db' \in [Files -> Contents] /\ accepted' \in Nat /\ binary' \in Nat
  BY <1>0, Types DEF BuildFails, data
<1> QED BY <1>1, <1>3, <1>4, <1>5, <1>6, <1>7, StepKeepsControl

\* The control of the directory survives writing the manifest.
LEMMA ControlRegisterReplacement ==
    ASSUME ControlInv, NEW p \in Processes, RegisterReplacement(p) PROVE ControlInv'
<1> DEFINE d == [dir EXCEPT !.phase = "validated", !.target = proc[p].generation]
<1>0. TypeOK /\ Shapes
  BY DEF ControlInv
<1>1. owner = p /\ Stage(p) /\ Shape(dir) /\ p # Nobody
  BY OwnerStage DEF RegisterReplacement, At, Outside
<1>2. dir.source # None /\ dir.candidate # None
  BY <1>1 DEF RegisterReplacement, Stage, Shape, At
<1>3. Turns(p) /\ Locks(p)
  BY <1>0, <1>1, ToTurns, StopTurns, RecoverTurns
     DEF RegisterReplacement, Give, WriteManifest, Locks, Outside, Steps
<1>4. Moves
  <2>1. d \in Directory
    BY <1>0, Types DEF Directory, Progress
  <2>2. Shape(d)
    BY <1>0, <1>1, <1>2, Types DEF RegisterReplacement, Shape, Directory
  <2>3. Change(d) \/ Synced(d) \/ UNCHANGED <<dir, since>>
    BY DEF RegisterReplacement, Give, WriteManifest
  <2> QED BY <1>0, <2>1, <2>2, <2>3, DirectoryMoves
<1>5. Stage(p)'
  <2>1. proc'[p].pc \in Anywhere \/ (proc'[p].pc = "preserve" /\ dir' = d /\
     proc'[p].generation = proc[p].generation)
    BY <1>0, ToTurns, StopTurns, RecoverTurns DEF RegisterReplacement, Give, WriteManifest,
       Change, Synced, Anywhere, Outside, Steps
  <2>2. ASSUME proc'[p].pc = "preserve", dir' = d /\
     proc'[p].generation = proc[p].generation PROVE Stage(p)'
    BY <1>0, <1>1, <1>2, <2>2, Types DEF Stage, Directory, Replacing
  <2> QED BY <2>1, <2>2, AnywhereStage
<1>6. mishaps' \in Nat
  BY <1>0, Types, MishapCounts DEF RegisterReplacement, Give, WriteManifest
<1>7. db' \in [Files -> Contents] /\ accepted' \in Nat /\ binary' \in Nat
  BY <1>0, Types DEF RegisterReplacement, data
<1> QED BY <1>1, <1>3, <1>4, <1>5, <1>6, <1>7, StepKeepsControl

\* The control of the directory survives renaming the source to the backup.
LEMMA ControlPreserveSource ==
    ASSUME ControlInv, NEW p \in Processes, PreserveSource(p) PROVE ControlInv'
<1> DEFINE d == [dir EXCEPT !.backup = dir.source, !.source = None]
<1>0. TypeOK /\ Shapes
  BY DEF ControlInv
<1>1. owner = p /\ Stage(p) /\ Shape(dir) /\ p # Nobody
  BY OwnerStage DEF PreserveSource, At, Outside
<1>2. dir.phase = "validated" /\ dir.source # None /\ dir.candidate # None /\
   dir.target = proc[p].generation
  BY <1>1 DEF PreserveSource, Stage, Shape, At
<1>3. Turns(p) /\ Locks(p)
  BY <1>0, <1>1, ToTurns, RecoverTurns DEF PreserveSource, Rename, Locks, Outside, Steps
<1>4. Moves
  <2>1. d \in Directory
    BY <1>0, Types DEF Directory, None
  <2>2. Shape(d)
    BY <1>0, <1>1, <1>2, Types DEF PreserveSource, Shape, Directory
  <2>3. Change(d) \/ Synced(d) \/ UNCHANGED <<dir, since>>
    BY DEF PreserveSource, Rename
  <2> QED BY <1>0, <2>1, <2>2, <2>3, DirectoryMoves
<1>5. Stage(p)'
  <2>1. proc'[p].pc \in Anywhere \/ (proc'[p].pc = "record preserved" /\ dir' = d /\
     proc'[p].generation = proc[p].generation)
    BY <1>0, ToTurns, RecoverTurns
       DEF PreserveSource, Rename, Change, Synced, Anywhere, Outside, Steps
  <2>2. ASSUME proc'[p].pc = "record preserved", dir' = d /\
     proc'[p].generation = proc[p].generation PROVE Stage(p)'
    BY <1>0, <1>1, <1>2, <2>2, Types DEF Stage, Directory, Replacing
  <2> QED BY <2>1, <2>2, AnywhereStage
<1>6. mishaps' \in Nat
  BY <1>0, Types, MishapCounts DEF PreserveSource, Rename
<1>7. db' \in [Files -> Contents] /\ accepted' \in Nat /\ binary' \in Nat
  BY <1>0, Types DEF PreserveSource, data
<1> QED BY <1>1, <1>3, <1>4, <1>5, <1>6, <1>7, StepKeepsControl

\* The control of the directory survives recording that the source is preserved.
LEMMA ControlRecordPreserved ==
    ASSUME ControlInv, NEW p \in Processes, RecordPreserved(p) PROVE ControlInv'
<1> DEFINE d == [dir EXCEPT !.phase = "source-preserved", !.target = proc[p].generation]
<1>0. TypeOK /\ Shapes
  BY DEF ControlInv
<1>1. owner = p /\ Stage(p) /\ Shape(dir) /\ p # Nobody
  BY OwnerStage DEF RecordPreserved, At, Outside
<1>2. dir.source = None /\ dir.backup # None /\ dir.candidate # None
  BY <1>1 DEF RecordPreserved, Stage, Shape, At
<1>3. Turns(p) /\ Locks(p)
  BY <1>0, <1>1, ToTurns, StopTurns, RecoverTurns
     DEF RecordPreserved, WriteManifest, Locks, Outside, Steps
<1>4. Moves
  <2>1. d \in Directory
    BY <1>0, Types DEF Directory, Replacing, Progress
  <2>2. Shape(d)
    BY <1>0, <1>1, <1>2, Types DEF RecordPreserved, Shape, Directory
  <2>3. Change(d) \/ Synced(d) \/ UNCHANGED <<dir, since>>
    BY DEF RecordPreserved, WriteManifest
  <2> QED BY <1>0, <2>1, <2>2, <2>3, DirectoryMoves
<1>5. Stage(p)'
  <2>1. proc'[p].pc \in Anywhere \/ (proc'[p].pc = "place" /\ dir' = d /\
     proc'[p].generation = proc[p].generation)
    BY <1>0, ToTurns, StopTurns, RecoverTurns
       DEF RecordPreserved, WriteManifest, Change, Synced, Anywhere, Outside, Steps
  <2>2. ASSUME proc'[p].pc = "place", dir' = d /\ proc'[p].generation = proc[p].generation
     PROVE Stage(p)'
    BY <1>0, <1>1, <1>2, <2>2, Types DEF Stage, Directory, Replacing
  <2> QED BY <2>1, <2>2, AnywhereStage
<1>6. mishaps' \in Nat
  BY <1>0, Types, MishapCounts DEF RecordPreserved, WriteManifest
<1>7. db' \in [Files -> Contents] /\ accepted' \in Nat /\ binary' \in Nat
  BY <1>0, Types DEF RecordPreserved, data
<1> QED BY <1>1, <1>3, <1>4, <1>5, <1>6, <1>7, StepKeepsControl

\* The control of the directory survives renaming the candidate to the source.
LEMMA ControlPlaceCandidate ==
    ASSUME ControlInv, NEW p \in Processes, PlaceCandidate(p) PROVE ControlInv'
<1> DEFINE d == [dir EXCEPT !.source = dir.candidate, !.candidate = None]
<1>0. TypeOK /\ Shapes
  BY DEF ControlInv
<1>1. owner = p /\ Stage(p) /\ Shape(dir) /\ p # Nobody
  BY OwnerStage DEF PlaceCandidate, At, Outside
<1>2. dir.phase = "source-preserved" /\ dir.backup # None /\ dir.candidate # None
  BY <1>1 DEF PlaceCandidate, Stage, Shape, At
<1>3. Turns(p) /\ Locks(p)
  BY <1>0, <1>1, ToTurns, RecoverTurns DEF PlaceCandidate, Rename, Locks, Outside, Steps
<1>4. Moves
  <2>1. d \in Directory
    BY <1>0, Types DEF Directory, None
  <2>2. Shape(d)
    BY <1>0, <1>1, <1>2, Types DEF PlaceCandidate, Shape, Directory
  <2>3. Change(d) \/ Synced(d) \/ UNCHANGED <<dir, since>>
    BY DEF PlaceCandidate, Rename
  <2> QED BY <1>0, <2>1, <2>2, <2>3, DirectoryMoves
<1>5. Stage(p)'
  <2>1. proc'[p].pc \in Anywhere \/ (proc'[p].pc = "record installed" /\ dir' = d)
    BY <1>0, ToTurns, RecoverTurns
       DEF PlaceCandidate, Rename, Change, Synced, Anywhere, Outside, Steps
  <2>2. ASSUME proc'[p].pc = "record installed", dir' = d PROVE Stage(p)'
    BY <1>0, <1>1, <1>2, <2>2, Types DEF Stage, Directory, Replacing
  <2> QED BY <2>1, <2>2, AnywhereStage
<1>6. mishaps' \in Nat
  BY <1>0, Types, MishapCounts DEF PlaceCandidate, Rename
<1>7. db' \in [Files -> Contents] /\ accepted' \in Nat /\ binary' \in Nat
  BY <1>0, Types DEF PlaceCandidate, data
<1> QED BY <1>1, <1>3, <1>4, <1>5, <1>6, <1>7, StepKeepsControl

\* The control of the directory survives recording the installation.
LEMMA ControlRecordInstalled ==
    ASSUME ControlInv, NEW p \in Processes, RecordInstalled(p) PROVE ControlInv'
<1> DEFINE d == [dir EXCEPT !.phase = "installed", !.target = proc[p].generation]
<1>0. TypeOK /\ Shapes
  BY DEF ControlInv
<1>1. owner = p /\ Stage(p) /\ Shape(dir) /\ p # Nobody
  BY OwnerStage DEF RecordInstalled, At, Outside
<1>2. dir.source # None /\ dir.backup # None
  BY <1>1 DEF RecordInstalled, Stage, Shape, At
<1>3. Turns(p) /\ Locks(p)
  BY <1>0, <1>1, ToTurns, StopTurns, RecoverTurns
     DEF RecordInstalled, WriteManifest, Locks, Outside, Steps
<1>4. Moves
  <2>1. d \in Directory
    BY <1>0, Types DEF Directory, Replacing, Progress
  <2>2. Shape(d)
    BY <1>0, <1>1, <1>2, Types DEF RecordInstalled, Shape, Directory
  <2>3. Change(d) \/ Synced(d) \/ UNCHANGED <<dir, since>>
    BY DEF RecordInstalled, WriteManifest
  <2> QED BY <1>0, <2>1, <2>2, <2>3, DirectoryMoves
<1>5. Stage(p)'
  <2>1. proc'[p].pc \in Anywhere \/ (proc'[p].pc = "validate" /\ dir' = d)
    BY <1>0, ToTurns, StopTurns, RecoverTurns
       DEF RecordInstalled, WriteManifest, Change, Synced, Anywhere, Outside, Steps
  <2>2. ASSUME proc'[p].pc = "validate", dir' = d PROVE Stage(p)'
    BY <1>0, <1>1, <1>2, <2>2, Types DEF Stage, Directory, Replacing
  <2> QED BY <2>1, <2>2, AnywhereStage
<1>6. mishaps' \in Nat
  BY <1>0, Types, MishapCounts DEF RecordInstalled, WriteManifest
<1>7. db' \in [Files -> Contents] /\ accepted' \in Nat /\ binary' \in Nat
  BY <1>0, Types DEF RecordInstalled, data
<1> QED BY <1>1, <1>3, <1>4, <1>5, <1>6, <1>7, StepKeepsControl

\* The control of the directory survives validating the installed candidate.
LEMMA ControlValidateInstalled ==
    ASSUME ControlInv, NEW p \in Processes, ValidateInstalled(p) PROVE ControlInv'
<1>0. TypeOK /\ Shapes
  BY DEF ControlInv
<1>1. owner = p /\ Stage(p) /\ Shape(dir) /\ p # Nobody
  BY OwnerStage DEF ValidateInstalled, At, Outside
<1>2. dir.phase = "installed" /\ dir.source # None /\ dir.backup # None
  BY <1>1 DEF ValidateInstalled, Stage, Shape, At
<1>3. Turns(p) /\ Locks(p)
  BY <1>0, <1>1, ToTurns, RecoverTurns DEF ValidateInstalled, Locks, Outside, Steps
<1>4. Moves
  BY <1>0, DirectoryStays DEF ValidateInstalled
<1>5. Stage(p)'
  <2>1. proc'[p].pc \in Anywhere \/ (proc'[p].pc = "record verified" /\ dir' = dir)
    BY <1>0, ToTurns, RecoverTurns
       DEF ValidateInstalled, Change, Synced, Anywhere, Outside, Steps
  <2>2. ASSUME proc'[p].pc = "record verified", dir' = dir PROVE Stage(p)'
    BY <1>0, <1>1, <1>2, <2>2, Types DEF Stage, Directory, Replacing
  <2> QED BY <2>1, <2>2, AnywhereStage
<1>6. mishaps' \in Nat
  BY <1>0, Types, MishapCounts DEF ValidateInstalled
<1>7. db' \in [Files -> Contents] /\ accepted' \in Nat /\ binary' \in Nat
  BY <1>0, Types DEF ValidateInstalled, data
<1> QED BY <1>1, <1>3, <1>4, <1>5, <1>6, <1>7, StepKeepsControl

\* The control of the directory survives recording that it is verified.
LEMMA ControlRecordVerified ==
    ASSUME ControlInv, NEW p \in Processes, RecordVerified(p) PROVE ControlInv'
<1> DEFINE d == [dir EXCEPT !.phase = "verified"]
<1>0. TypeOK /\ Shapes
  BY DEF ControlInv
<1>1. owner = p /\ Stage(p) /\ Shape(dir) /\ p # Nobody
  BY OwnerStage DEF RecordVerified, At, Outside
<1>2. dir.source # None
  BY <1>1 DEF RecordVerified, Stage, Shape, At
<1>3. Turns(p) /\ Locks(p)
  BY <1>0, <1>1, BothTurns, RecoverTurns DEF RecordVerified, Locks, Outside, Steps
<1>4. Moves
  <2>1. d \in Directory
    BY <1>0, Types DEF Directory, Replacing
  <2>2. Shape(d)
    BY <1>0, <1>1, <1>2, Types DEF RecordVerified, Shape, Directory
  <2>3. Change(d) \/ Synced(d) \/ UNCHANGED <<dir, since>>
    BY DEF RecordVerified
  <2> QED BY <1>0, <2>1, <2>2, <2>3, DirectoryMoves
<1>5. Stage(p)'
  <2>1. proc'[p].pc \in Anywhere \/ (proc'[p].pc = "drop backup" /\ dir' = d)
    BY <1>0, BothTurns, RecoverTurns
       DEF RecordVerified, Change, Synced, Anywhere, Outside, Steps
  <2>2. ASSUME proc'[p].pc = "drop backup", dir' = d PROVE Stage(p)'
    BY <1>0, <1>1, <1>2, <2>2, Types DEF Stage, Directory, Replacing
  <2> QED BY <2>1, <2>2, AnywhereStage
<1>6. mishaps' \in Nat
  BY <1>0, Types, MishapCounts DEF RecordVerified
<1>7. db' \in [Files -> Contents] /\ accepted' \in Nat /\ binary' \in Nat
  BY <1>0, Types DEF RecordVerified, data
<1> QED BY <1>1, <1>3, <1>4, <1>5, <1>6, <1>7, StepKeepsControl
\* The control of the directory survives the beginning of a candidate.
LEMMA ControlBeginCandidate ==
    ASSUME ControlInv, NEW p \in Processes, BeginCandidate(p) PROVE ControlInv'
<1>0. TypeOK /\ Shapes
  BY DEF ControlInv
<1>1. owner = p /\ Stage(p) /\ Shape(dir) /\ p # Nobody
  BY OwnerStage DEF BeginCandidate, At, Outside
<1>2. dir.phase = "none" /\ dir.source # None /\ dir.backup = None
  BY <1>1 DEF BeginCandidate, Stage, Shape, At
<1>3. Turns(p) /\ Locks(p) /\ proc'[p].pc = "replay"
  BY <1>0, <1>1, ToTurns DEF BeginCandidate, Locks, Outside, Steps
<1>4. PICK f \in FreshFile :
         /\ Change([dir EXCEPT !.candidate = f])
         /\ db' = [db EXCEPT ![f] = [generation |-> 0, exports |-> 0, whole |-> FALSE]]
  BY DEF BeginCandidate
<1> DEFINE d == [dir EXCEPT !.candidate = f]
<1>5. f \in Files /\ f # None /\ f # dir.source /\ f # dir.backup
  BY <1>0, <1>2, Types, Parameters DEF FreshFile, Free, Named, None
<1>6. Moves
  <2>1. d \in Directory
    BY <1>0, <1>5, Types DEF Directory
  <2>2. Shape(d)
    BY <1>0, <1>2, <1>5, Types DEF Shape, Directory
  <2> QED BY <1>0, <1>4, <2>1, <2>2, DirectoryMoves
<1>7. Stage(p)'
  BY <1>0, <1>2, <1>3, <1>4, <1>5, Types DEF Stage, Change, Directory
<1>8. db' \in [Files -> Contents]
  BY <1>0, <1>4, Types DEF Contents
<1>9. accepted' \in Nat /\ binary' \in Nat /\ mishaps' \in Nat
  BY <1>0, Types DEF BeginCandidate
<1> QED BY <1>1, <1>3, <1>6, <1>7, <1>8, <1>9, StepKeepsControl

\* The control of the directory survives the replay into the candidate.
LEMMA ControlFinishCandidate ==
    ASSUME ControlInv, NEW p \in Processes, FinishCandidate(p) PROVE ControlInv'
<1>0. TypeOK /\ Shapes
  BY DEF ControlInv
<1>1. owner = p /\ Stage(p) /\ Shape(dir) /\ p # Nobody
  BY OwnerStage DEF FinishCandidate, At, Outside
<1>2. dir.phase = "none" /\ dir.source # None /\ dir.candidate # None
  BY <1>1 DEF FinishCandidate, Stage, At
<1>3. Turns(p) /\ Locks(p) /\ proc'[p].pc = "register"
  BY <1>0, <1>1, ToTurns DEF FinishCandidate, Locks, Outside, Steps
<1>4. Moves
  BY <1>0, DirectoryStays DEF FinishCandidate
<1>5. Stage(p)'
  BY <1>2, <1>3 DEF Stage, FinishCandidate
<1>6. db' \in [Files -> Contents]
  <2>1. dir.source \in Files
    BY <1>0, <1>2, Types DEF Directory
  <2>2. proc[p].generation \in Nat
    BY <1>0, Types DEF Progress
  <2>3. db[dir.source].exports \in Nat
    BY <1>0, <2>1, Types DEF Contents
  <2> QED BY <1>0, <2>2, <2>3, Types DEF FinishCandidate, Contents
<1>7. accepted' \in Nat /\ binary' \in Nat /\ mishaps' \in Nat
  BY <1>0, Types DEF FinishCandidate
<1> QED BY <1>1, <1>3, <1>4, <1>5, <1>6, <1>7, StepKeepsControl

\* The control of the directory survives the start of a process.
LEMMA ControlStart ==
    ASSUME ControlInv, NEW p \in Processes, Start(p) PROVE ControlInv'
<1>0. TypeOK /\ Shapes
  BY DEF ControlInv
<1>1. Turns(p) /\ proc'[p].pc = "lock"
  BY <1>0 DEF TypeOK, Start, Turns, Progress
<1>2. owner # p
  BY DEF ControlInv, OwnerRuns, Start, At, Outside
<1>3. Locks(p)
  BY <1>1, <1>2 DEF Locks, Start, Outside
<1>4. Moves
  BY <1>0, DirectoryStays DEF Start
<1>5. Stage(p)'
  BY <1>1, AnywhereStage DEF Anywhere, Outside
<1> QED BY <1>0, <1>1, <1>3, <1>4, <1>5, Types, StepKeepsControl DEF Start, data

\* The control of the directory survives taking the lock.
LEMMA ControlLockForMigration ==
    ASSUME ControlInv, NEW p \in Processes, LockForMigration(p) PROVE ControlInv'
<1>0. TypeOK /\ Shapes
  BY DEF ControlInv
<1>1. Turns(p) /\ proc'[p].pc = "recover"
  BY <1>0, ToTurns DEF LockForMigration, Steps
<1>3. Locks(p)
  BY <1>1 DEF Locks, LockForMigration, Outside
<1>4. Moves
  BY <1>0, DirectoryStays DEF LockForMigration
<1>5. Stage(p)'
  BY <1>1, AnywhereStage DEF Anywhere
<1> QED BY <1>0, <1>1, <1>3, <1>4, <1>5, Types, StepKeepsControl DEF LockForMigration, data

\* The control of the directory survives opening the store.
LEMMA ControlOpenStore ==
    ASSUME ControlInv, NEW p \in Processes, OpenStore(p) PROVE ControlInv'
<1>0. TypeOK /\ Shapes /\ Shape(dir)
  BY DEF ControlInv, Shapes, TypeOK
<1>1. owner # p
  BY DEF ControlInv, OwnerRuns, OpenStore, At, Outside
<1>2. accepted' \in Nat /\ binary' \in Nat /\ mishaps' \in Nat
  BY <1>0, Types, MishapCounts DEF OpenStore
<1>3. CASE proc' = [proc EXCEPT ![p] = Stopped] /\ UNCHANGED <<dir, since, db, owner>>
  <2>1. Turns(p) /\ proc'[p].pc = "stopped"
    BY <1>0, <1>3, StopTurns
  <2>2. Locks(p) /\ Stage(p)'
    BY <1>1, <1>3, <2>1, AnywhereStage DEF Locks, Anywhere, Outside
  <2>3. Moves
    BY <1>0, <1>3, DirectoryStays
  <2> QED BY <1>0, <1>2, <1>3, <2>1, <2>2, <2>3, Types, StepKeepsControl
<1>4. ASSUME owner = Nobody, ~Pending, owner' = p, To(p, "serving") 
      PROVE  Turns(p) /\ Locks(p) /\ proc'[p].pc = "serving" /\ dir.phase = "none"
  BY <1>0, <1>4, ToTurns DEF Locks, Outside, Steps, Pending
<1>5. CASE /\ owner = Nobody /\ ~Pending /\ dir.source # None
           /\ owner' = p /\ To(p, "serving") /\ UNCHANGED <<dir, since, db>>
  <2>1. Moves
    BY <1>0, <1>5, DirectoryStays
  <2>2. Stage(p)'
    BY <1>4, <1>5 DEF Stage
  <2> QED BY <1>0, <1>2, <1>4, <1>5, <2>1, <2>2, Types, StepKeepsControl
<1>6. CASE /\ owner = Nobody /\ ~Pending /\ owner' = p /\ To(p, "serving")
           /\ \E f \in FreshFile :
                /\ Synced([dir EXCEPT !.source = f])
                /\ db' = [db EXCEPT ![f] = [generation |-> proc[p].generation,
                                            exports |-> 0, whole |-> TRUE]]
  <2>1. PICK f \in FreshFile :
                /\ Synced([dir EXCEPT !.source = f])
                /\ db' = [db EXCEPT ![f] = [generation |-> proc[p].generation,
                                            exports |-> 0, whole |-> TRUE]]
    BY <1>6
  <2>2. f \in Files /\ f # None /\ f # dir.candidate
    BY <1>0, Types, Parameters DEF FreshFile, Free, Named, None
  <2>3. Turns(p) /\ Locks(p) /\ proc'[p].pc = "serving" /\ dir.phase = "none" /\
     dir.backup = None
    BY <1>0, <1>4, <1>6 DEF Shape
  <2> DEFINE d == [dir EXCEPT !.source = f]
  <2>4. d \in Directory
    BY <1>0, <2>2, Types DEF Directory
  <2>5. Shape(d)
    BY <1>0, <2>2, <2>3, Types DEF Shape, Directory
  <2>6. Moves
    BY <1>0, <2>1, <2>4, <2>5, DirectoryMoves
  <2>7. Stage(p)'
    BY <1>0, <2>1, <2>2, <2>3, Types DEF Stage, Synced, Directory
  <2>8. proc[p].generation \in Nat
    BY <1>0, Types DEF Progress
  <2>9. db' \in [Files -> Contents]
    BY <1>0, <2>1, <2>8, Types DEF Contents
  <2> QED BY <1>2, <1>6, <2>3, <2>6, <2>7, <2>9, StepKeepsControl
<1> QED BY <1>3, <1>5, <1>6 DEF OpenStore

\* The control of the directory survives accepting an export.
LEMMA ControlAccept ==
    ASSUME ControlInv, NEW p \in Processes, Accept(p) PROVE ControlInv'
<1>0. TypeOK
  BY DEF ControlInv
<1>1. Stage(p)
  BY DEF ControlInv, Stages
<1>2. dir.source \in Files
  BY <1>0, <1>1, Types DEF Accept, At, Stage, Directory
<1>3. db[dir.source] \in Contents
  BY <1>0, <1>2, Types
<1>4. db[dir.source].exports + 1 \in Nat /\ accepted + 1 \in Nat
  BY <1>0, <1>3, Types DEF Contents
<1>5. [db[dir.source] EXCEPT !.exports = db[dir.source].exports + 1] \in Contents
  BY <1>3, <1>4 DEF Contents
<1>6. db' \in [Files -> Contents] /\ accepted' \in Nat
  BY <1>0, <1>4, <1>5, Types DEF Accept
<1> QED BY <1>6 DEF Accept, ControlInv, TypeOK, OwnerRuns, Shapes, Stages, Stage

\* The control of the directory survives stopping.
LEMMA ControlStop ==
    ASSUME ControlInv, NEW p \in Processes, Stop(p) PROVE ControlInv'
<1>0. TypeOK /\ Shapes
  BY DEF ControlInv
<1>1. owner = p /\ p # Nobody
  BY OwnerStage DEF Stop, At, Outside
<1>2. Turns(p) /\ proc'[p].pc = "stopped"
  BY <1>0, StopTurns DEF Stop, Give
<1>3. Locks(p) /\ Stage(p)'
  BY <1>1, <1>2, AnywhereStage DEF Locks, Anywhere, Outside, Stop, Give
<1>4. Moves
  BY <1>0, DirectoryStays DEF Stop
<1> QED BY <1>0, <1>2, <1>3, <1>4, Types, StepKeepsControl DEF Stop, data

\* The control of the directory survives a crash.
LEMMA ControlCrash ==
    ASSUME ControlInv, NEW p \in Processes, Crash(p) PROVE ControlInv'
<1>0. TypeOK /\ Shapes
  BY DEF ControlInv
<1>2. Turns(p) /\ proc'[p].pc = "stopped"
  BY <1>0, StopTurns DEF Crash
<1>3. Locks(p) /\ Stage(p)'
  BY <1>2, AnywhereStage DEF Locks, Anywhere, Outside, Crash
<1>4. Moves
  BY <1>0, DirectoryStays DEF Crash
<1>5. mishaps' \in Nat
  BY <1>0, MishapCounts DEF Crash
<1> QED BY <1>0, <1>2, <1>3, <1>4, <1>5, Types, StepKeepsControl DEF Crash, data

\* The control of the directory survives a new release.
LEMMA ControlUpgrade ==
    ASSUME ControlInv, Upgrade PROVE ControlInv'
<1>1. binary' \in Nat
  BY Types DEF Upgrade, ControlInv
<1> QED BY <1>1 DEF Upgrade, ControlInv, TypeOK, OwnerRuns, Shapes, Stages, Stage

\* The control of the directory survives a power loss.
LEMMA ControlPowerLoss ==
    ASSUME ControlInv, PowerLoss PROVE ControlInv'
<1>1. mishaps' \in Nat
  BY MishapCounts DEF PowerLoss, ControlInv
<1>2. \A p \in Processes : proc'[p].pc = "stopped"
  BY DEF PowerLoss, Stopped
<1>3. proc' \in [Processes -> Progress]
  BY DEF PowerLoss, Stopped, Progress
<1>4. TypeOK'
  BY <1>1, <1>3 DEF PowerLoss, Synced, ControlInv, TypeOK, data
<1>5. OwnerRuns'
  BY <1>2, Parameters DEF PowerLoss, OwnerRuns, Outside
<1>6. Shapes'
  BY DEF PowerLoss, Synced, ControlInv, Shapes
<1>7. Stages'
  BY <1>2, AnywhereStage DEF Stages, Anywhere, Outside
<1> QED BY <1>4, <1>5, <1>6, <1>7 DEF ControlInv

\* The control of the directory survives damage to the candidate.
LEMMA ControlDamage ==
    ASSUME ControlInv, Damage PROVE ControlInv'
<1>1. mishaps' \in Nat
  BY MishapCounts DEF Damage, ControlInv
<1>2. db' \in [Files -> Contents]
  BY Types DEF Damage, ControlInv, Contents
<1> QED BY <1>1, <1>2 DEF Damage, ControlInv, TypeOK, OwnerRuns, Shapes, Stages, Stage

\* At first the directory is well shaped and nobody works on it.
LEMMA ControlInit == Init => ControlInv
<1> SUFFICES ASSUME Init PROVE ControlInv
  OBVIOUS
<1>1. dir \in Directory
  BY DEF Init, Directory, None
<1>2. proc \in [Processes -> Progress] /\ \A p \in Processes : proc[p].pc = "stopped"
  BY DEF Init, Stopped, Progress
<1>3. TypeOK
  BY <1>1, <1>2 DEF Init, TypeOK, Contents
<1>4. OwnerRuns
  BY <1>2, Parameters DEF Init, OwnerRuns, Outside
<1>5. Shapes
  BY DEF Init, Shapes, Shape
<1>6. Stages
  BY <1>2, OutsideStage DEF Stages, Outside
<1> QED BY <1>3, <1>4, <1>5, <1>6 DEF ControlInv

\* Every step keeps the control of the directory.
LEMMA ControlStep == ControlInv /\ [Next]_vars => ControlInv'
<1> SUFFICES ASSUME ControlInv, [Next]_vars PROVE ControlInv'
  OBVIOUS
<1>1. ASSUME NEW p \in Processes, Recovering(p) PROVE ControlInv'
  BY <1>1, ControlNothingToRecover, ControlRefuseRecovery, ControlRestoreLegacy,
     ControlAbandonReplacement, ControlValidateAgain, ControlSetAside, ControlBringBack,
     ControlTidy, ControlDropBackup, ControlDropCandidate, ControlUnregister DEF Recovering
<1>2. ASSUME NEW p \in Processes, Migrating(p) PROVE ControlInv'
  BY <1>2, ControlDecide, ControlBeginCandidate, ControlFinishCandidate, ControlBuildFails,
     ControlRegisterReplacement, ControlPreserveSource, ControlRecordPreserved,
     ControlPlaceCandidate, ControlRecordInstalled, ControlValidateInstalled,
     ControlRecordVerified DEF Migrating
<1>3. ASSUME NEW p \in Processes, Start(p) \/ Step(p) \/ Accept(p) \/ Stop(p) \/ Crash(p)
      PROVE  ControlInv'
  BY <1>1, <1>2, <1>3, ControlStart, ControlLockForMigration, ControlOpenStore,
     ControlAccept,
     ControlStop, ControlCrash DEF Step
<1>4. CASE UNCHANGED vars
  BY <1>4 DEF vars, ControlInv, TypeOK, OwnerRuns, Shapes, Stages, Stage
<1> QED BY <1>3, <1>4, ControlUpgrade, ControlPowerLoss, ControlDamage DEF Next

(* Whatever interrupts a replacement, one process at a time works on the    *)
(* directory, every step of it finds the files it is about to rename, and   *)
(* what a power loss leaves is a directory recoverOwned can read: with a    *)
(* manifest there is a source or a backup, without one no backup.           *)
THEOREM ControlHolds == Spec => []ControlInv
<1>1. Init => ControlInv
  BY ControlInit
<1>2. ControlInv /\ [Next]_vars => ControlInv'
  BY ControlStep
<1> QED BY <1>1, <1>2, PTL DEF Spec

(* A backup never outlives its manifest, for any number of crashes, power   *)
(* losses, failing operations and damaged candidates: removeManifest comes  *)
(* last in finalizeReplacement, and the renames are undone in order.        *)
THEOREM BackupHasManifest == Spec => []NoOrphanedBackup
<1>1. ControlInv => NoOrphanedBackup
  BY DEF ControlInv, Shapes, Shape, TypeOK, NoOrphanedBackup
<1> QED BY <1>1, ControlHolds, PTL

-----------------------------------------------------------------------------
(* What the files hold *)

\* The directories the next step or a power loss may leave.
Possible == IF "power" \in Mishaps THEN since ELSE {dir}

Keeps(f) == db[f].whole /\ db[f].exports = accepted

\* No directory leaves the service without its exports.
Kept(d) ==
    /\ d.phase = "none" /\ d.source = None => accepted = 0
    /\ d.source # None /\ d.backup = None => Keeps(d.source)
    /\ d.backup # None => Keeps(d.backup)
    /\ d.source # None /\ d.backup # None => db[d.source].exports = accepted

AllKept == \A d \in Possible : Kept(d)

\* What is written to the candidate is written to no database that may come
\* back, and what is served is the source of all of them.
Apart ==
    /\ \A d, e \in Possible : d.candidate # None => d.candidate \notin {e.source, e.backup}
    /\ \A d \in Possible : dir.phase = "none" => d.phase = "none" /\ d.source = dir.source

\* The candidate is complete before it is registered, and the installed
\* database whole before its backup is dropped.
Ready(p) ==
    LET pc == proc[p].pc
    IN  /\ pc \in {"register", "preserve", "record preserved", "place"} =>
              /\ db[dir.candidate].exports = accepted
              /\ db[dir.candidate].generation = proc[p].generation
        /\ pc \in {"record verified", "drop backup"} => db[dir.source].whole

AllReady == \A p \in Processes : Ready(p)

DataInv == AllKept /\ Apart /\ AllReady

\* Power losses and failing operations do not come together.
Recoverable == ~({"power", "fault"} \subseteq Mishaps)

Guarded == {"register", "preserve", "record preserved", "place", "record verified",
   "drop backup"}

\* Steps that are not guarded need no data.
LEMMA UnguardedReady ==
    ASSUME NEW p, proc'[p].pc \notin Guarded PROVE Ready(p)'
BY DEF Ready, Guarded

\* Process p turns to another step, and no other one does.
LEMMA ToPc ==
    ASSUME TypeOK, NEW p \in Processes, NEW pc \in Steps, To(p, pc)
    PROVE  /\ proc'[p].pc = pc /\ proc'[p].generation = proc[p].generation
           /\ \A q \in Processes \ {p} : proc'[q] = proc[q]
BY DEF TypeOK, To, Progress

\* Process p stops, and no other one does.
LEMMA StopPc ==
    ASSUME TypeOK, NEW p \in Processes, proc' = [proc EXCEPT ![p] = Stopped]
    PROVE  proc'[p].pc = "stopped" /\ \A q \in Processes \ {p} : proc'[q] = proc[q]
BY DEF TypeOK, Stopped

\* Process p gives the lock up and stops.
LEMMA GivePc ==
    ASSUME TypeOK, NEW p \in Processes, Give(p)
    PROVE  /\ proc'[p].pc = "stopped" /\ owner' = Nobody
           /\ \A q \in Processes \ {p} : proc'[q] = proc[q]
BY StopPc DEF Give

\* Process p goes back to the recovery.
LEMMA RecoverPc ==
    ASSUME TypeOK, NEW p \in Processes, RecoverAfterError(p)
    PROVE  proc'[p].pc = "recover" /\ UNCHANGED owner
BY DEF TypeOK, RecoverAfterError, Progress

\* Process p goes on, with the lock or without it.
LEMMA ProceedPc ==
    ASSUME TypeOK, NEW p \in Processes, Proceed(p)
    PROVE  /\ proc'[p].pc \in {"decide", "open", "stopped"} /\ owner' \in {owner, Nobody}
           /\ \A q \in Processes \ {p} : proc'[q] = proc[q]
BY ToPc, GivePc DEF Proceed, Steps

\* Only the owner of the lock has anything to be ready for.
LEMMA OwnerReady ==
    ASSUME ControlInv', NEW p \in Processes, owner' \in {p, Nobody}, Ready(p)'
    PROVE  AllReady'
<1>1. ASSUME NEW q \in Processes, q # p PROVE proc'[q].pc \in Outside
  BY <1>1, Parameters DEF ControlInv, OwnerRuns
<1>2. ASSUME NEW q \in Processes, q # p PROVE Ready(q)'
  BY <1>1, <1>2, UnguardedReady DEF Outside, Guarded
<1> QED BY <1>2 DEF AllReady

\* The owner of the lock finds files and data as it expects them.
LEMMA OwnerFinds ==
    ASSUME ControlInv, DataInv, NEW p \in Processes, proc[p].pc \notin Outside
    PROVE  owner = p /\ Stage(p) /\ Ready(p) /\ Shape(dir) /\ Kept(dir) /\ dir \in Possible
BY OwnerStage DEF ControlInv, TypeOK, DataInv, AllReady, AllKept, Possible

\* A directory keeps the exports while the files stay as they are.
LEMMA KeptStays ==
    ASSUME UNCHANGED data, NEW d, Kept(d) PROVE Kept(d)'
BY DEF data, Kept, Keeps

\* The files stay as they are and the directory changes: durably, by an
\* operation that fails, or so that no name gets a file it did not have.
LEMMA MovedData ==
    ASSUME ControlInv, DataInv, Recoverable, UNCHANGED data, NEW d, Shape(d), Kept(d),
           \/ Synced(d)
           \/ Change(d) /\ Mishap("fault")
           \/ /\ Change(d) /\ d.phase # "none"
              /\ d.source \in {None, dir.source, dir.backup}
              /\ d.backup \in {None, dir.source, dir.backup}
              /\ d.candidate \in {None, dir.candidate}
    PROVE  AllKept' /\ Apart'
<1>1. dir' = d /\ Kept(d)'
  BY KeptStays DEF Synced, Change
<1>2. dir \in Possible
  BY DEF ControlInv, TypeOK, Possible
<1>3. CASE Possible' = {d}
  BY <1>1, <1>3 DEF AllKept, Apart, Shape
<1>4. CASE /\ Possible' \subseteq Possible \cup {d} /\ d.phase # "none"
           /\ d.source \in {None, dir.source, dir.backup}
           /\ d.backup \in {None, dir.source, dir.backup}
           /\ d.candidate \in {None, dir.candidate}
  <2>1. AllKept'
    BY <1>1, <1>4, KeptStays DEF DataInv, AllKept
  <2>2. ASSUME NEW x \in Possible', NEW y \in Possible', x.candidate # None
        PROVE  x.candidate \notin {y.source, y.backup}
    BY <1>2, <1>4, <2>2 DEF DataInv, Apart, Shape
  <2>3. Apart'
    BY <1>1, <1>4, <2>2 DEF Apart
  <2> QED BY <2>1, <2>3
<1> QED BY <1>1, <1>3, <1>4 DEF Possible, Synced, Change, Mishap, Recoverable

\* Nothing is lost while neither the directory nor the files change.
LEMMA StaysData ==
    ASSUME DataInv, UNCHANGED <<dir, since, data>> PROVE AllKept' /\ Apart'
BY KeptStays DEF DataInv, AllKept, Apart, Possible

\* A step of a process that changes neither keeps everything.
LEMMA QuietStep ==
    ASSUME DataInv, NEW p \in Processes, UNCHANGED <<dir, since, data>>,
           \A q \in Processes \ {p} : proc'[q] = proc[q], Ready(p)'
    PROVE  DataInv'
<1>1. ASSUME NEW q \in Processes \ {p} PROVE Ready(q)'
  BY DEF DataInv, AllReady, Ready, data
<1> QED BY <1>1, StaysData DEF DataInv, AllReady

\* No data is lost by the start of a process.
LEMMA DataStart ==
    ASSUME ControlInv, DataInv, NEW p \in Processes, Start(p) PROVE DataInv'
<1>1. TypeOK
  BY DEF ControlInv
<1>2. proc'[p].pc \notin Guarded /\ \A q \in Processes \ {p} : proc'[q] = proc[q]
  BY <1>1 DEF Start, TypeOK, Guarded
<1> QED BY <1>2, QuietStep, UnguardedReady DEF Start

\* No data is lost by taking the lock.
LEMMA DataLockForMigration ==
    ASSUME ControlInv, DataInv, NEW p \in Processes, LockForMigration(p) PROVE DataInv'
<1>1. TypeOK
  BY DEF ControlInv
<1>2. proc'[p].pc \notin Guarded /\ \A q \in Processes \ {p} : proc'[q] = proc[q]
  BY <1>1, ToPc DEF LockForMigration, Steps, Guarded
<1> QED BY <1>2, QuietStep, UnguardedReady DEF LockForMigration

\* No data is lost by a recovery with nothing to do.
LEMMA DataNothingToRecover ==
    ASSUME ControlInv, DataInv, NEW p \in Processes, NothingToRecover(p) PROVE DataInv'
<1>1. TypeOK
  BY DEF ControlInv
<1>2. proc'[p].pc \notin Guarded /\ \A q \in Processes \ {p} : proc'[q] = proc[q]
  BY <1>1, ProceedPc DEF NothingToRecover, Guarded
<1> QED BY <1>2, QuietStep, UnguardedReady DEF NothingToRecover

\* No data is lost by a refused recovery.
LEMMA DataRefuseRecovery ==
    ASSUME ControlInv, DataInv, NEW p \in Processes, RefuseRecovery(p) PROVE DataInv'
<1>1. TypeOK
  BY DEF ControlInv
<1>2. proc'[p].pc \notin Guarded /\ \A q \in Processes \ {p} : proc'[q] = proc[q]
  BY <1>1, GivePc DEF RefuseRecovery, Guarded
<1> QED BY <1>2, QuietStep, UnguardedReady DEF RefuseRecovery

\* No data is lost by abandoning a replacement.
LEMMA DataAbandonReplacement ==
    ASSUME ControlInv, DataInv, NEW p \in Processes, AbandonReplacement(p) PROVE DataInv'
<1>1. TypeOK
  BY DEF ControlInv
<1>2. proc'[p].pc \notin Guarded /\ \A q \in Processes \ {p} : proc'[q] = proc[q]
  BY <1>1, ToPc DEF AbandonReplacement, Steps, Guarded
<1> QED BY <1>2, QuietStep, UnguardedReady DEF AbandonReplacement

\* No data is lost by the decision to compact.
LEMMA DataDecide ==
    ASSUME ControlInv, DataInv, NEW p \in Processes, Decide(p) PROVE DataInv'
<1>1. TypeOK
  BY DEF ControlInv
<1>2. proc'[p].pc \notin Guarded /\ \A q \in Processes \ {p} : proc'[q] = proc[q]
  BY <1>1, ToPc, GivePc DEF Decide, Steps, Guarded
<1> QED BY <1>2, QuietStep, UnguardedReady DEF Decide

\* No data is lost by stopping.
LEMMA DataStop ==
    ASSUME ControlInv, DataInv, NEW p \in Processes, Stop(p) PROVE DataInv'
<1>1. TypeOK
  BY DEF ControlInv
<1>2. proc'[p].pc \notin Guarded /\ \A q \in Processes \ {p} : proc'[q] = proc[q]
  BY <1>1, GivePc DEF Stop, Guarded
<1> QED BY <1>2, QuietStep, UnguardedReady DEF Stop

\* No data is lost by a crash.
LEMMA DataCrash ==
    ASSUME ControlInv, DataInv, NEW p \in Processes, Crash(p) PROVE DataInv'
<1>1. TypeOK
  BY DEF ControlInv
<1>2. proc'[p].pc \notin Guarded /\ \A q \in Processes \ {p} : proc'[q] = proc[q]
  BY <1>1, StopPc DEF Crash, Guarded
<1> QED BY <1>2, QuietStep, UnguardedReady DEF Crash

\* No data is lost by recovering a backup without manifest.
LEMMA DataRestoreLegacy ==
    ASSUME ControlInv, ControlInv', DataInv, Recoverable, NEW p \in Processes,
       RestoreLegacy(p) PROVE DataInv'
<1> DEFINE d == [dir EXCEPT !.source = dir.backup, !.backup = None]
<1>0. TypeOK /\ dir \in Directory
  BY DEF ControlInv, TypeOK
<1>1. owner = p /\ Stage(p) /\ Ready(p) /\ Shape(dir) /\ Kept(dir)
  BY OwnerFinds DEF RestoreLegacy, Resolvable, At, Outside
<1>2. dir.phase # "none" /\ dir.source = None /\ dir.backup # None
  BY <1>1 DEF RestoreLegacy, Resolvable, Stage, Shape, At
<1>3. owner' \in {p, Nobody}
  BY <1>0, <1>1, ToPc, GivePc DEF RestoreLegacy, Resolvable
<1>4. Shape(d)
  BY <1>0, <1>1, <1>2 DEF RestoreLegacy, Resolvable, Shape, Directory
<1>5. Kept(d)
  BY <1>0, <1>1, <1>2 DEF RestoreLegacy, Resolvable, Kept, Keeps, Directory
<1>6. /\ d.phase # "none" /\ d.source \in {None, dir.source, dir.backup}
      /\ d.backup \in {None, dir.source, dir.backup} /\ d.candidate \in {None,
         dir.candidate}
  BY <1>0, <1>2 DEF Directory
<1>7. AllKept' /\ Apart'
  <2>1. Synced(d) \/ Change(d) \/ UNCHANGED <<dir, since>>
    BY DEF RestoreLegacy, Resolvable
  <2>2. UNCHANGED data
    BY DEF RestoreLegacy
  <2> HIDE DEF d
  <2> QED BY <1>4, <1>5, <1>6, <2>1, <2>2, MovedData, StaysData
<1>8. Ready(p)'
  BY <1>0, ToPc, GivePc, UnguardedReady DEF RestoreLegacy, Resolvable, Guarded, Steps
<1> QED BY <1>3, <1>7, <1>8, OwnerReady DEF DataInv

\* No data is lost by setting an unproven candidate aside.
LEMMA DataSetAside ==
    ASSUME ControlInv, ControlInv', DataInv, Recoverable, NEW p \in Processes, SetAside(p)
       PROVE DataInv'
<1> DEFINE d == [dir EXCEPT !.failed = dir.source, !.source = None]
<1>0. TypeOK /\ dir \in Directory
  BY DEF ControlInv, TypeOK
<1>1. owner = p /\ Stage(p) /\ Ready(p) /\ Shape(dir) /\ Kept(dir)
  BY OwnerFinds DEF SetAside, At, Outside
<1>2. dir.phase \in Replacing /\ dir.backup # None
  BY <1>1 DEF SetAside, Stage, Shape, At, Replacing
<1>3. owner' \in {p, Nobody}
  BY <1>0, <1>1, ToPc, GivePc DEF SetAside
<1>4. Shape(d)
  BY <1>0, <1>1, <1>2 DEF SetAside, Shape, Directory, Replacing
<1>5. Kept(d)
  BY <1>0, <1>1, <1>2 DEF SetAside, Kept, Keeps, Directory, Replacing
<1>6. /\ d.phase # "none" /\ d.source \in {None, dir.source, dir.backup}
      /\ d.backup \in {None, dir.source, dir.backup} /\ d.candidate \in {None,
         dir.candidate}
  BY <1>0, <1>2 DEF Directory, Replacing
<1>7. AllKept' /\ Apart'
  <2>1. Synced(d) \/ Change(d) \/ UNCHANGED <<dir, since>>
    BY DEF SetAside
  <2>2. UNCHANGED data
    BY DEF SetAside
  <2> HIDE DEF d
  <2> QED BY <1>4, <1>5, <1>6, <2>1, <2>2, MovedData, StaysData
<1>8. Ready(p)'
  BY <1>0, ToPc, GivePc, UnguardedReady DEF SetAside, Guarded, Steps
<1> QED BY <1>3, <1>7, <1>8, OwnerReady DEF DataInv

\* No data is lost by bringing the backup back.
LEMMA DataBringBack ==
    ASSUME ControlInv, ControlInv', DataInv, Recoverable, NEW p \in Processes, BringBack(p)
       PROVE DataInv'
<1> DEFINE d == [dir EXCEPT !.source = dir.backup, !.backup = None]
<1>0. TypeOK /\ dir \in Directory
  BY DEF ControlInv, TypeOK
<1>1. owner = p /\ Stage(p) /\ Ready(p) /\ Shape(dir) /\ Kept(dir)
  BY OwnerFinds DEF BringBack, At, Outside
<1>2. dir.phase \in Replacing /\ dir.backup # None /\ dir.source = None
  BY <1>1 DEF BringBack, Stage, Shape, At, Replacing
<1>3. owner' \in {p, Nobody}
  BY <1>0, <1>1, BothTurns, GivePc DEF BringBack
<1>4. Shape(d)
  BY <1>0, <1>1, <1>2 DEF BringBack, Shape, Directory, Replacing
<1>5. Kept(d)
  BY <1>0, <1>1, <1>2 DEF BringBack, Kept, Keeps, Directory, Replacing
<1>7. AllKept' /\ Apart'
  <2>1. Synced(d) \/ (Change(d) /\ Mishap("fault")) \/ UNCHANGED <<dir, since>>
    BY DEF BringBack
  <2>2. UNCHANGED data
    BY DEF BringBack
  <2> HIDE DEF d
  <2> QED BY <1>4, <1>5, <2>1, <2>2, MovedData, StaysData
<1>8. Ready(p)'
  BY <1>0, BothTurns, GivePc, UnguardedReady DEF BringBack, Guarded, Steps
<1> QED BY <1>3, <1>7, <1>8, OwnerReady DEF DataInv

\* No data is lost by tidying up a replacement that ends.
LEMMA DataTidy ==
    ASSUME ControlInv, ControlInv', DataInv, Recoverable, NEW p \in Processes, Tidy(p)
       PROVE DataInv'
<1> DEFINE d == [dir EXCEPT !.candidate = None,
                  !.failed = IF At(p, "tidy rollback") THEN None ELSE @]
<1>0. TypeOK /\ dir \in Directory
  BY DEF ControlInv, TypeOK
<1>1. owner = p /\ Stage(p) /\ Ready(p) /\ Shape(dir) /\ Kept(dir)
  BY OwnerFinds DEF Tidy, At, Outside
<1>2. dir.phase # "none" /\ dir.source # None /\ dir.backup = None
  BY <1>1 DEF Tidy, Stage, Shape, At
<1>3. owner' \in {p, Nobody}
  BY <1>0, <1>1, ToPc DEF Tidy
<1>4. Shape(d)
  BY <1>0, <1>1, <1>2 DEF Tidy, Shape, Directory
<1>5. Kept(d)
  BY <1>0, <1>1, <1>2 DEF Tidy, Kept, Keeps, Directory
<1>6. /\ d.phase # "none" /\ d.source \in {None, dir.source, dir.backup}
      /\ d.backup \in {None, dir.source, dir.backup} /\ d.candidate \in {None,
         dir.candidate}
  BY <1>0, <1>2 DEF Directory
<1>7. AllKept' /\ Apart'
  <2>1. Synced(d) \/ Change(d) \/ UNCHANGED <<dir, since>>
    BY DEF Tidy
  <2>2. UNCHANGED data
    BY DEF Tidy
  <2> HIDE DEF d
  <2> QED BY <1>4, <1>5, <1>6, <2>1, <2>2, MovedData, StaysData
<1>8. Ready(p)'
  BY <1>0, ToPc, UnguardedReady DEF Tidy, Guarded, Steps
<1> QED BY <1>3, <1>7, <1>8, OwnerReady DEF DataInv

\* No data is lost by removing the backup.
LEMMA DataDropBackup ==
    ASSUME ControlInv, ControlInv', DataInv, Recoverable, NEW p \in Processes, DropBackup(p)
       PROVE DataInv'
<1> DEFINE d == [dir EXCEPT !.backup = None]
<1>0. TypeOK /\ dir \in Directory
  BY DEF ControlInv, TypeOK
<1>1. owner = p /\ Stage(p) /\ Ready(p) /\ Shape(dir) /\ Kept(dir)
  BY OwnerFinds DEF DropBackup, At, Outside
<1>2. dir.phase \in Replacing /\ dir.source # None /\ db[dir.source].whole
  BY <1>1 DEF DropBackup, Stage, Ready, Shape, At, Replacing
<1>3. owner' \in {p, Nobody}
  BY <1>0, <1>1, ToPc, GivePc DEF DropBackup
<1>4. Shape(d)
  BY <1>0, <1>1, <1>2 DEF DropBackup, Shape, Directory, Replacing
<1>5. Kept(d)
  BY <1>0, <1>1, <1>2 DEF DropBackup, Kept, Keeps, Directory, Replacing
<1>6. /\ d.phase # "none" /\ d.source \in {None, dir.source, dir.backup}
      /\ d.backup \in {None, dir.source, dir.backup} /\ d.candidate \in {None,
         dir.candidate}
  BY <1>0, <1>2 DEF Directory, Replacing
<1>7. AllKept' /\ Apart'
  <2>1. Synced(d) \/ Change(d) \/ UNCHANGED <<dir, since>>
    BY DEF DropBackup
  <2>2. UNCHANGED data
    BY DEF DropBackup
  <2> HIDE DEF d
  <2> QED BY <1>4, <1>5, <1>6, <2>1, <2>2, MovedData, StaysData
<1>8. Ready(p)'
  BY <1>0, ToPc, GivePc, UnguardedReady DEF DropBackup, Guarded, Steps
<1> QED BY <1>3, <1>7, <1>8, OwnerReady DEF DataInv

\* No data is lost by removing the candidate.
LEMMA DataDropCandidate ==
    ASSUME ControlInv, ControlInv', DataInv, Recoverable, NEW p \in Processes,
       DropCandidate(p) PROVE DataInv'
<1> DEFINE d == [dir EXCEPT !.candidate = None]
<1>0. TypeOK /\ dir \in Directory
  BY DEF ControlInv, TypeOK
<1>1. owner = p /\ Stage(p) /\ Ready(p) /\ Shape(dir) /\ Kept(dir)
  BY OwnerFinds DEF DropCandidate, At, Outside
<1>2. dir.phase # "none" /\ dir.source # None /\ dir.backup = None
  BY <1>1 DEF DropCandidate, Stage, Shape, At
<1>3. owner' \in {p, Nobody}
  BY <1>0, <1>1, ToPc, GivePc DEF DropCandidate
<1>4. Shape(d)
  BY <1>0, <1>1, <1>2 DEF DropCandidate, Shape, Directory
<1>5. Kept(d)
  BY <1>0, <1>1, <1>2 DEF DropCandidate, Kept, Keeps, Directory
<1>6. /\ d.phase # "none" /\ d.source \in {None, dir.source, dir.backup}
      /\ d.backup \in {None, dir.source, dir.backup} /\ d.candidate \in {None,
         dir.candidate}
  BY <1>0, <1>2 DEF Directory
<1>7. AllKept' /\ Apart'
  <2>1. Synced(d) \/ Change(d) \/ UNCHANGED <<dir, since>>
    BY DEF DropCandidate
  <2>2. UNCHANGED data
    BY DEF DropCandidate
  <2> HIDE DEF d
  <2> QED BY <1>4, <1>5, <1>6, <2>1, <2>2, MovedData, StaysData
<1>8. Ready(p)'
  BY <1>0, ToPc, GivePc, UnguardedReady DEF DropCandidate, Guarded, Steps
<1> QED BY <1>3, <1>7, <1>8, OwnerReady DEF DataInv

\* No data is lost by removing the manifest.
LEMMA DataUnregister ==
    ASSUME ControlInv, ControlInv', DataInv, Recoverable, NEW p \in Processes, Unregister(p)
       PROVE DataInv'
<1> DEFINE d == [dir EXCEPT !.phase = "none", !.target = 0]
<1>0. TypeOK /\ dir \in Directory
  BY DEF ControlInv, TypeOK
<1>1. owner = p /\ Stage(p) /\ Ready(p) /\ Shape(dir) /\ Kept(dir)
  BY OwnerFinds DEF Unregister, At, Outside
<1>2. dir.backup = None /\ dir.source # None
  BY <1>1 DEF Unregister, Stage, Shape, At
<1>3. owner' \in {p, Nobody}
  BY <1>0, <1>1, GivePc, ProceedPc DEF Unregister
<1>4. Shape(d)
  BY <1>0, <1>1, <1>2 DEF Unregister, Shape, Directory
<1>5. Kept(d)
  BY <1>0, <1>1, <1>2 DEF Unregister, Kept, Keeps, Directory
<1>7. AllKept' /\ Apart'
  <2>1. Synced(d) \/ (Change(d) /\ Mishap("fault")) \/ UNCHANGED <<dir, since>>
    BY DEF Unregister
  <2>2. UNCHANGED data
    BY DEF Unregister
  <2> HIDE DEF d
  <2> QED BY <1>4, <1>5, <2>1, <2>2, MovedData, StaysData
<1>8. Ready(p)'
  BY <1>0, GivePc, ProceedPc, UnguardedReady DEF Unregister, Guarded
<1> QED BY <1>3, <1>7, <1>8, OwnerReady DEF DataInv

\* No data is lost by a build that fails.
LEMMA DataBuildFails ==
    ASSUME ControlInv, ControlInv', DataInv, Recoverable, NEW p \in Processes, BuildFails(p)
       PROVE DataInv'
<1> DEFINE d == [dir EXCEPT !.candidate = None]
<1>0. TypeOK /\ dir \in Directory
  BY DEF ControlInv, TypeOK
<1>1. owner = p /\ Stage(p) /\ Ready(p) /\ Shape(dir) /\ Kept(dir)
  BY OwnerFinds DEF BuildFails, At, Outside
<1>2. dir.phase = "none" /\ dir.source # None
  BY <1>1 DEF BuildFails, Stage, Shape, At
<1>3. owner' \in {p, Nobody}
  BY <1>0, <1>1, GivePc DEF BuildFails
<1>4. Shape(d)
  BY <1>0, <1>1, <1>2 DEF BuildFails, Shape, Directory
<1>5. Kept(d)
  BY <1>0, <1>1, <1>2 DEF BuildFails, Kept, Keeps, Directory
<1>7. AllKept' /\ Apart'
  <2>1. Synced(d) \/ (Change(d) /\ Mishap("fault")) \/ UNCHANGED <<dir, since>>
    BY DEF BuildFails
  <2>2. UNCHANGED data
    BY DEF BuildFails
  <2> HIDE DEF d
  <2> QED BY <1>4, <1>5, <2>1, <2>2, MovedData, StaysData
<1>8. Ready(p)'
  BY <1>0, GivePc, UnguardedReady DEF BuildFails, Guarded
<1> QED BY <1>3, <1>7, <1>8, OwnerReady DEF DataInv

\* No data is lost by writing the manifest.
LEMMA DataRegisterReplacement ==
    ASSUME ControlInv, ControlInv', DataInv, Recoverable, NEW p \in Processes,
       RegisterReplacement(p) PROVE DataInv'
<1> DEFINE d == [dir EXCEPT !.phase = "validated", !.target = proc[p].generation]
<1>0. TypeOK /\ dir \in Directory
  BY DEF ControlInv, TypeOK
<1>1. owner = p /\ Stage(p) /\ Ready(p) /\ Shape(dir) /\ Kept(dir)
  BY OwnerFinds DEF RegisterReplacement, At, Outside
<1>2. dir.source # None /\ dir.candidate # None
  BY <1>1 DEF RegisterReplacement, Stage, Shape, At
<1>3. owner' \in {p, Nobody}
  BY <1>0, <1>1, ToPc, GivePc, RecoverPc DEF RegisterReplacement, WriteManifest
<1>4. Shape(d)
  BY <1>0, <1>1, <1>2 DEF RegisterReplacement, Shape, Directory
<1>5. Kept(d)
  BY <1>0, <1>1, <1>2 DEF RegisterReplacement, Kept, Keeps, Directory
<1>7. AllKept' /\ Apart'
  <2>1. Synced(d) \/ (Change(d) /\ Mishap("fault")) \/ UNCHANGED <<dir, since>>
    BY DEF RegisterReplacement, WriteManifest
  <2>2. UNCHANGED data
    BY DEF RegisterReplacement
  <2> HIDE DEF d
  <2> QED BY <1>4, <1>5, <2>1, <2>2, MovedData, StaysData
<1>8. Ready(p)'
  <2>1. proc'[p].pc \notin Guarded \/ (proc'[p].pc = "preserve" /\ dir' = d /\
     proc'[p].generation = proc[p].generation)
    BY <1>0, ToPc, GivePc, RecoverPc
       DEF RegisterReplacement, WriteManifest, Change, Synced, Guarded, Steps
  <2>2. ASSUME proc'[p].pc = "preserve", dir' = d, proc'[p].generation = proc[p].generation
     PROVE Ready(p)'
    BY <1>0, <1>1, <1>2, <2>2 DEF RegisterReplacement, At, Ready, Directory, data
  <2> QED BY <2>1, <2>2, UnguardedReady
<1> QED BY <1>3, <1>7, <1>8, OwnerReady DEF DataInv

\* No data is lost by renaming the source to the backup.
LEMMA DataPreserveSource ==
    ASSUME ControlInv, ControlInv', DataInv, Recoverable, NEW p \in Processes,
       PreserveSource(p) PROVE DataInv'
<1> DEFINE d == [dir EXCEPT !.backup = dir.source, !.source = None]
<1>0. TypeOK /\ dir \in Directory
  BY DEF ControlInv, TypeOK
<1>1. owner = p /\ Stage(p) /\ Ready(p) /\ Shape(dir) /\ Kept(dir)
  BY OwnerFinds DEF PreserveSource, At, Outside
<1>2. dir.phase = "validated" /\ dir.source # None /\ dir.candidate # None /\
   dir.backup = None
  BY <1>1 DEF PreserveSource, Stage, Shape, At
<1>3. owner' \in {p, Nobody}
  BY <1>0, <1>1, ToPc, RecoverPc DEF PreserveSource, Rename
<1>4. Shape(d)
  BY <1>0, <1>1, <1>2 DEF PreserveSource, Shape, Directory
<1>5. Kept(d)
  BY <1>0, <1>1, <1>2 DEF PreserveSource, Kept, Keeps, Directory
<1>7. AllKept' /\ Apart'
  <2>1. Synced(d) \/ (Change(d) /\ Mishap("fault")) \/ UNCHANGED <<dir, since>>
    BY DEF PreserveSource, Rename
  <2>2. UNCHANGED data
    BY DEF PreserveSource
  <2> HIDE DEF d
  <2> QED BY <1>4, <1>5, <2>1, <2>2, MovedData, StaysData
<1>8. Ready(p)'
  <2>1. proc'[p].pc \notin Guarded \/ (proc'[p].pc = "record preserved" /\ dir' = d /\
     proc'[p].generation = proc[p].generation)
    BY <1>0, ToPc, RecoverPc DEF PreserveSource, Rename, Change, Synced, Guarded, Steps
  <2>2. ASSUME proc'[p].pc = "record preserved", dir' = d,
     proc'[p].generation = proc[p].generation PROVE Ready(p)'
    BY <1>0, <1>1, <1>2, <2>2 DEF PreserveSource, At, Ready, Directory, data
  <2> QED BY <2>1, <2>2, UnguardedReady
<1> QED BY <1>3, <1>7, <1>8, OwnerReady DEF DataInv

\* No data is lost by recording that the source is preserved.
LEMMA DataRecordPreserved ==
    ASSUME ControlInv, ControlInv', DataInv, Recoverable, NEW p \in Processes,
       RecordPreserved(p) PROVE DataInv'
<1> DEFINE d == [dir EXCEPT !.phase = "source-preserved", !.target = proc[p].generation]
<1>0. TypeOK /\ dir \in Directory
  BY DEF ControlInv, TypeOK
<1>1. owner = p /\ Stage(p) /\ Ready(p) /\ Shape(dir) /\ Kept(dir)
  BY OwnerFinds DEF RecordPreserved, At, Outside
<1>2. dir.source = None /\ dir.backup # None /\ dir.candidate # None
  BY <1>1 DEF RecordPreserved, Stage, Shape, At
<1>3. owner' \in {p, Nobody}
  BY <1>0, <1>1, ToPc, GivePc, RecoverPc DEF RecordPreserved, WriteManifest
<1>4. Shape(d)
  BY <1>0, <1>1, <1>2 DEF RecordPreserved, Shape, Directory
<1>5. Kept(d)
  BY <1>0, <1>1, <1>2 DEF RecordPreserved, Kept, Keeps, Directory
<1>7. AllKept' /\ Apart'
  <2>1. Synced(d) \/ (Change(d) /\ Mishap("fault")) \/ UNCHANGED <<dir, since>>
    BY DEF RecordPreserved, WriteManifest
  <2>2. UNCHANGED data
    BY DEF RecordPreserved
  <2> HIDE DEF d
  <2> QED BY <1>4, <1>5, <2>1, <2>2, MovedData, StaysData
<1>8. Ready(p)'
  <2>1. proc'[p].pc \notin Guarded \/ (proc'[p].pc = "place" /\ dir' = d /\
     proc'[p].generation = proc[p].generation)
    BY <1>0, ToPc, GivePc, RecoverPc
       DEF RecordPreserved, WriteManifest, Change, Synced, Guarded, Steps
  <2>2. ASSUME proc'[p].pc = "place", dir' = d, proc'[p].generation = proc[p].generation
     PROVE Ready(p)'
    BY <1>0, <1>1, <1>2, <2>2 DEF RecordPreserved, At, Ready, Directory, data
  <2> QED BY <2>1, <2>2, UnguardedReady
<1> QED BY <1>3, <1>7, <1>8, OwnerReady DEF DataInv

\* No data is lost by renaming the candidate to the source.
LEMMA DataPlaceCandidate ==
    ASSUME ControlInv, ControlInv', DataInv, Recoverable, NEW p \in Processes,
       PlaceCandidate(p) PROVE DataInv'
<1> DEFINE d == [dir EXCEPT !.source = dir.candidate, !.candidate = None]
<1>0. TypeOK /\ dir \in Directory
  BY DEF ControlInv, TypeOK
<1>1. owner = p /\ Stage(p) /\ Ready(p) /\ Shape(dir) /\ Kept(dir)
  BY OwnerFinds DEF PlaceCandidate, At, Outside
<1>2. dir.phase = "source-preserved" /\ dir.backup # None /\ dir.candidate # None
  BY <1>1 DEF PlaceCandidate, Stage, Shape, At
<1>3. owner' \in {p, Nobody}
  BY <1>0, <1>1, ToPc, RecoverPc DEF PlaceCandidate, Rename
<1>4. Shape(d)
  BY <1>0, <1>1, <1>2 DEF PlaceCandidate, Shape, Directory
<1>5. Kept(d)
  BY <1>0, <1>1, <1>2 DEF Ready, At, PlaceCandidate, Kept, Keeps, Directory
<1>7. AllKept' /\ Apart'
  <2>1. Synced(d) \/ (Change(d) /\ Mishap("fault")) \/ UNCHANGED <<dir, since>>
    BY DEF PlaceCandidate, Rename
  <2>2. UNCHANGED data
    BY DEF PlaceCandidate
  <2> HIDE DEF d
  <2> QED BY <1>4, <1>5, <2>1, <2>2, MovedData, StaysData
<1>8. Ready(p)'
  BY <1>0, ToPc, RecoverPc, UnguardedReady DEF PlaceCandidate, Rename, Guarded, Steps
<1> QED BY <1>3, <1>7, <1>8, OwnerReady DEF DataInv

\* No data is lost by recording the installation.
LEMMA DataRecordInstalled ==
    ASSUME ControlInv, ControlInv', DataInv, Recoverable, NEW p \in Processes,
       RecordInstalled(p) PROVE DataInv'
<1> DEFINE d == [dir EXCEPT !.phase = "installed", !.target = proc[p].generation]
<1>0. TypeOK /\ dir \in Directory
  BY DEF ControlInv, TypeOK
<1>1. owner = p /\ Stage(p) /\ Ready(p) /\ Shape(dir) /\ Kept(dir)
  BY OwnerFinds DEF RecordInstalled, At, Outside
<1>2. dir.source # None /\ dir.backup # None
  BY <1>1 DEF RecordInstalled, Stage, Shape, At
<1>3. owner' \in {p, Nobody}
  BY <1>0, <1>1, ToPc, GivePc, RecoverPc DEF RecordInstalled, WriteManifest
<1>4. Shape(d)
  BY <1>0, <1>1, <1>2 DEF RecordInstalled, Shape, Directory
<1>5. Kept(d)
  BY <1>0, <1>1, <1>2 DEF RecordInstalled, Kept, Keeps, Directory
<1>7. AllKept' /\ Apart'
  <2>1. Synced(d) \/ (Change(d) /\ Mishap("fault")) \/ UNCHANGED <<dir, since>>
    BY DEF RecordInstalled, WriteManifest
  <2>2. UNCHANGED data
    BY DEF RecordInstalled
  <2> HIDE DEF d
  <2> QED BY <1>4, <1>5, <2>1, <2>2, MovedData, StaysData
<1>8. Ready(p)'
  BY <1>0, ToPc, GivePc, RecoverPc, UnguardedReady
     DEF RecordInstalled, WriteManifest, Guarded, Steps
<1> QED BY <1>3, <1>7, <1>8, OwnerReady DEF DataInv

\* No data is lost by recording that it is verified.
LEMMA DataRecordVerified ==
    ASSUME ControlInv, ControlInv', DataInv, Recoverable, NEW p \in Processes,
       RecordVerified(p) PROVE DataInv'
<1> DEFINE d == [dir EXCEPT !.phase = "verified"]
<1>0. TypeOK /\ dir \in Directory
  BY DEF ControlInv, TypeOK
<1>1. owner = p /\ Stage(p) /\ Ready(p) /\ Shape(dir) /\ Kept(dir)
  BY OwnerFinds DEF RecordVerified, At, Outside
<1>2. dir.source # None /\ dir.phase = "installed" /\ db[dir.source].whole
  BY <1>1 DEF RecordVerified, Stage, Ready, Shape, At
<1>3. owner' \in {p, Nobody}
  BY <1>0, <1>1, BothTurns, RecoverPc DEF RecordVerified
<1>4. Shape(d)
  BY <1>0, <1>1, <1>2 DEF RecordVerified, Shape, Directory
<1>5. Kept(d)
  BY <1>0, <1>1, <1>2 DEF RecordVerified, Kept, Keeps, Directory
<1>7. AllKept' /\ Apart'
  <2>1. Synced(d) \/ (Change(d) /\ Mishap("fault")) \/ UNCHANGED <<dir, since>>
    BY DEF RecordVerified
  <2>2. UNCHANGED data
    BY DEF RecordVerified
  <2> HIDE DEF d
  <2> QED BY <1>4, <1>5, <2>1, <2>2, MovedData, StaysData
<1>8. Ready(p)'
  <2>1. proc'[p].pc \notin Guarded \/ (proc'[p].pc = "drop backup" /\ dir' = d)
    BY <1>0, BothTurns, RecoverPc DEF RecordVerified, Change, Synced, Guarded, Steps
  <2>2. ASSUME proc'[p].pc = "drop backup", dir' = d PROVE Ready(p)'
    BY <1>0, <1>1, <1>2, <2>2 DEF RecordVerified, At, Ready, Directory, data
  <2> QED BY <2>1, <2>2, UnguardedReady
<1> QED BY <1>3, <1>7, <1>8, OwnerReady DEF DataInv

\* No data is lost by another look at the installed candidate.
LEMMA DataValidateAgain ==
    ASSUME ControlInv, ControlInv', DataInv, NEW p \in Processes, ValidateAgain(p)
       PROVE DataInv'
<1>0. TypeOK
  BY DEF ControlInv
<1>1. owner = p
  BY OwnerFinds DEF ValidateAgain, Resolvable, At, Outside
<1>2. owner' \in {p, Nobody}
  BY <1>0, <1>1, GivePc DEF ValidateAgain
<1>3. proc'[p].pc \notin Guarded \/ (proc'[p].pc = "drop backup" /\ Installed(dir))
  BY <1>0, ToPc, GivePc DEF ValidateAgain, Guarded, Steps
<1>4. Ready(p)'
  BY <1>3, UnguardedReady DEF ValidateAgain, Installed, Ready, data
<1>5. AllKept' /\ Apart'
  BY StaysData DEF ValidateAgain
<1> QED BY <1>2, <1>4, <1>5, OwnerReady DEF DataInv

\* No data is lost by validating the installed candidate.
LEMMA DataValidateInstalled ==
    ASSUME ControlInv, ControlInv', DataInv, NEW p \in Processes, ValidateInstalled(p)
    PROVE  DataInv'
<1>0. TypeOK
  BY DEF ControlInv
<1>1. owner = p
  BY OwnerFinds DEF ValidateInstalled, At, Outside
<1>2. owner' \in {p, Nobody}
  BY <1>0, <1>1, RecoverPc DEF ValidateInstalled
<1>3. proc'[p].pc \notin Guarded \/ (proc'[p].pc = "record verified" /\ Installed(dir))
  BY <1>0, ToPc, RecoverPc DEF ValidateInstalled, Guarded, Steps
<1>4. Ready(p)'
  BY <1>3, UnguardedReady DEF ValidateInstalled, Installed, Ready, data
<1>5. AllKept' /\ Apart'
  BY StaysData DEF ValidateInstalled
<1> QED BY <1>2, <1>4, <1>5, OwnerReady DEF DataInv

\* A new candidate is a file that no directory a power loss may leave knows.
LEMMA DataBeginCandidate ==
    ASSUME ControlInv, ControlInv', DataInv, NEW p \in Processes, BeginCandidate(p)
       PROVE DataInv'
<1>0. TypeOK /\ dir \in Directory /\ dir \in since
  BY DEF ControlInv, TypeOK
<1>1. owner = p /\ Stage(p)
  BY OwnerFinds DEF BeginCandidate, At, Outside
<1>2. dir.phase = "none"
  BY <1>1 DEF BeginCandidate, Stage, At
<1>3. owner' = p /\ proc'[p].pc \notin Guarded
  BY <1>0, <1>1, ToPc DEF BeginCandidate, Guarded, Steps
<1>4. PICK f \in FreshFile :
         /\ Change([dir EXCEPT !.candidate = f])
         /\ db' = [db EXCEPT ![f] = [generation |-> 0, exports |-> 0, whole |-> FALSE]]
  BY DEF BeginCandidate
<1> DEFINE d == [dir EXCEPT !.candidate = f]
<1>5. f # None /\ \A e \in Possible : f # e.source /\ f # e.backup
  BY <1>0, Parameters DEF FreshFile, Free, Named, None, Possible
<1>6. d.source = dir.source /\ d.backup = dir.backup /\ d.phase = dir.phase /\
   d.candidate = f
  BY <1>0 DEF Directory
<1>7. dir' = d /\ Possible' \subseteq Possible \cup {d} /\ dir \in Possible
  BY <1>0, <1>4 DEF Change, Possible
<1>8. \A e \in Possible : Kept(e)'
  <2>1. \A g \in Files : g # f => db'[g] = db[g]
    BY <1>0, <1>4 DEF TypeOK
  <2>2. \A e \in Possible : {e.source, e.backup} \subseteq Files \cup {None}
    BY <1>0 DEF Possible, ControlInv, TypeOK, Directory
  <2> QED BY <1>5, <2>1, <2>2 DEF Kept, Keeps, DataInv, AllKept, BeginCandidate
<1>9. AllKept'
  <2>1. Kept(d)'
    BY <1>6, <1>7, <1>8 DEF Kept
  <2> QED BY <1>7, <1>8, <2>1 DEF AllKept
<1>10. Apart'
  <2>1. ASSUME NEW x \in Possible', NEW y \in Possible', x.candidate # None
        PROVE  x.candidate \notin {y.source, y.backup}
    BY <1>5, <1>6, <1>7, <2>1 DEF DataInv, Apart
  <2>2. ASSUME NEW x \in Possible' PROVE x.phase = "none" /\ x.source = dir.source
    BY <1>2, <1>6, <1>7 DEF DataInv, Apart
  <2> QED BY <1>6, <1>7, <2>1, <2>2 DEF Apart
<1> QED BY <1>3, <1>9, <1>10, OwnerReady, UnguardedReady DEF DataInv

\* The replay writes the candidate, which is no source and no backup.
LEMMA DataFinishCandidate ==
    ASSUME ControlInv, ControlInv', DataInv, NEW p \in Processes, FinishCandidate(p)
       PROVE DataInv'
<1>0. TypeOK /\ dir \in Directory
  BY DEF ControlInv, TypeOK
<1>1. owner = p /\ Stage(p) /\ Shape(dir) /\ Kept(dir) /\ dir \in Possible
  BY OwnerFinds DEF FinishCandidate, At, Outside
<1>2. dir.phase = "none" /\ dir.source # None /\ dir.candidate # None /\ dir.backup = None
  BY <1>1 DEF FinishCandidate, Stage, Shape, At
<1>3. owner' = p /\ proc'[p].pc = "register" /\ proc'[p].generation = proc[p].generation
  BY <1>0, <1>1, ToPc DEF FinishCandidate, Steps
<1>4. dir.candidate \in Files /\ db[dir.source].exports = accepted
  BY <1>0, <1>1, <1>2 DEF Directory, Kept, Keeps
<1>5. \A g : g # dir.candidate => Keeps(g)' = Keeps(g) /\ db'[g] = db[g]
  BY <1>0 DEF Keeps, TypeOK, FinishCandidate
<1>6. \A e \in Possible : e.source # dir.candidate /\ e.backup # dir.candidate
  BY <1>1, <1>2 DEF DataInv, Apart
<1>7. AllKept' /\ Apart'
  BY <1>5, <1>6 DEF DataInv, AllKept, Apart, Kept, Possible, FinishCandidate
<1>8. Ready(p)'
  BY <1>0, <1>3, <1>4 DEF Ready, FinishCandidate, TypeOK
<1> QED BY <1>3, <1>7, <1>8, OwnerReady DEF DataInv

\* Damage hits a candidate that is not the source.
LEMMA DataDamage ==
    ASSUME ControlInv, DataInv, Damage PROVE DataInv'
<1>0. TypeOK /\ dir \in Directory /\ dir \in Possible
  BY DEF ControlInv, TypeOK, Possible
<1>1. \A e \in Possible : e.source # dir.candidate /\ e.backup # dir.candidate
  BY <1>0 DEF DataInv, Apart, Damage
<1>2. \A g : /\ g # dir.candidate => Keeps(g)' = Keeps(g) /\ db'[g] = db[g]
            /\ db'[g].exports = db[g].exports /\ db'[g].generation = db[g].generation
  BY <1>0 DEF Keeps, TypeOK, Damage, Contents
<1>3. AllKept' /\ Apart'
  BY <1>1, <1>2 DEF DataInv, AllKept, Apart, Kept, Possible, Damage
<1>4. ASSUME NEW p \in Processes PROVE Ready(p)'
  <2>1. Ready(p) /\ UNCHANGED <<dir, proc, accepted>> /\ dir.source # dir.candidate
    BY <1>0, <1>1 DEF DataInv, AllReady, Damage
  <2>2. /\ db'[dir.candidate].exports = db[dir.candidate].exports
        /\ db'[dir.candidate].generation = db[dir.candidate].generation
        /\ db'[dir.source] = db[dir.source]
    BY <1>2, <2>1
  <2> QED BY <2>1, <2>2 DEF Ready
<1> QED BY <1>3, <1>4 DEF DataInv, AllReady

\* A missing database is created only where nothing was accepted yet.
LEMMA DataOpenStore ==
    ASSUME ControlInv, ControlInv', DataInv, NEW p \in Processes, OpenStore(p)
       PROVE DataInv'
<1>0. TypeOK /\ dir \in Directory /\ dir \in since /\ dir \in Possible
  BY DEF ControlInv, TypeOK, Possible
<1>1. proc'[p].pc \notin Guarded /\ \A q \in Processes \ {p} : proc'[q] = proc[q]
  BY <1>0, ToPc, StopPc DEF OpenStore, Guarded, Steps
<1>2. CASE UNCHANGED <<dir, since, db>>
  BY <1>1, <1>2, QuietStep, UnguardedReady DEF OpenStore, data
<1>3. CASE /\ owner' = p /\ ~Pending /\ dir.source = None
           /\ \E f \in FreshFile :
                /\ Synced([dir EXCEPT !.source = f])
                /\ db' = [db EXCEPT ![f] = [generation |-> proc[p].generation,
                                            exports |-> 0, whole |-> TRUE]]
  <2>1. PICK f \in FreshFile :
                /\ Synced([dir EXCEPT !.source = f])
                /\ db' = [db EXCEPT ![f] = [generation |-> proc[p].generation,
                                            exports |-> 0, whole |-> TRUE]]
    BY <1>3
  <2> DEFINE d == [dir EXCEPT !.source = f]
  <2>2. f \in Files /\ f # None /\ f # dir.candidate
    BY <1>0, Parameters DEF FreshFile, Free, Named, None
  <2>3. dir.phase = "none" /\ dir.backup = None /\ accepted = 0
    BY <1>0, <1>3 DEF Pending, ControlInv, Shapes, Shape, DataInv, AllKept, Kept
  <2>4. dir' = d /\ Possible' = {d}
    BY <2>1 DEF Synced, Possible
  <2>5. d.source = f /\ d.backup = None /\ d.phase = "none" /\ d.candidate # f
    BY <1>0, <2>2, <2>3 DEF Directory
  <2>6. db'[f].whole /\ db'[f].exports = 0 /\ accepted' = 0
    BY <1>0, <2>1, <2>2, <2>3 DEF TypeOK, OpenStore
  <2>7. AllKept'
    BY <2>2, <2>4, <2>5, <2>6 DEF AllKept, Kept, Keeps
  <2>8. Apart'
    BY <2>2, <2>4, <2>5 DEF Apart
  <2> QED BY <1>1, <1>3, <2>7, <2>8, OwnerReady, UnguardedReady DEF DataInv
<1> QED BY <1>2, <1>3 DEF OpenStore

\* An export is committed to the one database that every directory calls the
\* source.
LEMMA DataAccept ==
    ASSUME ControlInv, ControlInv', DataInv, NEW p \in Processes, Accept(p) PROVE DataInv'
<1>0. TypeOK /\ dir \in Directory
  BY DEF ControlInv, TypeOK
<1>1. owner = p /\ Stage(p) /\ Kept(dir) /\ dir \in Possible
  BY OwnerFinds DEF Accept, At, Outside
<1>2. dir.phase = "none" /\ dir.source # None
  BY <1>1 DEF Accept, Stage, At
<1>3. \A e \in Possible : e.phase = "none" /\ e.source = dir.source /\ e.backup = None
  BY <1>2 DEF DataInv, Apart, Possible, ControlInv, Shapes, Shape, TypeOK
<1>4. dir.source \in Files /\ db[dir.source] \in Contents
  BY <1>0, <1>2 DEF Directory, TypeOK
<1>5. db[dir.source].whole /\ db[dir.source].exports = accepted
  BY <1>1, <1>2, <1>3 DEF Kept, Keeps
<1>6. db'[dir.source].whole /\ db'[dir.source].exports = accepted'
  BY <1>0, <1>4, <1>5 DEF TypeOK, Accept, Contents
<1>7. AllKept' /\ Apart'
  BY <1>2, <1>3, <1>6 DEF DataInv, AllKept, Apart, Kept, Keeps, Possible, Accept
<1>8. proc'[p].pc \notin Guarded /\ owner' = p
  BY <1>1 DEF Accept, At, Guarded
<1> QED BY <1>7, <1>8, OwnerReady, UnguardedReady DEF DataInv

\* A power loss leaves one of the directories that were possible.
LEMMA DataPowerLoss ==
    ASSUME ControlInv, DataInv, PowerLoss PROVE DataInv'
<1>1. PICK d \in since : Synced(d)
  BY DEF PowerLoss
<1>2. d \in Possible /\ dir' = d /\ Possible' = {d}
  BY <1>1 DEF PowerLoss, Mishap, Possible, Synced
<1>3. Kept(d)' /\ Shape(d)
  BY <1>1, <1>2, KeptStays DEF PowerLoss, DataInv, AllKept, ControlInv, Shapes
<1>4. AllKept' /\ Apart'
  BY <1>2, <1>3 DEF AllKept, Apart, Shape
<1>5. AllReady'
  BY UnguardedReady DEF PowerLoss, Stopped, AllReady, Guarded
<1> QED BY <1>4, <1>5 DEF DataInv

\* At first there is one database, and it has everything.
LEMMA DataInit == Init => DataInv
<1> SUFFICES ASSUME Init PROVE DataInv
  OBVIOUS
<1>1. Possible = {dir} /\ dir.candidate = None /\ dir.source = None /\ dir.backup = None
  BY DEF Init, Possible
<1>2. AllKept /\ Apart
  BY <1>1 DEF Init, AllKept, Kept, Apart
<1>3. AllReady
  BY DEF Init, Stopped, AllReady, Ready
<1> QED BY <1>2, <1>3 DEF DataInv

\* Every step keeps what the files hold.
LEMMA DataStep == ControlInv /\ DataInv /\ Recoverable /\ [Next]_vars => DataInv'
<1> SUFFICES ASSUME ControlInv, DataInv, Recoverable, [Next]_vars PROVE DataInv'
  OBVIOUS
<1>0. ControlInv'
  BY ControlStep
<1>1. ASSUME NEW p \in Processes, Recovering(p) PROVE DataInv'
  BY <1>0, <1>1, DataNothingToRecover, DataRefuseRecovery, DataRestoreLegacy,
     DataAbandonReplacement, DataValidateAgain, DataSetAside, DataBringBack, DataTidy,
     DataDropBackup, DataDropCandidate, DataUnregister DEF Recovering
<1>2. ASSUME NEW p \in Processes, Migrating(p) PROVE DataInv'
  BY <1>0, <1>2, DataDecide, DataBeginCandidate, DataFinishCandidate, DataBuildFails,
     DataRegisterReplacement, DataPreserveSource, DataRecordPreserved, DataPlaceCandidate,
     DataRecordInstalled, DataValidateInstalled, DataRecordVerified DEF Migrating
<1>3. ASSUME NEW p \in Processes, Start(p) \/ Step(p) \/ Accept(p) \/ Stop(p) \/ Crash(p)
      PROVE  DataInv'
  BY <1>0, <1>1, <1>2, <1>3, DataStart, DataLockForMigration, DataOpenStore, DataAccept,
     DataStop, DataCrash DEF Step
<1>4. CASE Upgrade \/ UNCHANGED vars
  BY <1>4 DEF Upgrade, vars, DataInv, AllKept, Kept, Keeps, Apart, AllReady, Ready, Possible
<1> QED BY <1>3, <1>4, DataPowerLoss, DataDamage DEF Next

\* What the files hold, in every reachable state.
LEMMA DataHolds == ASSUME Recoverable PROVE Spec => [](ControlInv /\ DataInv)
<1>1. Init => ControlInv /\ DataInv
  BY ControlInit, DataInit
<1>2. ControlInv /\ DataInv /\ [Next]_vars => (ControlInv /\ DataInv)'
  BY ControlStep, DataStep
<1> QED BY <1>1, <1>2, PTL DEF Spec

(* No export is lost, however often crashes and damaged candidates and      *)
(* either power losses or failing operations interrupt a replacement        *)
(* (installValidated) and its recovery: the source or its backup holds      *)
(* every export the service accepted.                                       *)
THEOREM ExportsAreKept == ASSUME Recoverable PROVE Spec => []JournalIsKept
<1>1. ControlInv /\ DataInv => JournalIsKept
  <2> SUFFICES ASSUME ControlInv, DataInv, accepted > 0
               PROVE  Holds(dir.source) \/ Holds(dir.backup)
    BY DEF JournalIsKept
  <2>1. Kept(dir) /\ Shape(dir)
    BY DEF ControlInv, TypeOK, Shapes, DataInv, AllKept, Possible
  <2> QED BY <2>1 DEF Kept, Keeps, Shape, Holds
<1> QED BY <1>1, DataHolds, PTL

(* The store is opened only on a whole database with every accepted export, *)
(* whatever an interrupted replacement left for MigrateIfNeeded, under the  *)
(* same hypothesis.                                                         *)
THEOREM ServiceIsComplete == ASSUME Recoverable PROVE Spec => []ServesEverything
<1>1. ControlInv /\ DataInv => ServesEverything
  <2> SUFFICES ASSUME ControlInv, DataInv, NEW p \in Processes, At(p, "serving")
               PROVE  Holds(dir.source)
    BY DEF ServesEverything
  <2>1. Stage(p) /\ Kept(dir) /\ Shape(dir)
    BY OwnerFinds DEF At, Outside
  <2> QED BY <2>1 DEF Stage, At, Kept, Keeps, Shape, Holds
<1> QED BY <1>1, DataHolds, PTL

===============================================================================
