---------------------------- MODULE ServingShutdown ----------------------------
(***************************************************************************)
(* The process from its first listener to its exit (cmd/agentmetry, app):   *)
(* the dashboard answers with the maintenance surface while the database is *)
(* migrated and opened; then three servers and the services share it; then  *)
(* four owners stop in parallel under one deadline, and by force after it.  *)
(*                                                                         *)
(* A call is named for its kind, and stands for those of its kind: rpc and  *)
(* post export; a request is one of the dashboard, and may ask for a        *)
(* restore; a stream is a live client, there until it leaves or is cut off. *)
(* The migration is that of CompactionReplacement, the committer and the    *)
(* workers of retention those of BatchingCommitter and RetentionLifecycle;  *)
(* here they run or have ended.  Cycles that wait for each other count as   *)
(* one, and so do restores.                                                 *)
(***************************************************************************)
EXTENDS Integers, FiniteSets

CONSTANTS
    Calls,         \* the kinds of calls that come
    MaxFailures    \* bound: servers and steps of the start that fail

ASSUME ServingAssumption == Calls \subseteq {"rpc", "post", "request", "stream"} /\ MaxFailures \in Nat

VARIABLES
    phase,       \* where run is
    surface,     \* what the maintenance handler says; it delegates when "ok"
    signalled,   \* whether the process was told to stop
    failed,      \* what failed: servers that ended by themselves, steps of the start
    listening,   \* servers that take calls
    torn,        \* servers whose connections were closed
    call,        \* each call
    committer,   \* accepting, closed, or drained
    scheduler,   \* its loop and its cycle: launching, working, waiting, ended
    restoring,   \* the worker of accepted restores
    owners,      \* the four stops: where each is
    expired,     \* whether the deadline of the shutdown passed
    forced,      \* how far the forced stop is
    clean,       \* whether no error was joined into the result
    store        \* none, open, closed

startVars == <<phase, surface, signalled, failed, listening, store>>
workVars == <<call, committer, scheduler, restoring>>
stopVars == <<torn, owners, expired, forced, clean>>
servingVars == <<startVars, workVars, stopVars>>

Servers == {"grpc", "otlp", "dashboard"}
Owners == Servers \cup {"services"}

ServerOf(c) == CASE c = "rpc" -> "grpc" [] c = "post" -> "otlp" [] OTHER -> "dashboard"

AtWork(c) == call[c] # "none"
Busy(server) == \E c \in Calls : ServerOf(c) = server /\ AtWork(c)

ServingInit ==
    /\ phase = "migrating" /\ surface = "migrating"
    /\ signalled = FALSE
    /\ failed = {} /\ listening = {"dashboard"} /\ torn = {}
    /\ call = [c \in Calls |-> "none"]
    /\ committer = "none"
    /\ scheduler = "none"
    /\ restoring = "none"
    /\ owners = [o \in Owners |-> "idle"]
    /\ expired = FALSE /\ forced = "no" /\ clean = TRUE
    /\ store = "none"

MayFail(what) == Cardinality(failed) < MaxFailures /\ failed' = failed \cup {what}

-----------------------------------------------------------------------------
(* The start *)

Signal ==
    /\ phase \in {"migrating", "migration failed", "opening", "listening", "serving"} /\ ~signalled
    /\ signalled' = TRUE
    /\ UNCHANGED <<phase, surface, failed, listening, store, workVars, stopVars>>

Migrated ==
    /\ phase = "migrating"
    /\ phase' = "opening"
    /\ UNCHANGED <<surface, signalled, failed, listening, store, workVars, stopVars>>

\* A migration fails by itself or with its context; the surface says so until the process ends.
MigrationFails ==
    /\ phase = "migrating"
    /\ IF signalled THEN failed' = failed \cup {"migration"} ELSE MayFail("migration")
    /\ phase' = "migration failed"
    /\ surface' = "failed"
    /\ clean' = FALSE
    /\ UNCHANGED <<signalled, listening, store, workVars, torn, owners, expired, forced>>

LeaveFailedMigration ==
    /\ phase = "migration failed"
    /\ signalled \/ "dashboard" \in failed
    /\ phase' = "exited"
    /\ listening' = {}
    /\ torn' = {"dashboard"}
    /\ UNCHANGED <<surface, signalled, failed, store, workVars, owners, expired, forced, clean>>

\* The store, the services with their first cycle, and the surface that delegates to them.
OpenStore ==
    /\ phase = "opening"
    /\ phase' = "listening"
    /\ store' = "open"
    /\ surface' = "ok"
    /\ committer' = "accepting"
    /\ scheduler' = "launching"
    /\ UNCHANGED <<signalled, failed, listening, call, restoring, stopVars>>

OpenFails ==
    /\ phase = "opening"
    /\ MayFail("open")
    /\ phase' = "exited"
    /\ listening' = {} /\ torn' = {"dashboard"}
    /\ clean' = FALSE
    /\ UNCHANGED <<surface, signalled, store, workVars, owners, expired, forced>>

Listen ==
    /\ phase = "listening"
    /\ phase' = "serving"
    /\ listening' = listening \cup {"grpc", "otlp"}
    /\ UNCHANGED <<surface, signalled, failed, store, workVars, stopVars>>

\* Without the gRPC address run returns; its deferred calls stop the services with no deadline.
ListenFails ==
    /\ phase = "listening"
    /\ MayFail("listen")
    /\ phase' = "unwinding"
    /\ listening' = {} /\ torn' = {"dashboard"}
    /\ clean' = FALSE
    /\ owners' = [owners EXCEPT !["services"] = "cancelling"]
    /\ UNCHANGED <<surface, signalled, store, workVars, expired, forced>>

\* A server ends by itself; its error waits in the channel.
ServerFails(server) ==
    /\ server \in listening
    /\ phase \in {"migrating", "migration failed", "opening", "listening", "serving"}
    /\ MayFail(server)
    /\ listening' = listening \ {server}
    /\ UNCHANGED <<phase, surface, signalled, store, workVars, stopVars>>

-----------------------------------------------------------------------------
(* Calls and workers *)

\* Before it delegates, the surface answers every request itself.
Arrive(c) ==
    /\ call[c] = "none"
    /\ ServerOf(c) \in listening /\ surface = "ok"
    /\ call' = [call EXCEPT ![c] = "running"]
    /\ UNCHANGED <<startVars, committer, scheduler, restoring, stopVars>>

\* An export is admitted, unless the committer was closed.
Admit(c) ==
    /\ c \in {"rpc", "post"} /\ call[c] = "running"
    /\ committer = "accepting"
    /\ call' = [call EXCEPT ![c] = "waiting"]
    /\ UNCHANGED <<startVars, committer, scheduler, restoring, stopVars>>

\* A restore is claimed in the store and left to a worker, for whom the
\* services may have stopped waiting.
AcceptRestore(c) ==
    /\ c = "request" /\ call[c] = "running"
    /\ store = "open"
    /\ restoring' = IF owners["services"] \in {"draining", "returned"} /\ restoring # "running" THEN "late" ELSE "running"
    /\ call' = [call EXCEPT ![c] = "none"]
    /\ UNCHANGED <<startVars, committer, scheduler, stopVars>>

\* A call is answered, refused, left by its client or cut off.
LeaveCall(c) ==
    /\ call[c] = "running"
    /\ call' = [call EXCEPT ![c] = "none"]
    /\ UNCHANGED <<startVars, committer, scheduler, restoring, stopVars>>

\* The caller of an admitted export goes without its answer.
Abandon(c) ==
    /\ call[c] = "waiting" /\ ServerOf(c) \in torn
    /\ call' = [call EXCEPT ![c] = "none"]
    /\ UNCHANGED <<startVars, committer, scheduler, restoring, stopVars>>

Answer(c) ==
    /\ call[c] = "waiting"
    /\ call' = [call EXCEPT ![c] = "none"]
    /\ UNCHANGED <<startVars, committer, scheduler, restoring, stopVars>>

DrainCommitter ==
    /\ committer = "closed"
    /\ \A c \in Calls : call[c] # "waiting"
    /\ committer' = "drained"
    /\ UNCHANGED <<startVars, call, scheduler, restoring, stopVars>>

Cancelled == owners["services"] \notin {"idle", "cancelling"}

\* The loop launches a cycle when it starts and at each tick, also one that
\* came with the cancellation.
Launch ==
    /\ scheduler \in {"launching", "waiting"}
    /\ scheduler' = "working"
    /\ UNCHANGED <<startVars, call, committer, restoring, stopVars>>

CycleEnds ==
    /\ scheduler = "working"
    /\ scheduler' = "waiting"
    /\ UNCHANGED <<startVars, call, committer, restoring, stopVars>>

LoopEnds ==
    /\ scheduler = "waiting" /\ Cancelled
    /\ scheduler' = "ended"
    /\ UNCHANGED <<startVars, call, committer, restoring, stopVars>>

RestoreEnds ==
    /\ restoring # "none"
    /\ restoring' = "none"
    /\ UNCHANGED <<startVars, call, committer, scheduler, stopVars>>

-----------------------------------------------------------------------------
(* The owners *)

\* A signal or the error of a server starts the four stops.
StopServing ==
    /\ phase = "serving"
    /\ phase' = "stopping"
    /\ \/ signalled /\ UNCHANGED clean
       \/ failed \cap Servers # {} /\ clean' = FALSE
    /\ listening' = {}
    /\ owners' = [o \in Owners |-> IF o = "services" THEN "cancelling" ELSE "waiting"]
    /\ UNCHANGED <<surface, signalled, failed, store, workVars, torn, expired, forced>>

DeadlinePasses ==
    /\ phase \in {"stopping", "collecting"} /\ ~expired
    /\ expired' = TRUE
    /\ UNCHANGED <<startVars, workVars, torn, owners, forced, clean>>

Return(o, fine) ==
    /\ owners' = [owners EXCEPT ![o] = "returned"]
    /\ clean' = (clean /\ fine)
    /\ UNCHANGED <<startVars, torn, expired, forced>>

\* A graceful stop waits for every handler, also after its connections were closed.
GracefulStop ==
    /\ owners["grpc"] = "waiting" /\ ~Busy("grpc")
    /\ Return("grpc", TRUE)
    /\ UNCHANGED workVars

\* A server without calls, or whose connections were closed, is shut down;
\* at the deadline it is left as it is.
Shutdown(server) ==
    /\ server # "grpc" /\ owners[server] = "waiting"
    /\ \/ (~Busy(server) \/ server \in torn) /\ Return(server, TRUE)
       \/ expired /\ Return(server, FALSE)
    /\ UNCHANGED workVars

CancelServices ==
    /\ owners["services"] = "cancelling"
    /\ owners' = [owners EXCEPT !["services"] = "ending scheduler"]
    /\ UNCHANGED <<startVars, workVars, torn, expired, forced, clean>>

StopCommitter(fine) ==
    /\ committer' = "closed"
    /\ owners' = [owners EXCEPT !["services"] = "draining"]
    /\ clean' = (clean /\ fine)
    /\ UNCHANGED <<startVars, call, scheduler, restoring, torn, expired, forced>>

\* The loop and its cycle, then the restores that were accepted; whatever of
\* them lasts beyond the deadline is left; then the committer is closed.
CloseScheduler ==
    /\ owners["services"] = "ending scheduler"
    /\ \/ /\ scheduler = "ended" /\ restoring # "running"
          /\ StopCommitter(TRUE)
       \/ expired /\ StopCommitter(FALSE)

\* At the deadline the committer is cancelled, and waited for.
CloseCommitter ==
    /\ owners["services"] = "draining" /\ committer = "drained"
    /\ \/ Return("services", TRUE)
       \/ expired /\ Return("services", FALSE)
    /\ UNCHANGED workVars

AllReturned == \A o \in Owners : owners[o] = "returned"

Tear(server, next) ==
    /\ torn' = torn \cup {server}
    /\ forced' = next
    /\ UNCHANGED <<startVars, workVars, owners, expired, clean>>

\* At the deadline the connections are closed, server by server.
ForceStop ==
    /\ phase = "stopping"
    /\ \/ forced = "no" /\ expired /\ Tear("grpc", "otlp")
       \/ forced = "otlp" /\ Tear("otlp", "dashboard")
       \/ forced = "dashboard" /\ Tear("dashboard", "done")

\* Every owner returned, and the forced stop if it had begun.
CollectErrors ==
    /\ phase = "stopping" /\ AllReturned /\ forced \in {"no", "done"}
    /\ phase' = "collecting"
    /\ UNCHANGED <<surface, signalled, failed, listening, store, workVars, stopVars>>

\* Fault: a shutdown that had to be forced returns what its owners returned.
JoinWithoutDeadline ==
    /\ phase = "collecting"
    /\ phase' = "unwinding"
    /\ UNCHANGED <<surface, signalled, failed, listening, store, workVars, stopVars>>

\* The deadline is an error of its own.
JoinErrors ==
    /\ phase = "collecting"
    /\ phase' = "unwinding"
    /\ clean' = (clean /\ ~expired)
    /\ UNCHANGED <<surface, signalled, failed, listening, store, workVars, torn, owners, expired, forced>>

CloseStore ==
    /\ phase = "unwinding" /\ owners["services"] = "returned"
    /\ phase' = "exited"
    /\ store' = "closed"
    /\ UNCHANGED <<surface, signalled, failed, listening, workVars, stopVars>>

-----------------------------------------------------------------------------

RunStep ==
    \/ Migrated \/ MigrationFails \/ LeaveFailedMigration \/ OpenStore \/ Listen
    \/ StopServing \/ ForceStop \/ CollectErrors \/ JoinErrors \/ CloseStore

OwnerStep(o) ==
    \/ o = "grpc" /\ GracefulStop
    \/ o \in {"otlp", "dashboard"} /\ Shutdown(o)
    \/ o = "services" /\ (CancelServices \/ CloseScheduler \/ CloseCommitter)

CallStep(c) == Arrive(c) \/ Admit(c) \/ AcceptRestore(c) \/ LeaveCall(c) \/ Abandon(c) \/ Answer(c)

WorkerStep == DrainCommitter \/ Launch \/ CycleEnds \/ LoopEnds \/ RestoreEnds

\* Once the process is over, nothing runs.
Alive == phase # "exited"
ServingNext ==
    /\ Alive
    /\ \/ RunStep
       \/ OpenFails \/ ListenFails
       \/ Signal \/ DeadlinePasses
       \/ \E server \in Servers : ServerFails(server)
       \/ \E o \in Owners : OwnerStep(o)
       \/ \E c \in Calls : CallStep(c)
       \/ WorkerStep

ServingSpec == ServingInit /\ [][ServingNext]_servingVars

-----------------------------------------------------------------------------
(* Correctness *)

\* A process that exits without an error left nothing running: no call, no
\* cycle, no admitted export, and of the restores only one that was accepted
\* after the services had stopped waiting for restores; and it is never
\* without an error when something was cut off (shutdownServing, run).
CleanExitIsQuiet ==
    phase = "exited" /\ clean =>
        /\ store = "closed"
        /\ \A c \in Calls : ~AtWork(c)
        /\ scheduler = "ended" /\ committer = "drained"
        /\ restoring # "running"
        /\ torn = {}

\* Told to stop, or left by one of its servers, the process exits, whatever its
\* calls do (shutdownServing).
ShutdownEnds == signalled \/ failed \cap Servers # {} ~> phase = "exited"
===============================================================================
