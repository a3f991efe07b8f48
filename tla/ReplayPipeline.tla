---------------------------- MODULE ReplayPipeline ----------------------------
(***************************************************************************)
(* The rebuild of a database by its journal (internal/compaction): one      *)
(* goroutine reads and prepares the next batch while the other commits the  *)
(* last one to a private candidate, which is then completed, checked        *)
(* against what was replayed and handed on, or removed.                     *)
(*                                                                         *)
(* Exports are numbers in journal order.  An export is damaged when it      *)
(* cannot be restored or profiled.  What the catalog of retention says of   *)
(* exports beyond the journal is copied row by row.  CompactionReplacement  *)
(* takes all of this as one step.                                           *)
(***************************************************************************)
EXTENDS Integers, FiniteSets, FiniteSetsExt, SequencesExt

CONSTANTS
    Databases,         \* databases that are found at the start
    MaxBatchRecords,   \* the most exports of a batch
    MaxBatchBytes,     \* their size, unless one alone is larger
    MaxBuildMishaps,   \* bound: failures and cancellations of one build
    CatalogReadsFail   \* whether reading the catalog's exports may break off

ASSUME PipelineAssumption == MaxBatchRecords \in Nat \ {0} /\ MaxBatchBytes \in Nat /\ CatalogReadsFail \in BOOLEAN
ASSUME DatabasesAssumption == \A db \in Databases : db.sizes \in Seq(Nat) /\ db.retained \in Seq(STRING)

VARIABLES
    database,    \* the database: its kind, whether the rebuild is forced, sizes, damaged exports, catalog
    stage,       \* what the build is at
    reader,      \* the rows of the journal: how many were read, one set aside, open, error
    producer,    \* the goroutine that prepares: where it is, its batch, its error
    consumer,    \* the caller, which commits: the same
    cancelled,   \* whether the context of the pipeline is
    candidate,   \* the database being built
    source,      \* whether the snapshot of the old database is open
    broken       \* how many steps failed

pipelineVars == <<database, stage, reader, producer, consumer, cancelled, candidate, source, broken>>

NoCandidate == [exports |-> << >>, expected |-> << >>, retained |-> << >>, exists |-> FALSE, generation |-> FALSE]
NoBatch == << >>
NoneAside == 0
Clear == ""          \* no error

Journal(db) == Len(db.sizes)
Ends == {"built", "failed", "skipped", "refused"}

Mishap == broken < MaxBuildMishaps /\ broken' = broken + 1
Smooth == UNCHANGED broken

-----------------------------------------------------------------------------
(* Before *)

PipelineInit ==
    /\ database \in Databases
    /\ stage = "deciding"
    /\ reader = [read |-> 0, aside |-> NoneAside, open |-> FALSE, error |-> Clear]
    /\ producer = [at |-> "done", batch |-> NoBatch, error |-> Clear]
    /\ consumer = [at |-> "done", batch |-> NoBatch, error |-> Clear]
    /\ cancelled = FALSE
    /\ candidate = NoCandidate
    /\ source = "closed"
    /\ broken = 0

\* Whether the storage is of another generation or its projections have to be rebuilt.
NeedsMigration(db) == db.kind \in {"older", "projections"}

\* A rebuild that is forced still refuses what it could not replay.
Decision(db) ==
    CASE db.kind \in {"none", "empty"} -> "skipped"
      [] db.kind \in {"newer", "unjournaled"} -> "refused"
      [] OTHER -> IF db.force \/ NeedsMigration(db) THEN "opening" ELSE "skipped"

Decide ==
    /\ stage = "deciding"
    /\ stage' = Decision(database)
    /\ UNCHANGED <<database, reader, producer, consumer, cancelled, candidate, source, broken>>

\* The snapshot, its rows and the empty candidate; then the producer starts.
OpenBuild ==
    /\ stage = "opening"
    /\ stage' = "replaying"
    /\ source' = "open"
    /\ reader' = [reader EXCEPT !.open = TRUE]
    /\ candidate' = [NoCandidate EXCEPT !.exists = TRUE]
    /\ producer' = [producer EXCEPT !.at = "checking"]
    /\ consumer' = [consumer EXCEPT !.at = "receiving"]
    /\ UNCHANGED <<database, cancelled, broken>>

\* The application stops: the contexts of the build and of its pipeline end.
CancelBuild ==
    /\ stage = "replaying" /\ ~cancelled
    /\ Mishap
    /\ cancelled' = TRUE
    /\ UNCHANGED <<database, stage, reader, producer, consumer, candidate, source>>

-----------------------------------------------------------------------------
(* The producer *)

BatchBytes(batch) == MapThenSumSet(LAMBDA n : database.sizes[n], ToSet(batch))

\* An export that would exceed the batch waits for the next one.
TooMuch(export) ==
    producer.batch # NoBatch /\ database.sizes[export] > MaxBatchBytes - BatchBytes(producer.batch)

\* The end of a chunk: what was read is prepared; nothing more ends the producer.
EndChunk == producer' = [producer EXCEPT !.at = IF producer.batch = NoBatch THEN "done" ELSE "preparing"]

Leave(error) == producer' = [producer EXCEPT !.at = "done", !.batch = NoBatch, !.error = error]

\* Before each row the producer looks whether it was cancelled.
CheckContext ==
    /\ producer.at = "checking"
    /\ IF cancelled THEN Leave("cancelled") /\ UNCHANGED reader
       ELSE IF Len(producer.batch) = MaxBatchRecords THEN EndChunk /\ UNCHANGED reader
       ELSE IF reader.aside # NoneAside
            THEN /\ producer' = [producer EXCEPT !.batch = Append(@, reader.aside)]
                 /\ reader' = [reader EXCEPT !.aside = NoneAside]
       ELSE producer' = [producer EXCEPT !.at = "reading"] /\ UNCHANGED reader
    /\ UNCHANGED <<database, stage, consumer, cancelled, candidate, source, broken>>

\* One row of the journal.  Rows that were closed, or are at their end, are no more.
ReadRow ==
    /\ producer.at = "reading"
    /\ LET export == reader.read + 1
       IN  IF ~reader.open \/ export > Journal(database)
           THEN EndChunk /\ reader' = [reader EXCEPT !.open = FALSE]
           ELSE IF TooMuch(export)
           THEN EndChunk /\ reader' = [reader EXCEPT !.read = export, !.aside = export]
           ELSE /\ producer' = [producer EXCEPT !.at = "checking", !.batch = Append(@, export)]
                /\ reader' = [reader EXCEPT !.read = export]
    /\ UNCHANGED <<database, stage, consumer, cancelled, candidate, source, broken>>

\* The rows break off; the producer only sees that there are no more.
RowsBreak ==
    /\ producer.at = "reading" /\ reader.open
    /\ Mishap
    /\ EndChunk
    /\ reader' = [reader EXCEPT !.open = FALSE, !.error = "rows"]
    /\ UNCHANGED <<database, stage, consumer, cancelled, candidate, source>>

\* Rows are closed for a cancelled context, at any moment.
RowsCancelled ==
    /\ reader.open /\ cancelled
    /\ reader' = [reader EXCEPT !.open = FALSE, !.error = "cancelled"]
    /\ UNCHANGED <<database, stage, producer, consumer, cancelled, candidate, source, broken>>

\* The items of a batch are prepared side by side; one that fails fails the batch.
Prepare ==
    /\ producer.at = "preparing"
    /\ \/ /\ ToSet(producer.batch) \cap database.damaged = {}
          /\ producer' = [producer EXCEPT !.at = "offering"]
       \/ /\ ToSet(producer.batch) \cap database.damaged # {}
          /\ Leave("damaged")
       \/ cancelled /\ Leave("cancelled")
    /\ UNCHANGED <<database, stage, reader, consumer, cancelled, candidate, source, broken>>

\* A prepared batch changes hands when both sides are there.
HandOff ==
    /\ producer.at = "offering" /\ consumer.at = "receiving"
    /\ consumer' = [consumer EXCEPT !.at = "received", !.batch = producer.batch]
    /\ producer' = [producer EXCEPT !.at = "checking", !.batch = NoBatch]
    /\ UNCHANGED <<database, stage, reader, cancelled, candidate, source, broken>>

StopOffering ==
    /\ producer.at = "offering" /\ cancelled
    /\ Leave("cancelled")
    /\ UNCHANGED <<database, stage, reader, consumer, cancelled, candidate, source, broken>>

-----------------------------------------------------------------------------
(* The consumer *)

GiveUp(error) == consumer' = [consumer EXCEPT !.at = "cancelling", !.error = error]

\* With nothing received yet, the consumer sees the end of the producer or of its context.
StopReceiving ==
    /\ consumer.at = "receiving"
    /\ \/ producer.at = "done" /\ consumer' = [consumer EXCEPT !.at = "joining"]
       \/ cancelled /\ GiveUp("cancelled")
    /\ UNCHANGED <<database, stage, reader, producer, cancelled, candidate, source, broken>>

\* What will be checked of the candidate: exports count once they were committed.
Expecting(batch) == [candidate EXCEPT !.expected = @ \o batch]

\* A batch is committed whole, and then expected of the candidate.
CommitReplayBatch ==
    /\ consumer.at = "received" /\ ~cancelled
    /\ candidate' = [Expecting(consumer.batch) EXCEPT !.exports = @ \o consumer.batch]
    /\ consumer' = [consumer EXCEPT !.at = "receiving", !.batch = NoBatch]
    /\ UNCHANGED <<database, stage, reader, producer, cancelled, source, broken>>

\* A commit that is refused, or cancelled before or while it runs, leaves nothing.
CommitFails ==
    /\ consumer.at = "received"
    /\ \/ cancelled /\ Smooth
       \/ ~cancelled /\ Mishap
    /\ GiveUp("write")
    /\ UNCHANGED <<database, stage, reader, producer, cancelled, candidate, source>>

\* Fault: the consumer waits for a producer that may wait for it.
JoinWithoutCancelling ==
    /\ consumer.at = "cancelling"
    /\ consumer' = [consumer EXCEPT !.at = "joining"]
    /\ UNCHANGED <<database, stage, reader, producer, cancelled, candidate, source, broken>>

\* Whoever gives up ends the producer before it waits for it.
CancelProducer ==
    /\ consumer.at = "cancelling"
    /\ cancelled' = TRUE
    /\ consumer' = [consumer EXCEPT !.at = "joining"]
    /\ UNCHANGED <<database, stage, reader, producer, candidate, source, broken>>

\* The candidate goes, and everything that was open is closed.
FailBuild ==
    /\ stage' = "failed"
    /\ candidate' = NoCandidate
    /\ source' = "closed"
    /\ reader' = [reader EXCEPT !.open = FALSE]

\* The first error of the two is that of the consumer.
JoinProducer ==
    /\ consumer.at = "joining" /\ producer.at = "done"
    /\ consumer' = [consumer EXCEPT !.at = "done", !.batch = NoBatch]
    /\ IF consumer.error = Clear /\ producer.error = Clear
       THEN stage' = "closing" /\ UNCHANGED <<reader, candidate, source>>
       ELSE FailBuild
    /\ UNCHANGED <<database, producer, cancelled, broken>>

-----------------------------------------------------------------------------
(* After *)

\* Fault: the end of the rows is taken for the end of the journal.
CloseWithoutError ==
    /\ stage = "closing"
    /\ stage' = "projecting" /\ reader' = [reader EXCEPT !.open = FALSE]
    /\ UNCHANGED <<database, producer, consumer, cancelled, candidate, source, broken>>

\* What broke off while it was read is known only now.
CloseReader ==
    /\ stage = "closing"
    /\ IF reader.error # Clear THEN FailBuild
       ELSE stage' = "projecting" /\ reader' = [reader EXCEPT !.open = FALSE] /\ UNCHANGED <<candidate, source>>
    /\ UNCHANGED <<database, producer, consumer, cancelled, broken>>

FinalizeReplay ==
    /\ stage = "projecting"
    /\ stage' = "copying"
    /\ UNCHANGED <<database, reader, producer, consumer, cancelled, candidate, source, broken>>

\* The first rows of the catalog's exports, all of them unless reading breaks
\* off; then the segments, whose members have to be there.
CopyRetentionCatalog(rows) ==
    /\ stage = "copying"
    /\ IF rows < Len(database.retained) THEN CatalogReadsFail /\ Mishap ELSE Smooth
    /\ IF \E n \in rows + 1 .. Len(database.retained) : database.retained[n] = "archived"
       THEN FailBuild
       ELSE /\ candidate' = [candidate EXCEPT !.retained = SubSeq(database.retained, 1, rows)]
            /\ stage' = "releasing"
            /\ UNCHANGED <<reader, source>>
    /\ UNCHANGED <<database, producer, consumer, cancelled>>

ReleaseSource ==
    /\ stage = "releasing"
    /\ stage' = "recording"
    /\ source' = "closed"
    /\ UNCHANGED <<database, reader, producer, consumer, cancelled, candidate, broken>>

FinalizeCandidate ==
    /\ stage = "recording"
    /\ stage' = "validating"
    /\ candidate' = [candidate EXCEPT !.generation = TRUE]
    /\ UNCHANGED <<database, reader, producer, consumer, cancelled, source, broken>>

\* Count and digest of the exports are those of what was replayed.
ValidateCandidate ==
    /\ stage = "validating"
    /\ IF candidate.generation /\ candidate.exports = candidate.expected
       THEN stage' = "built" /\ UNCHANGED <<reader, candidate, source>>
       ELSE FailBuild
    /\ UNCHANGED <<database, producer, consumer, cancelled, broken>>

\* Any step but those of the pipeline may fail.
StepFails ==
    /\ stage \in {"opening", "projecting", "copying", "releasing", "recording", "validating"}
    /\ Mishap
    /\ FailBuild
    /\ UNCHANGED <<database, producer, consumer, cancelled>>

-----------------------------------------------------------------------------

ProducerStep == CheckContext \/ ReadRow \/ RowsBreak \/ Prepare \/ StopOffering

ConsumerStep == HandOff \/ StopReceiving \/ CommitReplayBatch \/ CommitFails \/ CancelProducer \/ JoinProducer

BuildStep ==
    \/ Decide \/ OpenBuild \/ CloseReader \/ FinalizeReplay \/ ReleaseSource \/ FinalizeCandidate \/ ValidateCandidate
    \/ \E rows \in 0 .. Len(database.retained) : CopyRetentionCatalog(rows)

PipelineNext == ProducerStep \/ ConsumerStep \/ BuildStep \/ CancelBuild \/ RowsCancelled \/ StepFails

PipelineSpec == PipelineInit /\ [][PipelineNext]_pipelineVars

-----------------------------------------------------------------------------
(* Correctness *)

\* A build is whole or nothing: what is handed on holds every export of the
\* journal in order and the whole catalog, whatever was cancelled or broke off
\* on the way; the producer never holds more than one batch, and one row, beyond
\* the batch in flight; and once the build ended, no goroutine is left, the old
\* database is closed, and there is a candidate only if it was built
\* (buildCandidate, commitPreparedBatches).
BuiltIsWhole ==
    /\ stage = "built" =>
          /\ candidate.exports = [n \in 1 .. Journal(database) |-> n]
          /\ candidate.retained = database.retained
    /\ candidate.exists => reader.read - Len(candidate.exports) <= 2 * MaxBatchRecords + 1
    /\ stage \in Ends => /\ producer.at = "done" /\ consumer.at = "done"
                         /\ source = "closed" /\ ~reader.open
                         /\ candidate.exists <=> stage = "built"

\* A build ends, whoever gave up on whom.
BuildEnds == <>(stage \in Ends)
===============================================================================
