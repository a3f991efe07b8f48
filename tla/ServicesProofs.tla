----------------------------- MODULE ServicesProofs -----------------------------
(***************************************************************************)
(* Theorems about two parts of the service that share no state.  About      *)
(* ReplayPipeline, for any databases, batches and failures: a rebuild is    *)
(* whole or leaves nothing.  About ServingShutdown, for any kinds of calls  *)
(* and any bound of failures: an exit without an error is a quiet one.      *)
(***************************************************************************)
EXTENDS ReplayPipeline, ServingShutdown, SequenceTheorems, TLAPS

-----------------------------------------------------------------------------
(* The rebuild *)

\* The exports after the first a, up to b.
Run(a, b) == [n \in 1 .. b - a |-> a + n]

Before == {"deciding", "opening"}
Middle == {"closing", "projecting", "copying", "releasing", "recording", "validating"}
Copied == {"releasing", "recording", "validating", "built"}
Building == {"replaying", "built"} \cup Middle

\* How far the commits, the batch that was handed over and the one being made are.
Committed == Len(candidate.exports)
Handed == Committed + Len(consumer.batch)
Gathered == Handed + Len(producer.batch)

PipelineTypes ==
    /\ database \in Databases
    /\ stage \in Before \cup Building \cup {"failed", "skipped", "refused"}
    /\ reader \in [read : Nat, aside : Nat, open : BOOLEAN, error : {Clear, "rows", "cancelled"}]
    /\ producer \in [at : {"done", "checking", "reading", "preparing", "offering"}, batch : Seq(Nat),
                     error : {Clear, "cancelled", "damaged"}]
    /\ consumer \in [at : {"done", "receiving", "received", "cancelling", "joining"}, batch : Seq(Nat),
                     error : {Clear, "cancelled", "write"}]
    /\ candidate \in [exports : Seq(Nat), expected : Seq(Nat), retained : Seq(STRING), exists : BOOLEAN, generation : BOOLEAN]

\* What is open, and who runs, at every stage.
StagesInOrder ==
    /\ stage # "replaying" => producer.at = "done" /\ consumer.at = "done" /\ ~reader.open
    /\ stage \notin Building => candidate = NoCandidate /\ source = "closed"
    /\ stage \in Building => candidate.exists
    /\ stage \in {"recording", "validating", "built"} => source = "closed"
    /\ stage \in Before => /\ reader = [read |-> 0, aside |-> NoneAside, open |-> FALSE, error |-> Clear]
                           /\ producer = [at |-> "done", batch |-> NoBatch, error |-> Clear]
                           /\ consumer = [at |-> "done", batch |-> NoBatch, error |-> Clear]

\* While they run without an error, batches follow each other without a gap.
BatchesAreConsecutive ==
    stage = "replaying" /\ producer.error = Clear =>
        /\ candidate.exports = Run(0, Committed)
        /\ consumer.batch = Run(Committed, Handed)
        /\ producer.batch = Run(Handed, Gathered)
        /\ reader.aside = NoneAside => reader.read = Gathered
        /\ reader.aside # NoneAside => reader.aside = Gathered + 1 /\ reader.read = Gathered + 1

\* Batches are small, and the producer is at most one ahead, even when it left.
ProducerIsNear ==
    stage = "replaying" =>
        /\ Len(producer.batch) <= MaxBatchRecords /\ Len(consumer.batch) <= MaxBatchRecords
        /\ reader.read <= Handed + MaxBatchRecords + 1
        /\ producer.error # Clear => producer.at = "done"

\* Who is done has nothing left, and the end of the rows is the end of the journal.
EndsAreEnds ==
    stage = "replaying" =>
        /\ producer.at = "reading" => reader.aside = NoneAside /\ Len(producer.batch) < MaxBatchRecords
        /\ producer.at = "done" /\ producer.error = Clear =>
              producer.batch = NoBatch /\ reader.aside = NoneAside /\ ~reader.open
        /\ consumer.at \in {"receiving", "joining"} /\ consumer.error = Clear => consumer.batch = NoBatch
        /\ consumer.at \in {"receiving", "received"} => consumer.error = Clear
        /\ consumer.at = "joining" /\ consumer.error = Clear => producer.at = "done"
        /\ consumer.at # "done"
        /\ consumer.at = "cancelling" => consumer.error # Clear
        /\ reader.read <= Journal(database)
        /\ ~reader.open /\ reader.error = Clear => reader.read = Journal(database)

\* The rest of the build keeps what was replayed, and copies the whole catalog.
RestIsWhole ==
    /\ candidate.expected = candidate.exports
    /\ stage \in Middle \cup {"built"} =>
          /\ candidate.exports = Run(0, reader.read)
          /\ stage # "closing" => reader.error = Clear
          /\ reader.error = Clear => reader.read = Journal(database)
    /\ stage \in Copied => candidate.retained = database.retained

WholeInv ==
    /\ PipelineTypes /\ StagesInOrder /\ BatchesAreConsecutive
    /\ ProducerIsNear /\ EndsAreEnds /\ RestIsWhole

-----------------------------------------------------------------------------

\* Runs of exports grow at their end.
LEMMA RunGrows ==
    ASSUME NEW a \in Nat, NEW b \in Nat, a <= b
    PROVE  /\ Run(a, b) \in Seq(Nat) /\ Len(Run(a, b)) = b - a
           /\ Append(Run(a, b), b + 1) = Run(a, b + 1)
           /\ Len(Run(a, b + 1)) = b + 1 - a
<1>1. Run(a, b) \in Seq(Nat) /\ Len(Run(a, b)) = b - a
  BY DEF Run
<1>2. Run(a, b + 1) \in Seq(Nat) /\ Len(Run(a, b + 1)) = b + 1 - a
  BY DEF Run
<1>3. \A n \in 1 .. b + 1 - a : Append(Run(a, b), b + 1)[n] = Run(a, b + 1)[n]
  BY <1>1 DEF Run
<1> QED BY <1>1, <1>2, <1>3

\* Two runs that meet are one.
LEMMA RunsJoin ==
    ASSUME NEW a \in Nat, NEW b \in Nat, NEW c \in Nat, a <= b, b <= c
    PROVE  Run(a, b) \o Run(b, c) = Run(a, c)
<1> DEFINE joined == Run(a, b) \o Run(b, c)
<1>1. Run(a, b) \in Seq(Nat) /\ Len(Run(a, b)) = b - a
  BY DEF Run
<1>2. Run(b, c) \in Seq(Nat) /\ Len(Run(b, c)) = c - b
  BY DEF Run
<1>3. Run(a, c) \in Seq(Nat) /\ Len(Run(a, c)) = c - a
  BY DEF Run
<1>4. joined \in Seq(Nat) /\ Len(joined) = c - a
  BY <1>1, <1>2
<1>5. \A n \in 1 .. c - a : joined[n] = IF n <= b - a THEN Run(a, b)[n] ELSE Run(b, c)[n - (b - a)]
  BY <1>1, <1>2, ConcatProperties
<1> HIDE DEF joined
<1>6. \A n \in 1 .. c - a : joined[n] = Run(a, c)[n]
  <2> SUFFICES ASSUME NEW n \in 1 .. c - a PROVE joined[n] = a + n
    BY DEF Run
  <2>1. CASE n <= b - a
    <3>1. n \in 1 .. b - a
      BY <2>1
    <3>2. Run(a, b)[n] = a + n
      BY <3>1 DEF Run
    <3> QED BY <1>5, <2>1, <3>2
  <2>2. CASE n > b - a
    <3>1. n - (b - a) \in 1 .. c - b /\ b + (n - (b - a)) = a + n
      BY <2>2
    <3>2. Run(b, c)[n - (b - a)] = b + (n - (b - a))
      BY <3>1 DEF Run
    <3> QED BY <1>5, <2>2, <3>1, <3>2
  <2> QED BY <2>1, <2>2
<1>7. joined = Run(a, c)
  BY <1>3, <1>4, <1>6
<1> QED BY <1>7 DEF joined

\* A run from a point to the same is empty.
LEMMA RunIsEmpty == ASSUME NEW a \in Nat PROVE Run(a, a) = << >>
  BY DEF Run

\* The invariant holds when nothing has begun.
LEMMA WholeAtFirst == PipelineInit => WholeInv
<1> SUFFICES ASSUME PipelineInit PROVE WholeInv
  OBVIOUS
<1> USE DEF PipelineInit, Before, Middle, Copied, Building, NoCandidate, NoBatch, NoneAside, Clear
<1>1. PipelineTypes
  <2>1. << >> \in Seq(Nat) /\ << >> \in Seq(STRING)
    BY EmptySeq
  <2>2. candidate \in [exports : Seq(Nat), expected : Seq(Nat), retained : Seq(STRING), exists : BOOLEAN, generation : BOOLEAN]
    BY <2>1
  <2> QED BY <2>1, <2>2 DEF PipelineTypes
<1>2. StagesInOrder
  BY DEF StagesInOrder
<1>3. BatchesAreConsecutive /\ ProducerIsNear /\ EndsAreEnds /\ RestIsWhole
  BY DEF BatchesAreConsecutive, ProducerIsNear, EndsAreEnds, RestIsWhole
<1> QED BY <1>1, <1>2, <1>3 DEF WholeInv

\* Journals have a length, and batches room for an export.
LEMMA Sizes == WholeInv => Journal(database) \in Nat /\ MaxBatchRecords \in Nat /\ MaxBatchRecords > 0
  BY PipelineAssumption, DatabasesAssumption DEF WholeInv, PipelineTypes, Journal

\* The lengths are numbers.
LEMMA Lengths ==
    WholeInv => /\ Committed \in Nat /\ Handed \in Nat /\ Gathered \in Nat
                /\ Len(consumer.batch) \in Nat /\ Len(producer.batch) \in Nat
                /\ Committed <= Handed /\ Handed <= Gathered
<1> SUFFICES ASSUME WholeInv
             PROVE  /\ Committed \in Nat /\ Handed \in Nat /\ Gathered \in Nat
                    /\ Len(consumer.batch) \in Nat /\ Len(producer.batch) \in Nat
                    /\ Committed <= Handed /\ Handed <= Gathered
  OBVIOUS
<1>1. candidate.exports \in Seq(Nat) /\ consumer.batch \in Seq(Nat) /\ producer.batch \in Seq(Nat)
  BY DEF WholeInv, PipelineTypes
<1>2. Len(candidate.exports) \in Nat /\ Len(consumer.batch) \in Nat /\ Len(producer.batch) \in Nat
  BY <1>1
<1> DEFINE c == Len(candidate.exports)  h == Len(consumer.batch)  g == Len(producer.batch)
<1>3. c \in Nat /\ h \in Nat /\ g \in Nat
  BY <1>2
<1>4. Committed = c /\ Handed = c + h /\ Gathered = c + h + g
  BY DEF Committed, Handed, Gathered
<1> HIDE DEF c, h, g
<1>5. c + h \in Nat /\ c + h + g \in Nat /\ c <= c + h /\ c + h <= c + h + g
  BY <1>3
<1> QED BY <1>2, <1>3, <1>4, <1>5

\* A producer that leaves drops its batch and its claim to be consecutive.
LEMMA LeavingKeepsWhole ==
    ASSUME WholeInv, stage = "replaying", NEW error \in {"cancelled", "damaged"}, Leave(error),
           UNCHANGED <<database, stage, reader, consumer, cancelled, candidate, source>>
    PROVE  WholeInv'
<1>1. producer' = [at |-> "done", batch |-> << >>, error |-> error] /\ error # Clear
  BY DEF WholeInv, PipelineTypes, Leave, NoBatch, Clear
<1>2. PipelineTypes'
  <2>1. << >> \in Seq(Nat)
    BY EmptySeq
  <2> QED BY <1>1, <2>1 DEF WholeInv, PipelineTypes
<1>3. StagesInOrder'
  BY DEF WholeInv, StagesInOrder, Building, Before, Middle
<1>4. BatchesAreConsecutive'
  BY <1>1 DEF BatchesAreConsecutive
<1>5. ProducerIsNear'
  <2>1. Len(producer'.batch) = 0
    BY <1>1, EmptySeq
  <2>2. Handed' = Handed
    BY DEF Handed, Committed
  <2> QED BY <1>1, <2>1, <2>2, Sizes DEF WholeInv, ProducerIsNear
<1>6. EndsAreEnds'
  BY <1>1 DEF WholeInv, EndsAreEnds, Journal
<1>7. RestIsWhole'
  BY DEF WholeInv, RestIsWhole, Middle, Copied, Journal
<1> QED BY <1>2, <1>3, <1>4, <1>5, <1>6, <1>7 DEF WholeInv

\* A producer that goes on keeps its batch or adds the next export to it.
LEMMA GoingOnKeepsWhole ==
    ASSUME WholeInv, stage = "replaying", producer.at # "done",
           producer' \in [at : {"done", "checking", "reading", "preparing", "offering"}, batch : Seq(Nat), error : {Clear}],
           reader' \in [read : Nat, aside : Nat, open : BOOLEAN, error : {Clear, "rows", "cancelled"}],
           producer'.batch = producer.batch \/ producer'.batch = Append(producer.batch, Gathered + 1),
           Len(producer'.batch) <= MaxBatchRecords,
           reader'.aside = NoneAside => reader'.read = Handed + Len(producer'.batch),
           reader'.aside # NoneAside => reader'.aside = Handed + Len(producer'.batch) + 1 /\ reader'.read = reader'.aside,
           producer'.at = "reading" => reader'.aside = NoneAside /\ Len(producer'.batch) < MaxBatchRecords,
           producer'.at = "done" => producer'.batch = NoBatch /\ reader'.aside = NoneAside /\ ~reader'.open,
           reader'.read <= Journal(database),
           ~reader'.open /\ reader'.error = Clear => reader'.read = Journal(database),
           UNCHANGED <<database, stage, consumer, cancelled, candidate, source>>
    PROVE  WholeInv'
<1>1. Committed' = Committed /\ Handed' = Handed /\ Gathered' = Handed + Len(producer'.batch)
  BY DEF Committed, Handed, Gathered
<1>2. producer.error = Clear
  BY DEF WholeInv, ProducerIsNear
<1>3. producer.batch = Run(Handed, Gathered) /\ candidate.exports = Run(0, Committed) /\ consumer.batch = Run(Committed, Handed)
  BY <1>2 DEF WholeInv, BatchesAreConsecutive
<1>4. producer'.batch = Run(Handed, Gathered')
  <2>1. CASE producer'.batch = producer.batch
    BY <1>1, <1>3, <2>1 DEF Gathered
  <2>2. CASE producer'.batch = Append(producer.batch, Gathered + 1)
    <3>1. Handed \in Nat /\ Gathered \in Nat /\ Handed <= Gathered
      BY Lengths
    <3>2. producer'.batch = Run(Handed, Gathered + 1)
      <4>1. Append(Run(Handed, Gathered), Gathered + 1) = Run(Handed, Gathered + 1)
        BY <3>1, RunGrows, ZenonT(40)
      <4> QED BY <1>3, <2>2, <4>1
    <3>3. Len(Run(Handed, Gathered + 1)) = Gathered + 1 - Handed
      BY <3>1, RunGrows
    <3>4. Gathered' = Gathered + 1
      BY <1>1, <3>1, <3>2, <3>3
    <3> QED BY <3>2, <3>4
  <2> QED BY <2>1, <2>2
<1>5. PipelineTypes'
  BY DEF WholeInv, PipelineTypes
<1>6. StagesInOrder'
  BY DEF WholeInv, StagesInOrder, Building, Before, Middle
<1>7. BatchesAreConsecutive'
  BY <1>1, <1>3, <1>4 DEF BatchesAreConsecutive
<1>8. ProducerIsNear'
  <2>1. Len(producer'.batch) \in Nat
    OBVIOUS
  <2>2. reader'.read <= Handed + MaxBatchRecords + 1
    BY <2>1, Lengths, Sizes
  <2> QED BY <1>1, <2>2 DEF WholeInv, ProducerIsNear
<1>9. EndsAreEnds'
  BY DEF WholeInv, EndsAreEnds, Journal
<1>10. RestIsWhole'
  BY DEF WholeInv, RestIsWhole, Middle, Copied, Journal
<1> QED BY <1>5, <1>6, <1>7, <1>8, <1>9, <1>10 DEF WholeInv

\* The steps of the producer.
LEMMA ProducerKeepsWhole == WholeInv /\ ProducerStep => WholeInv'
<1> SUFFICES ASSUME WholeInv, ProducerStep PROVE WholeInv'
  OBVIOUS
<1>1. producer.at # "done" /\ UNCHANGED <<database, stage, consumer, cancelled, candidate, source>>
  BY DEF ProducerStep, CheckContext, ReadRow, RowsBreak, Prepare, StopOffering
<1>2. stage = "replaying"
  BY <1>1 DEF WholeInv, StagesInOrder
<1>3. producer.error = Clear
  BY <1>1, <1>2 DEF WholeInv, ProducerIsNear
<1>4. /\ reader \in [read : Nat, aside : Nat, open : BOOLEAN, error : {Clear, "rows", "cancelled"}]
      /\ producer \in [at : {"done", "checking", "reading", "preparing", "offering"}, batch : Seq(Nat), error : {Clear}]
  BY <1>3 DEF WholeInv, PipelineTypes
<1>5. /\ Len(producer.batch) <= MaxBatchRecords
      /\ reader.aside = NoneAside => reader.read = Handed + Len(producer.batch)
      /\ reader.aside # NoneAside => reader.aside = Handed + Len(producer.batch) + 1 /\ reader.read = reader.aside
  BY <1>2, <1>3 DEF WholeInv, ProducerIsNear, BatchesAreConsecutive, Gathered
<1>6. /\ producer.at = "reading" => reader.aside = NoneAside /\ Len(producer.batch) < MaxBatchRecords
      /\ reader.read <= Journal(database)
      /\ ~reader.open /\ reader.error = Clear => reader.read = Journal(database)
  BY <1>2 DEF WholeInv, EndsAreEnds
<1>7. ASSUME NEW error \in {"cancelled", "damaged"}, Leave(error), UNCHANGED reader PROVE WholeInv'
  BY <1>1, <1>2, <1>7, LeavingKeepsWhole
\* A step that leaves the batch alone and does not end the producer.
<1>8. ASSUME NEW at \in {"checking", "reading", "preparing", "offering"}, producer' = [producer EXCEPT !.at = at],
             at = "reading" => reader.aside = NoneAside /\ Len(producer.batch) < MaxBatchRecords, UNCHANGED reader
      PROVE  WholeInv'
  BY <1>1, <1>2, <1>4, <1>5, <1>6, <1>8, GoingOnKeepsWhole
\* The export that was set aside, or the next row, joins the batch.
<1>9. ASSUME Len(producer.batch) # MaxBatchRecords, producer.at \in {"checking", "reading"},
             producer' = [producer EXCEPT !.at = "checking", !.batch = Append(@, Gathered + 1)],
             reader' = [reader EXCEPT !.read = Gathered + 1, !.aside = NoneAside], Gathered + 1 <= Journal(database),
             ~reader.open /\ reader.error = Clear => Gathered + 1 = Journal(database)
      PROVE  WholeInv'
  <2>1. Gathered \in Nat /\ Gathered = Handed + Len(producer.batch) /\ Handed \in Nat /\ Len(producer.batch) \in Nat
    BY Lengths DEF Gathered
  <2>2. Append(producer.batch, Gathered + 1) \in Seq(Nat) /\ Len(Append(producer.batch, Gathered + 1)) = Len(producer.batch) + 1
    BY <1>4, <2>1
  <2>3. producer'.batch = Append(producer.batch, Gathered + 1) /\ producer'.at = "checking"
    BY <1>4, <1>9
  <2>4. producer' \in [at : {"done", "checking", "reading", "preparing", "offering"}, batch : Seq(Nat), error : {Clear}]
    BY <1>4, <1>9, <2>2
  <2>5. Len(producer'.batch) <= MaxBatchRecords
    BY <1>5, <1>9, <2>1, <2>2, <2>3, Sizes
  <2>6. Gathered + 1 = Handed + Len(producer'.batch)
    BY <2>1, <2>2, <2>3
  <2>7. /\ reader'.read = Gathered + 1 /\ reader'.aside = NoneAside /\ reader'.open = reader.open /\ reader'.error = reader.error
        /\ reader' \in [read : Nat, aside : Nat, open : BOOLEAN, error : {Clear, "rows", "cancelled"}]
    <3>1. Gathered + 1 \in Nat /\ NoneAside \in Nat
      BY <2>1 DEF NoneAside
    <3> QED BY <1>4, <1>9, <3>1
  <2> QED BY <1>1, <1>2, <1>9, <2>3, <2>4, <2>5, <2>6, <2>7, GoingOnKeepsWhole
\* The chunk ends at the end of the rows or at an export that is set aside.
<1>10. ASSUME producer.at = "reading", EndChunk,
              reader' \in [read : Nat, aside : Nat, open : BOOLEAN, error : {Clear, "rows", "cancelled"}],
              reader'.aside = NoneAside => reader'.read = Gathered,
              reader'.aside # NoneAside => reader'.aside = Gathered + 1 /\ reader'.read = Gathered + 1,
              producer.batch = NoBatch => reader'.aside = NoneAside /\ ~reader'.open,
              reader'.read <= Journal(database), ~reader'.open /\ reader'.error = Clear => reader'.read = Journal(database)
       PROVE  WholeInv'
  <2>1. \/ producer' = [producer EXCEPT !.at = "done"] /\ producer.batch = NoBatch
        \/ producer' = [producer EXCEPT !.at = "preparing"]
    BY <1>10 DEF EndChunk
  <2>2. /\ producer'.batch = producer.batch
        /\ producer' \in [at : {"done", "checking", "reading", "preparing", "offering"}, batch : Seq(Nat), error : {Clear}]
        /\ producer'.at # "reading"
        /\ producer'.at = "done" => producer.batch = NoBatch
    BY <1>4, <2>1
  <2> QED BY <1>1, <1>2, <1>5, <1>10, <2>2, GoingOnKeepsWhole DEF Gathered
<1>11. CASE CheckContext
  <2>1. CASE cancelled
    BY <1>7, <1>11, <2>1 DEF CheckContext
  <2>2. CASE ~cancelled /\ Len(producer.batch) = MaxBatchRecords
    <3>1. producer.batch # NoBatch
      BY <2>2, Sizes, EmptySeq DEF NoBatch
    <3>2. producer' = [producer EXCEPT !.at = "preparing"] /\ UNCHANGED reader
      BY <1>11, <2>2, <3>1 DEF CheckContext, EndChunk
    <3> QED BY <1>8, <3>2
  <2>3. CASE ~cancelled /\ Len(producer.batch) # MaxBatchRecords /\ reader.aside # NoneAside
    <3>1. /\ producer' = [producer EXCEPT !.batch = Append(@, reader.aside)]
          /\ reader' = [reader EXCEPT !.aside = NoneAside]
      BY <1>11, <2>3 DEF CheckContext
    <3>2. producer.at = "checking"
      BY <1>11 DEF CheckContext
    <3>3. reader.aside = Gathered + 1 /\ reader.read = Gathered + 1
      BY <1>5, <2>3 DEF Gathered
    <3>4. reader' = [reader EXCEPT !.read = Gathered + 1, !.aside = NoneAside]
      BY <1>4, <3>1, <3>3
    <3>5. producer' = [producer EXCEPT !.at = "checking", !.batch = Append(@, Gathered + 1)]
      BY <1>4, <3>1, <3>2, <3>3
    <3> QED BY <1>6, <1>9, <2>3, <3>2, <3>3, <3>4, <3>5
  <2>4. CASE ~cancelled /\ Len(producer.batch) # MaxBatchRecords /\ reader.aside = NoneAside
    <3>1. producer' = [producer EXCEPT !.at = "reading"] /\ UNCHANGED reader
      BY <1>11, <2>4 DEF CheckContext
    <3>2. Len(producer.batch) < MaxBatchRecords
      BY <1>5, <2>4, Lengths, Sizes
    <3> QED BY <1>8, <2>4, <3>1, <3>2
  <2> QED BY <2>1, <2>2, <2>3, <2>4
<1>12. CASE ReadRow
  <2>1. producer.at = "reading" /\ reader.aside = NoneAside /\ reader.read = Gathered
    BY <1>5, <1>6, <1>12 DEF ReadRow, Gathered
  <2>2. CASE ~reader.open \/ reader.read + 1 > Journal(database)
    <3>1. EndChunk /\ reader' = [reader EXCEPT !.open = FALSE]
      BY <1>12, <2>2 DEF ReadRow
    <3>2. reader.error = Clear => reader.read = Journal(database)
      BY <1>4, <1>6, <2>2, Sizes
    <3>3. /\ reader' \in [read : Nat, aside : Nat, open : BOOLEAN, error : {Clear, "rows", "cancelled"}]
          /\ reader'.aside = NoneAside /\ reader'.read = Gathered /\ ~reader'.open /\ reader'.error = reader.error
      BY <1>4, <2>1, <3>1
    <3> QED BY <1>6, <1>10, <2>1, <3>1, <3>2, <3>3
  <2>3. CASE reader.open /\ ~(reader.read + 1 > Journal(database)) /\ TooMuch(reader.read + 1)
    <3>1. EndChunk /\ reader' = [reader EXCEPT !.read = Gathered + 1, !.aside = Gathered + 1]
      BY <1>12, <2>1, <2>3 DEF ReadRow
    <3>2. producer.batch # NoBatch /\ Gathered + 1 <= Journal(database) /\ Gathered + 1 \in Nat /\ Gathered + 1 # NoneAside
      BY <2>1, <2>3, Lengths, Sizes DEF TooMuch, NoneAside
    <3>3. /\ reader' \in [read : Nat, aside : Nat, open : BOOLEAN, error : {Clear, "rows", "cancelled"}]
          /\ reader'.aside = Gathered + 1 /\ reader'.read = Gathered + 1 /\ reader'.open
      BY <1>4, <2>3, <3>1, <3>2
    <3> QED BY <1>10, <2>1, <3>1, <3>2, <3>3
  <2>4. CASE reader.open /\ ~(reader.read + 1 > Journal(database)) /\ ~TooMuch(reader.read + 1)
    <3>1. /\ producer' = [producer EXCEPT !.at = "checking", !.batch = Append(@, reader.read + 1)]
          /\ reader' = [reader EXCEPT !.read = reader.read + 1]
      BY <1>12, <2>4 DEF ReadRow
    <3>2. reader' = [reader EXCEPT !.read = Gathered + 1, !.aside = NoneAside]
      BY <1>4, <2>1, <3>1
    <3>3. Gathered + 1 <= Journal(database)
      BY <2>1, <2>4, Lengths, Sizes
    <3>4. Len(producer.batch) # MaxBatchRecords
      BY <1>6, <2>1, Lengths, Sizes
    <3> QED BY <1>9, <2>1, <2>4, <3>1, <3>2, <3>3, <3>4
  <2> QED BY <2>2, <2>3, <2>4
<1>13. CASE RowsBreak
  <2>1. EndChunk /\ reader' = [reader EXCEPT !.open = FALSE, !.error = "rows"] /\ producer.at = "reading"
    BY <1>13 DEF RowsBreak
  <2>2. reader.aside = NoneAside /\ reader.read = Gathered
    BY <1>5, <1>6, <2>1 DEF Gathered
  <2>3. /\ reader' \in [read : Nat, aside : Nat, open : BOOLEAN, error : {Clear, "rows", "cancelled"}]
        /\ reader'.aside = NoneAside /\ reader'.read = Gathered /\ ~reader'.open /\ reader'.error # Clear
    BY <1>4, <2>1, <2>2 DEF Clear
  <2> QED BY <1>6, <1>10, <2>1, <2>2, <2>3
<1>14. CASE Prepare
  <2>1. CASE producer' = [producer EXCEPT !.at = "offering"]
    BY <1>8, <1>14, <2>1 DEF Prepare
  <2>2. CASE Leave("damaged") \/ Leave("cancelled")
    BY <1>7, <1>14, <2>2 DEF Prepare
  <2> QED BY <1>14, <2>1, <2>2 DEF Prepare
<1>15. CASE StopOffering
  BY <1>7, <1>15 DEF StopOffering
<1> QED BY <1>11, <1>12, <1>13, <1>14, <1>15 DEF ProducerStep

\* A batch changes hands.
LEMMA HandOffKeepsWhole == WholeInv /\ HandOff => WholeInv'
<1> SUFFICES ASSUME WholeInv, HandOff PROVE WholeInv'
  OBVIOUS
<1>1. stage = "replaying" /\ UNCHANGED <<database, stage, reader, cancelled, candidate, source>>
  BY DEF WholeInv, StagesInOrder, HandOff
<1>2. producer.error = Clear /\ consumer.error = Clear /\ consumer.batch = << >>
  BY <1>1 DEF WholeInv, ProducerIsNear, EndsAreEnds, HandOff, NoBatch
<1>3. /\ consumer' = [at |-> "received", batch |-> producer.batch, error |-> Clear]
      /\ producer' = [at |-> "checking", batch |-> << >>, error |-> Clear]
  BY <1>2 DEF WholeInv, PipelineTypes, HandOff, NoBatch
<1>4. Handed = Committed /\ Committed' = Committed /\ Handed' = Gathered /\ Gathered' = Gathered
  <2>1. Len(<< >>) = 0
    BY EmptySeq
  <2>2. Committed \in Nat /\ Gathered \in Nat /\ Handed = Committed
    BY <1>2, <2>1, Lengths DEF Handed
  <2>3. Committed' = Committed
    BY <1>1 DEF Committed
  <2>4. Handed' = Gathered
    BY <1>3, <2>2, <2>3 DEF Handed, Gathered
  <2>5. Gathered' = Handed' + 0
    BY <1>3, <2>1 DEF Gathered
  <2> QED BY <2>2, <2>3, <2>4, <2>5
<1>5. PipelineTypes'
  BY <1>1, <1>3, EmptySeq DEF WholeInv, PipelineTypes
<1>6. StagesInOrder'
  BY <1>1 DEF WholeInv, StagesInOrder, Building, Before, Middle
<1>7. BatchesAreConsecutive'
  <2>1. Run(Gathered, Gathered) = << >>
    BY Lengths, RunIsEmpty
  <2> QED BY <1>1, <1>2, <1>3, <1>4, <2>1 DEF WholeInv, BatchesAreConsecutive
<1>8. ProducerIsNear'
  <2>1. Len(producer'.batch) = 0
    BY <1>3, EmptySeq
  <2>2. reader.read <= Handed + MaxBatchRecords + 1 /\ Len(producer.batch) <= MaxBatchRecords
    BY <1>1 DEF WholeInv, ProducerIsNear
  <2>3. reader.read <= Gathered + MaxBatchRecords + 1
    <3>1. reader.read \in Nat
      BY DEF WholeInv, PipelineTypes
    <3> QED BY <2>2, <3>1, Lengths, Sizes
  <2> QED BY <1>1, <1>3, <1>4, <2>1, <2>2, <2>3, Sizes DEF ProducerIsNear
<1>9. EndsAreEnds'
  BY <1>1, <1>3 DEF WholeInv, EndsAreEnds, Journal
<1>10. RestIsWhole'
  BY <1>1 DEF WholeInv, RestIsWhole, Middle, Copied, Journal
<1> QED BY <1>5, <1>6, <1>7, <1>8, <1>9, <1>10 DEF WholeInv

\* A batch is committed whole.
LEMMA CommitKeepsWhole == WholeInv /\ CommitReplayBatch => WholeInv'
<1> SUFFICES ASSUME WholeInv, CommitReplayBatch PROVE WholeInv'
  OBVIOUS
<1>1. stage = "replaying" /\ UNCHANGED <<database, stage, reader, producer, cancelled, source>>
  BY DEF WholeInv, StagesInOrder, CommitReplayBatch
<1>2. consumer.error = Clear /\ candidate.expected = candidate.exports
  BY <1>1 DEF WholeInv, EndsAreEnds, RestIsWhole, CommitReplayBatch
<1>3. /\ candidate.exports \in Seq(Nat) /\ consumer.batch \in Seq(Nat) /\ candidate.exists
      /\ candidate.retained \in Seq(STRING) /\ candidate.generation \in BOOLEAN
  BY <1>1 DEF WholeInv, PipelineTypes, StagesInOrder, Building
<1> DEFINE more == candidate.exports \o consumer.batch
<1>4. more \in Seq(Nat) /\ Len(more) = Handed
  BY <1>3, ConcatProperties DEF Handed, Committed
<1>5. /\ candidate' = [candidate EXCEPT !.expected = more, !.exports = more]
      /\ consumer' = [at |-> "receiving", batch |-> << >>, error |-> Clear]
  <2>1. /\ candidate' = [[candidate EXCEPT !.expected = @ \o consumer.batch] EXCEPT !.exports = @ \o consumer.batch]
        /\ consumer' = [consumer EXCEPT !.at = "receiving", !.batch = << >>]
    BY DEF CommitReplayBatch, Expecting, NoBatch
  <2> QED BY <1>2, <2>1 DEF WholeInv, PipelineTypes
<1> HIDE DEF more
<1>6. /\ candidate'.exports = more /\ candidate'.expected = more /\ candidate'.exists
      /\ candidate' \in [exports : Seq(Nat), expected : Seq(Nat), retained : Seq(STRING), exists : BOOLEAN, generation : BOOLEAN]
  BY <1>3, <1>4, <1>5 DEF WholeInv, PipelineTypes
<1>7. Committed' = Handed /\ Handed' = Handed /\ Gathered' = Gathered
  <2>1. Committed' = Handed
    BY <1>4, <1>6 DEF Committed
  <2>2. Handed' = Handed + 0
    BY <1>5, <2>1, EmptySeq DEF Handed
  <2>3. Handed' = Handed
    BY <2>2, Lengths
  <2> QED BY <1>1, <2>1, <2>3 DEF Gathered
<1>8. PipelineTypes'
  BY <1>1, <1>5, <1>6, EmptySeq DEF WholeInv, PipelineTypes
<1>9. StagesInOrder'
  BY <1>1, <1>6 DEF WholeInv, StagesInOrder, Building, Before, Middle
<1>10. BatchesAreConsecutive'
  <2> SUFFICES ASSUME producer.error = Clear PROVE BatchesAreConsecutive'
    BY <1>1 DEF BatchesAreConsecutive
  <2>1. candidate.exports = Run(0, Committed) /\ consumer.batch = Run(Committed, Handed)
    BY <1>1 DEF WholeInv, BatchesAreConsecutive
  <2>2. Run(0, Committed) \o Run(Committed, Handed) = Run(0, Handed)
    <3>1. 0 \in Nat /\ Committed \in Nat /\ Handed \in Nat /\ 0 <= Committed /\ Committed <= Handed
      BY Lengths
    <3> QED BY <3>1, RunsJoin
  <2>3. more = Run(0, Handed)
    BY <2>1, <2>2 DEF more
  <2>4. Run(Handed, Handed) = << >>
    BY Lengths, RunIsEmpty
  <2> QED BY <1>1, <1>5, <1>6, <1>7, <2>3, <2>4 DEF WholeInv, BatchesAreConsecutive
<1>11. ProducerIsNear'
  <2>1. Len(consumer'.batch) = 0
    BY <1>5, EmptySeq
  <2> QED BY <1>1, <1>7, <2>1, Sizes DEF WholeInv, ProducerIsNear
<1>12. EndsAreEnds'
  BY <1>1, <1>5 DEF WholeInv, EndsAreEnds, Journal, NoBatch
<1>13. RestIsWhole'
  BY <1>1, <1>6 DEF WholeInv, RestIsWhole, Middle, Copied, Journal
<1> QED BY <1>8, <1>9, <1>10, <1>11, <1>12, <1>13 DEF WholeInv

\* The consumer waits, gives up, or ends the producer.
LEMMA WaitingKeepsWhole == WholeInv /\ (StopReceiving \/ CommitFails \/ CancelProducer) => WholeInv'
<1> SUFFICES ASSUME WholeInv, StopReceiving \/ CommitFails \/ CancelProducer PROVE WholeInv'
  OBVIOUS
<1>1. /\ consumer.at \in {"receiving", "received", "cancelling"}
      /\ UNCHANGED <<database, stage, reader, producer, candidate, source>>
  BY DEF StopReceiving, CommitFails, CancelProducer
<1>2. stage = "replaying"
  BY <1>1 DEF WholeInv, StagesInOrder
<1>3. /\ consumer' \in [at : {"cancelling", "joining"}, batch : Seq(Nat), error : {Clear, "cancelled", "write"}]
      /\ consumer'.batch = consumer.batch
      /\ consumer'.at = "cancelling" => consumer'.error # Clear
      /\ consumer'.at = "joining" /\ consumer'.error = Clear => producer.at = "done" /\ consumer.batch = NoBatch
  <2>1. consumer.at = "cancelling" => consumer.error # Clear
    BY <1>2 DEF WholeInv, EndsAreEnds
  <2>2. consumer.at = "receiving" /\ consumer.error = Clear => consumer.batch = NoBatch
    BY <1>2 DEF WholeInv, EndsAreEnds
  <2>3. \/ consumer' = [consumer EXCEPT !.at = "joining"] /\ consumer.at = "receiving" /\ producer.at = "done"
        \/ consumer' = [consumer EXCEPT !.at = "joining"] /\ consumer.at = "cancelling"
        \/ \E error \in {"cancelled", "write"} : consumer' = [consumer EXCEPT !.at = "cancelling", !.error = error]
    BY DEF StopReceiving, CommitFails, CancelProducer, GiveUp
  <2> QED BY <2>1, <2>2, <2>3 DEF WholeInv, PipelineTypes, Clear
<1>4. Committed' = Committed /\ Handed' = Handed /\ Gathered' = Gathered
  BY <1>1, <1>3 DEF Committed, Handed, Gathered
<1>5. PipelineTypes'
  BY <1>1, <1>3 DEF WholeInv, PipelineTypes
<1>6. StagesInOrder'
  BY <1>1, <1>2 DEF WholeInv, StagesInOrder, Building, Before, Middle
<1>7. BatchesAreConsecutive' /\ ProducerIsNear'
  BY <1>1, <1>3, <1>4 DEF WholeInv, BatchesAreConsecutive, ProducerIsNear
<1>8. EndsAreEnds'
  BY <1>1, <1>3 DEF WholeInv, EndsAreEnds, Journal
<1>9. RestIsWhole'
  BY <1>1, <1>2 DEF WholeInv, RestIsWhole, Middle, Copied, Journal
<1> QED BY <1>5, <1>6, <1>7, <1>8, <1>9 DEF WholeInv

\* A build that fails leaves nothing, once both goroutines are done.
LEMMA FailingKeepsWhole ==
    ASSUME WholeInv, FailBuild, UNCHANGED <<database, producer>>, producer.at = "done",
           consumer' \in [at : {"done"}, batch : Seq(Nat), error : {Clear, "cancelled", "write"}]
    PROVE  WholeInv'
<1>1. /\ stage' = "failed" /\ candidate' = NoCandidate /\ source' = "closed"
      /\ reader' = [reader EXCEPT !.open = FALSE]
  BY DEF FailBuild
<1>2. PipelineTypes'
  <2>1. NoCandidate \in [exports : Seq(Nat), expected : Seq(Nat), retained : Seq(STRING), exists : BOOLEAN, generation : BOOLEAN]
    BY EmptySeq DEF NoCandidate
  <2>2. reader' \in [read : Nat, aside : Nat, open : BOOLEAN, error : {Clear, "rows", "cancelled"}]
    BY <1>1 DEF WholeInv, PipelineTypes
  <2> QED BY <1>1, <2>1, <2>2 DEF WholeInv, PipelineTypes, Building, Before
<1>3. StagesInOrder'
  BY <1>1 DEF WholeInv, PipelineTypes, StagesInOrder, Building, Before, Middle
<1>4. BatchesAreConsecutive' /\ ProducerIsNear' /\ EndsAreEnds'
  BY <1>1 DEF BatchesAreConsecutive, ProducerIsNear, EndsAreEnds
<1>5. RestIsWhole'
  BY <1>1 DEF RestIsWhole, NoCandidate, Middle, Copied
<1> QED BY <1>2, <1>3, <1>4, <1>5 DEF WholeInv

\* The consumer waited for the producer.
LEMMA JoinKeepsWhole == WholeInv /\ JoinProducer => WholeInv'
<1> SUFFICES ASSUME WholeInv, JoinProducer PROVE WholeInv'
  OBVIOUS
<1>1. /\ stage = "replaying" /\ producer.at = "done" /\ consumer.at = "joining"
      /\ UNCHANGED <<database, producer, cancelled, broken>>
  BY DEF WholeInv, StagesInOrder, JoinProducer
<1>2. consumer' \in [at : {"done"}, batch : Seq(Nat), error : {Clear, "cancelled", "write"}]
  BY EmptySeq DEF WholeInv, PipelineTypes, JoinProducer, NoBatch
<1>3. CASE consumer.error # Clear \/ producer.error # Clear
  <2>1. FailBuild
    BY <1>3 DEF JoinProducer
  <2> QED BY <1>1, <1>2, <2>1, FailingKeepsWhole
<1>4. CASE consumer.error = Clear /\ producer.error = Clear
  <2>1. stage' = "closing" /\ UNCHANGED <<reader, candidate, source>>
    BY <1>4 DEF JoinProducer
  <2>2. /\ producer.batch = << >> /\ consumer.batch = << >> /\ reader.aside = NoneAside /\ ~reader.open
        /\ reader.error = Clear => reader.read = Journal(database)
    BY <1>1, <1>4 DEF WholeInv, EndsAreEnds, NoBatch
  <2>3. reader.read = Committed
    <3>1. reader.read = Gathered
      BY <1>1, <1>4, <2>2 DEF WholeInv, BatchesAreConsecutive
    <3>2. Len(<< >>) = 0
      BY EmptySeq
    <3>3. Gathered = Handed + 0 /\ Handed = Committed + 0
      BY <2>2, <3>2 DEF Gathered, Handed
    <3> QED BY <3>1, <3>3, Lengths
  <2>4. candidate.exports = Run(0, reader.read)
    BY <1>1, <1>4, <2>3 DEF WholeInv, BatchesAreConsecutive
  <2>5. PipelineTypes'
    BY <1>1, <1>2, <2>1 DEF WholeInv, PipelineTypes, Building, Middle
  <2>6. StagesInOrder'
    BY <1>1, <1>2, <2>1, <2>2 DEF WholeInv, StagesInOrder, Building, Before, Middle
  <2>7. BatchesAreConsecutive' /\ ProducerIsNear' /\ EndsAreEnds'
    BY <2>1 DEF BatchesAreConsecutive, ProducerIsNear, EndsAreEnds
  <2>8. RestIsWhole'
    BY <1>1, <2>1, <2>2, <2>4 DEF WholeInv, RestIsWhole, Middle, Copied, Journal, Run
  <2> QED BY <2>5, <2>6, <2>7, <2>8 DEF WholeInv
<1> QED BY <1>3, <1>4

\* The contexts of the build and of its rows end.
LEMMA CancellingKeepsWhole == WholeInv /\ (CancelBuild \/ RowsCancelled) => WholeInv'
<1> SUFFICES ASSUME WholeInv, CancelBuild \/ RowsCancelled PROVE WholeInv'
  OBVIOUS
<1>1. stage = "replaying" /\ UNCHANGED <<database, stage, producer, consumer, candidate, source>>
  BY DEF WholeInv, StagesInOrder, CancelBuild, RowsCancelled
<1>2. Committed' = Committed /\ Handed' = Handed /\ Gathered' = Gathered
  BY <1>1 DEF Committed, Handed, Gathered
<1>3. /\ reader' \in [read : Nat, aside : Nat, open : BOOLEAN, error : {Clear, "rows", "cancelled"}]
      /\ reader'.read = reader.read /\ reader'.aside = reader.aside
      /\ reader' = reader \/ (~reader'.open /\ reader'.error # Clear)
  <2>1. reader' = reader \/ reader' = [reader EXCEPT !.open = FALSE, !.error = "cancelled"]
    BY DEF CancelBuild, RowsCancelled
  <2>2. reader \in [read : Nat, aside : Nat, open : BOOLEAN, error : {Clear, "rows", "cancelled"}]
    BY DEF WholeInv, PipelineTypes
  <2>3. CASE reader' = reader
    BY <2>2, <2>3
  <2>4. CASE reader' = [reader EXCEPT !.open = FALSE, !.error = "cancelled"]
    BY <2>2, <2>4 DEF Clear
  <2> QED BY <2>1, <2>3, <2>4
<1>4. PipelineTypes'
  BY <1>1, <1>3 DEF WholeInv, PipelineTypes
<1>5. StagesInOrder'
  BY <1>1 DEF WholeInv, StagesInOrder, Building, Before, Middle
<1>6. BatchesAreConsecutive' /\ ProducerIsNear'
  BY <1>1, <1>2, <1>3 DEF WholeInv, BatchesAreConsecutive, ProducerIsNear
<1>7. EndsAreEnds'
  BY <1>1, <1>3 DEF WholeInv, EndsAreEnds, Journal
<1>8. RestIsWhole'
  BY <1>1 DEF WholeInv, RestIsWhole, Middle, Copied, Journal
<1> QED BY <1>4, <1>5, <1>6, <1>7, <1>8 DEF WholeInv

\* A decision, and the opening of the build.
LEMMA BeginningKeepsWhole == WholeInv /\ (Decide \/ OpenBuild) => WholeInv'
<1> SUFFICES ASSUME WholeInv, Decide \/ OpenBuild PROVE WholeInv'
  OBVIOUS
<1>1. /\ stage \in Before /\ candidate = NoCandidate /\ source = "closed" /\ UNCHANGED <<database, broken>>
      /\ reader = [read |-> 0, aside |-> NoneAside, open |-> FALSE, error |-> Clear]
      /\ producer = [at |-> "done", batch |-> NoBatch, error |-> Clear]
      /\ consumer = [at |-> "done", batch |-> NoBatch, error |-> Clear]
  BY DEF WholeInv, StagesInOrder, Before, Middle, Building, Decide, OpenBuild
<1>2. CASE Decide
  <2>1. stage' \in {"opening", "skipped", "refused"} /\ UNCHANGED <<reader, producer, consumer, candidate, source>>
    BY <1>2 DEF Decide, Decision
  <2>2. PipelineTypes'
    BY <1>1, <2>1 DEF WholeInv, PipelineTypes, Before
  <2>3. StagesInOrder'
    BY <1>1, <2>1 DEF WholeInv, StagesInOrder, Building, Before, Middle
  <2>4. BatchesAreConsecutive' /\ ProducerIsNear' /\ EndsAreEnds'
    BY <2>1 DEF BatchesAreConsecutive, ProducerIsNear, EndsAreEnds
  <2>5. RestIsWhole'
    BY <2>1 DEF WholeInv, RestIsWhole, Middle, Copied
  <2> QED BY <2>2, <2>3, <2>4, <2>5 DEF WholeInv
<1>3. CASE OpenBuild
  <2>1. /\ stage' = "replaying"
        /\ reader' = [read |-> 0, aside |-> NoneAside, open |-> TRUE, error |-> Clear]
        /\ candidate' = [exports |-> << >>, expected |-> << >>, retained |-> << >>, exists |-> TRUE, generation |-> FALSE]
        /\ producer' = [at |-> "checking", batch |-> << >>, error |-> Clear]
        /\ consumer' = [at |-> "receiving", batch |-> << >>, error |-> Clear]
    BY <1>1, <1>3 DEF OpenBuild, NoCandidate, NoBatch
  <2>2. PipelineTypes'
    BY <1>1, <2>1, EmptySeq DEF WholeInv, PipelineTypes, Building, NoneAside
  <2>3. StagesInOrder'
    BY <2>1 DEF StagesInOrder, Building, Before, Middle
  <2>4. Committed' = 0 /\ Handed' = 0 /\ Gathered' = 0 /\ Len(<< >>) = 0 /\ Run(0, 0) = << >>
    <3>1. Len(<< >>) = 0
      BY EmptySeq
    <3>2. Committed' = 0
      BY <2>1, <3>1 DEF Committed
    <3>3. Handed' = 0
      BY <2>1, <3>1, <3>2 DEF Handed
    <3>4. Gathered' = 0
      BY <2>1, <3>1, <3>3 DEF Gathered
    <3> QED BY <3>1, <3>2, <3>3, <3>4, RunIsEmpty
  <2>5. BatchesAreConsecutive'
    BY <2>1, <2>4 DEF BatchesAreConsecutive
  <2>6. ProducerIsNear'
    BY <1>1, <2>1, <2>4, Sizes DEF ProducerIsNear
  <2>7. EndsAreEnds'
    BY <1>1, <2>1, Sizes DEF EndsAreEnds, Journal, NoBatch
  <2>8. RestIsWhole'
    BY <2>1 DEF RestIsWhole, Middle, Copied
  <2> QED BY <2>2, <2>3, <2>5, <2>6, <2>7, <2>8 DEF WholeInv
<1> QED BY <1>2, <1>3

\* A step after the replay that does not touch what was replayed.
LEMMA MovingKeepsWhole ==
    ASSUME WholeInv, stage \in Middle, stage' \in Middle \cup {"built"}, reader.error = Clear,
           reader' = reader \/ reader' = [reader EXCEPT !.open = FALSE],
           candidate' \in [exports : Seq(Nat), expected : Seq(Nat), retained : Seq(STRING), exists : {TRUE}, generation : BOOLEAN],
           candidate'.exports = candidate.exports, candidate'.expected = candidate.expected,
           stage' \in Copied => candidate'.retained = database.retained,
           stage' \in {"recording", "validating", "built"} => source' = "closed",
           UNCHANGED <<database, producer, consumer>>
    PROVE  WholeInv'
<1>1. producer.at = "done" /\ consumer.at = "done" /\ ~reader.open
  BY DEF WholeInv, StagesInOrder, Middle
<1>2. /\ reader' \in [read : Nat, aside : Nat, open : {FALSE}, error : {Clear}]
      /\ reader'.read = reader.read
  BY <1>1 DEF WholeInv, PipelineTypes
<1>3. PipelineTypes'
  BY <1>2 DEF WholeInv, PipelineTypes, Building, Middle
<1>4. StagesInOrder'
  BY <1>1, <1>2 DEF WholeInv, StagesInOrder, Building, Before, Middle
<1>5. BatchesAreConsecutive' /\ ProducerIsNear' /\ EndsAreEnds'
  BY DEF BatchesAreConsecutive, ProducerIsNear, EndsAreEnds, Middle
<1>6. RestIsWhole'
  BY <1>2 DEF WholeInv, RestIsWhole, Middle, Copied, Journal, Run
<1> QED BY <1>3, <1>4, <1>5, <1>6 DEF WholeInv

\* The completion of a candidate, when the reads of the catalog report their errors.
LEMMA CompletionKeepsWhole ==
    ASSUME ~CatalogReadsFail, WholeInv,
           \/ CloseReader \/ FinalizeReplay \/ ReleaseSource \/ FinalizeCandidate \/ ValidateCandidate
           \/ StepFails \/ \E rows \in 0 .. Len(database.retained) : CopyRetentionCatalog(rows)
    PROVE  WholeInv'
<1>1. UNCHANGED <<database, producer, consumer>> /\ stage \in Middle \cup {"opening"}
  BY DEF CloseReader, FinalizeReplay, ReleaseSource, FinalizeCandidate, ValidateCandidate, StepFails, CopyRetentionCatalog, Middle
<1>2. producer.at = "done" /\ consumer.at = "done"
  BY <1>1 DEF WholeInv, StagesInOrder, Middle
<1>3. consumer' \in [at : {"done"}, batch : Seq(Nat), error : {Clear, "cancelled", "write"}]
  BY <1>1, <1>2 DEF WholeInv, PipelineTypes
<1>4. CASE FailBuild
  BY <1>1, <1>2, <1>3, <1>4, FailingKeepsWhole
<1>5. CASE ~FailBuild
  <2>1. ~StepFails
    BY <1>5 DEF StepFails
  <2>2. stage \in Middle /\ candidate.exists /\ reader.error = Clear
    BY <1>1, <1>5, <2>1 DEF WholeInv, StagesInOrder, RestIsWhole, Middle, Building, CloseReader, FinalizeReplay, ReleaseSource,
        FinalizeCandidate, ValidateCandidate, CopyRetentionCatalog
  <2>3. candidate \in [exports : Seq(Nat), expected : Seq(Nat), retained : Seq(STRING), exists : {TRUE}, generation : BOOLEAN]
    BY <2>2 DEF WholeInv, PipelineTypes
  <2>4. CASE CloseReader \/ FinalizeReplay
    <3>1. stage' \in {"projecting", "copying"} /\ UNCHANGED candidate /\ (reader' = reader \/ reader' = [reader EXCEPT !.open = FALSE])
      BY <1>5, <2>4 DEF CloseReader, FinalizeReplay
    <3> QED BY <1>1, <2>2, <2>3, <3>1, MovingKeepsWhole DEF Middle, Copied
  <2>5. CASE ReleaseSource
    <3>1. stage' = "recording" /\ source' = "closed" /\ stage = "releasing" /\ UNCHANGED <<candidate, reader>>
      BY <2>5 DEF ReleaseSource
    <3>2. candidate.retained = database.retained
      BY <3>1 DEF WholeInv, RestIsWhole, Copied
    <3> QED BY <1>1, <2>2, <2>3, <3>1, <3>2, MovingKeepsWhole DEF Middle
  <2>6. CASE FinalizeCandidate \/ ValidateCandidate
    <3>1. /\ stage \in {"recording", "validating"} /\ stage' \in {"validating", "built"} /\ UNCHANGED <<source, reader>>
          /\ candidate' = candidate \/ candidate' = [candidate EXCEPT !.generation = TRUE]
      BY <1>5, <2>6 DEF FinalizeCandidate, ValidateCandidate
    <3>2. candidate.retained = database.retained /\ source = "closed"
      BY <3>1 DEF WholeInv, RestIsWhole, StagesInOrder, Copied
    <3>3. /\ candidate' \in [exports : Seq(Nat), expected : Seq(Nat), retained : Seq(STRING), exists : {TRUE}, generation : BOOLEAN]
          /\ candidate'.exports = candidate.exports /\ candidate'.expected = candidate.expected
          /\ candidate'.retained = candidate.retained
      BY <2>3, <3>1
    <3> QED BY <1>1, <2>2, <3>1, <3>2, <3>3, MovingKeepsWhole DEF Middle
  <2>7. ASSUME NEW rows \in 0 .. Len(database.retained), CopyRetentionCatalog(rows) PROVE WholeInv'
    <3>1. database.retained \in Seq(STRING)
      BY DatabasesAssumption DEF WholeInv, PipelineTypes
    <3>2. rows = Len(database.retained)
      BY <2>7, <3>1 DEF CopyRetentionCatalog
    <3>3. SubSeq(database.retained, 1, rows) = database.retained
      BY <3>1, <3>2
    <3>4. stage = "copying" /\ stage' = "releasing" /\ UNCHANGED <<reader, source>>
          /\ candidate' = [candidate EXCEPT !.retained = database.retained]
      BY <1>5, <2>7, <3>3 DEF CopyRetentionCatalog
    <3>5. /\ candidate' \in [exports : Seq(Nat), expected : Seq(Nat), retained : Seq(STRING), exists : {TRUE}, generation : BOOLEAN]
          /\ candidate'.exports = candidate.exports /\ candidate'.expected = candidate.expected
          /\ candidate'.retained = database.retained
      BY <2>3, <3>1, <3>4
    <3> QED BY <1>1, <2>2, <3>4, <3>5, MovingKeepsWhole DEF Middle
  <2> QED BY <2>1, <2>4, <2>5, <2>6, <2>7
<1> QED BY <1>4, <1>5

\* A step that changes nothing.
LEMMA StutterKeepsWhole == WholeInv /\ UNCHANGED pipelineVars => WholeInv'
<1> SUFFICES ASSUME WholeInv, UNCHANGED pipelineVars PROVE WholeInv'
  OBVIOUS
<1> USE DEF WholeInv, pipelineVars
<1>1. PipelineTypes' /\ StagesInOrder'
  BY DEF PipelineTypes, StagesInOrder
<1>2. BatchesAreConsecutive' /\ ProducerIsNear'
  BY DEF BatchesAreConsecutive, ProducerIsNear, Gathered, Handed, Committed
<1>3. EndsAreEnds' /\ RestIsWhole'
  BY DEF EndsAreEnds, RestIsWhole, Journal
<1> QED BY <1>1, <1>2, <1>3

\* What the invariant says of a build that was handed on, and of the batches in flight.
LEMMA WholeSuffices == WholeInv => BuiltIsWhole
<1> SUFFICES ASSUME WholeInv PROVE BuiltIsWhole
  OBVIOUS
<1>1. stage = "built" => /\ candidate.exports = [n \in 1 .. Journal(database) |-> n]
                        /\ candidate.retained = database.retained
  <2> SUFFICES ASSUME stage = "built" PROVE /\ candidate.exports = [n \in 1 .. Journal(database) |-> n]
                                            /\ candidate.retained = database.retained
    OBVIOUS
  <2>1. candidate.exports = Run(0, Journal(database)) /\ candidate.retained = database.retained
    BY DEF WholeInv, RestIsWhole, Copied
  <2>2. Run(0, Journal(database)) = [n \in 1 .. Journal(database) |-> n]
    BY Sizes DEF Run
  <2> QED BY <2>1, <2>2
<1>2. candidate.exists => reader.read - Len(candidate.exports) <= 2 * MaxBatchRecords + 1
  <2> SUFFICES ASSUME candidate.exists PROVE reader.read - Committed <= 2 * MaxBatchRecords + 1
    BY DEF Committed
  <2>1. stage \in Building
    BY DEF WholeInv, StagesInOrder, NoCandidate
  <2>2. reader.read \in Nat /\ MaxBatchRecords \in Nat /\ Committed \in Nat
    BY Sizes, Lengths DEF WholeInv, PipelineTypes
  <2>3. CASE stage = "replaying"
    <3>1. reader.read <= Committed + Len(consumer.batch) + MaxBatchRecords + 1 /\ Len(consumer.batch) <= MaxBatchRecords
      BY <2>3 DEF WholeInv, ProducerIsNear, Handed
    <3> QED BY <2>2, <3>1, Lengths
  <2>4. CASE stage # "replaying"
    <3>1. candidate.exports = Run(0, reader.read)
      BY <2>1, <2>4 DEF WholeInv, RestIsWhole, Building
    <3>2. Committed = reader.read
      <4>1. \A n \in Nat : Len(Run(0, n)) = n
        <5> TAKE n \in Nat
        <5>1. 0 \in Nat /\ 0 <= n
          OBVIOUS
        <5>2. Len(Run(0, n)) = n - 0
          BY <5>1, RunGrows
        <5> QED BY <5>2
      <4>2. Len(candidate.exports) = reader.read
        BY <2>2, <3>1, <4>1
      <4> QED BY <4>2 DEF Committed
    <3> QED BY <2>2, <3>2
  <2> QED BY <2>3, <2>4
<1>3. stage \in Ends => /\ producer.at = "done" /\ consumer.at = "done"
                        /\ source = "closed" /\ ~reader.open
                        /\ candidate.exists <=> stage = "built"
  BY DEF WholeInv, StagesInOrder, Ends, Building, Middle, NoCandidate
<1> QED BY <1>1, <1>2, <1>3 DEF BuiltIsWhole

\* A build is whole or nothing, for any journal, batches and failures, as long
\* as the reads of the catalog report their errors (buildCandidate, commitPreparedBatches).
THEOREM RebuildIsWhole ==
    ASSUME ~CatalogReadsFail
    PROVE  PipelineSpec => []BuiltIsWhole
<1>1. WholeInv /\ [PipelineNext]_pipelineVars => WholeInv'
  <2> SUFFICES ASSUME WholeInv, PipelineNext PROVE WholeInv'
    BY StutterKeepsWhole
  <2>1. CASE ProducerStep
    BY <2>1, ProducerKeepsWhole
  <2>2. CASE ConsumerStep
    BY <2>2, HandOffKeepsWhole, CommitKeepsWhole, WaitingKeepsWhole, JoinKeepsWhole DEF ConsumerStep
  <2>3. CASE BuildStep
    <3>1. CASE Decide \/ OpenBuild
      BY <3>1, BeginningKeepsWhole
    <3>2. CASE ~(Decide \/ OpenBuild)
      BY <2>3, <3>2, CompletionKeepsWhole DEF BuildStep
    <3> QED BY <3>1, <3>2
  <2>4. CASE CancelBuild \/ RowsCancelled
    BY <2>4, CancellingKeepsWhole
  <2>5. CASE StepFails
    BY <2>5, CompletionKeepsWhole
  <2> QED BY <2>1, <2>2, <2>3, <2>4, <2>5 DEF PipelineNext
<1> QED BY <1>1, WholeAtFirst, WholeSuffices, PTL DEF PipelineSpec

-----------------------------------------------------------------------------
(* The shutdown *)

EarlyPhases == {"migrating", "migration failed", "opening", "listening", "serving"}
LatePhases == {"stopping", "collecting", "unwinding", "exited"}
OwnerStates == {"idle", "waiting", "cancelling", "ending scheduler", "draining", "returned"}

ServingTypes ==
    /\ phase \in EarlyPhases \cup LatePhases
    /\ call = [c \in Calls |-> call[c]]
    /\ owners \in [Owners -> OwnerStates]
    /\ clean \in BOOLEAN /\ expired \in BOOLEAN

\* Before the stops begin nothing of them happened; once they began no server listens.
StopsInOrder ==
    /\ phase \in EarlyPhases =>
          /\ \A o \in Owners : owners[o] = "idle"
          /\ torn = {} /\ ~expired /\ forced = "no"
    /\ phase \in LatePhases => listening = {}
    /\ phase = "migration failed" => ~clean

\* Connections are closed at the deadline, or by a failure.
TearingIsTold ==
    /\ forced # "no" => expired
    /\ torn # {} => expired \/ ~clean

\* As long as nothing went wrong, an owner that returned left nothing behind.
ServersAreIdle ==
    clean /\ ~expired =>
        \A server \in Servers : owners[server] = "returned" => \A c \in Calls : ServerOf(c) = server => ~AtWork(c)
ServicesAreOver ==
    clean /\ ~expired /\ owners["services"] \in {"draining", "returned"} =>
        /\ scheduler = "ended" /\ restoring # "running"
        /\ committer \in {"closed", "drained"}
        /\ owners["services"] = "returned" => committer = "drained"

\* The way out: every owner returned, no deadline passed, the store closed last.
ExitIsEarned ==
    /\ phase = "collecting" => AllReturned
    /\ phase \in {"unwinding", "exited"} /\ clean => ~expired /\ AllReturned
    /\ phase = "exited" /\ clean => store = "closed"

QuietInv ==
    /\ ServingTypes /\ StopsInOrder /\ TearingIsTold
    /\ ServersAreIdle /\ ServicesAreOver /\ ExitIsEarned

-----------------------------------------------------------------------------

\* It holds at first: nothing has begun.
LEMMA QuietAtFirst == ServingInit => QuietInv
  BY DEF ServingInit, QuietInv, ServingTypes, StopsInOrder, TearingIsTold, ServersAreIdle, ServicesAreOver,
         ExitIsEarned, EarlyPhases, LatePhases, OwnerStates, Owners, Servers

\* What the invariant says of the exit.
LEMMA QuietSuffices == QuietInv => CleanExitIsQuiet
<1> SUFFICES ASSUME QuietInv, phase = "exited", clean PROVE CleanExitIsQuiet
  BY DEF CleanExitIsQuiet
<1>1. ~expired /\ AllReturned /\ store = "closed"
  BY DEF QuietInv, ExitIsEarned
<1>2. \A c \in Calls : ~AtWork(c)
  <2>1. \A c \in Calls : ServerOf(c) \in Servers
    BY DEF ServerOf, Servers
  <2> QED BY <1>1, <2>1 DEF QuietInv, ServersAreIdle, AllReturned, Owners
<1>3. scheduler = "ended" /\ committer = "drained" /\ restoring # "running"
  BY <1>1 DEF QuietInv, ServicesAreOver, AllReturned, Owners
<1>4. torn = {}
  BY <1>1 DEF QuietInv, TearingIsTold
<1> QED BY <1>1, <1>2, <1>3, <1>4 DEF CleanExitIsQuiet

\* The steps of the start: the stops have not begun, or begin uncleanly.
LEMMA StartKeepsQuiet ==
    QuietInv /\ (Signal \/ Migrated \/ MigrationFails \/ LeaveFailedMigration \/ OpenStore \/ OpenFails
                 \/ Listen \/ ListenFails \/ StopServing) => QuietInv'
<1> SUFFICES ASSUME QuietInv,
                    Signal \/ Migrated \/ MigrationFails \/ LeaveFailedMigration \/ OpenStore \/ OpenFails
                    \/ Listen \/ ListenFails \/ StopServing
             PROVE QuietInv'
  OBVIOUS
<1> USE DEF stopVars, workVars, EarlyPhases, LatePhases
<1>1. phase \in EarlyPhases /\ (\A o \in Owners : owners[o] = "idle") /\ torn = {} /\ ~expired /\ forced = "no"
  BY DEF QuietInv, StopsInOrder, Signal, Migrated, MigrationFails, LeaveFailedMigration, OpenStore, OpenFails, Listen,
         ListenFails, StopServing
<1>2. call' = call /\ expired' = expired /\ forced' = forced /\ clean' \in BOOLEAN
  BY DEF QuietInv, ServingTypes, Signal, Migrated, MigrationFails, LeaveFailedMigration, OpenStore, OpenFails, Listen,
         ListenFails, StopServing
<1>3. \/ /\ phase' \in EarlyPhases /\ owners' = owners /\ torn' = torn
         /\ phase' = "migration failed" => ~clean'
      \/ /\ phase' \in {"unwinding", "exited"} /\ listening' = {} /\ ~clean'
         /\ owners' \in [Owners -> {"idle", "cancelling"}]
      \/ /\ phase' = "stopping" /\ listening' = {} /\ torn' = torn
         /\ owners' \in [Owners -> {"waiting", "cancelling"}]
  <2>1. CASE Signal
    BY <2>1 DEF QuietInv, StopsInOrder, Signal
  <2>2. CASE Migrated \/ OpenStore \/ Listen
    BY <2>2 DEF Migrated, OpenStore, Listen
  <2>3. CASE MigrationFails
    BY <2>3 DEF MigrationFails
  <2>4. CASE LeaveFailedMigration \/ OpenFails \/ ListenFails
    <3>1. owners' \in [Owners -> {"idle", "cancelling"}]
      BY <1>1, <2>4 DEF QuietInv, ServingTypes, LeaveFailedMigration, OpenFails, ListenFails
    <3>2. phase' \in {"unwinding", "exited"} /\ listening' = {}
      BY <2>4 DEF LeaveFailedMigration, OpenFails, ListenFails
    <3>3. CASE LeaveFailedMigration
      <4>1. ~clean /\ clean' = clean
        BY <3>3 DEF QuietInv, StopsInOrder, LeaveFailedMigration
      <4> QED BY <3>1, <3>2, <4>1
    <3>4. CASE OpenFails \/ ListenFails
      <4>1. clean' = FALSE
        BY <3>4 DEF OpenFails, ListenFails
      <4> QED BY <3>1, <3>2, <4>1
    <3> QED BY <2>4, <3>3, <3>4
  <2>5. CASE StopServing
    <3>1. owners' \in [Owners -> {"waiting", "cancelling"}]
      BY <2>5 DEF StopServing
    <3> QED BY <2>5, <3>1 DEF StopServing
  <2> QED BY <2>1, <2>2, <2>3, <2>4, <2>5
<1>4. ServingTypes'
  BY <1>2, <1>3 DEF QuietInv, ServingTypes, OwnerStates
<1>5. StopsInOrder' /\ TearingIsTold' /\ ExitIsEarned'
  BY <1>1, <1>2, <1>3 DEF StopsInOrder, TearingIsTold, ExitIsEarned
<1>6. \A o \in Owners : owners'[o] \notin {"draining", "returned"}
  BY <1>1, <1>3
<1>7. ServersAreIdle' /\ ServicesAreOver'
  BY <1>6 DEF ServersAreIdle, ServicesAreOver, Owners, Servers
<1> QED BY <1>4, <1>5, <1>7 DEF QuietInv

\* A server that fails changes nothing of it.
LEMMA FailureKeepsQuiet ==
    ASSUME QuietInv, NEW server \in Servers, ServerFails(server) PROVE QuietInv'
  BY DEF QuietInv, ServingTypes, StopsInOrder, TearingIsTold, ServersAreIdle, ServicesAreOver, ExitIsEarned, ServerFails,
         workVars, stopVars, AllReturned, AtWork, EarlyPhases, LatePhases

\* Calls come to a server that listens only, and the workers only end what they have.
LEMMA WorkKeepsQuiet ==
    QuietInv /\ ((\E c \in Calls : CallStep(c)) \/ WorkerStep) => QuietInv'
<1> SUFFICES ASSUME QuietInv, (\E c \in Calls : CallStep(c)) \/ WorkerStep PROVE QuietInv'
  OBVIOUS
<1>1. UNCHANGED <<startVars, stopVars>>
  BY DEF CallStep, WorkerStep, Arrive, Admit, AcceptRestore, LeaveCall, Abandon, Answer, DrainCommitter, Launch, CycleEnds,
         LoopEnds, RestoreEnds
<1>2. ServingTypes' /\ StopsInOrder' /\ TearingIsTold' /\ ExitIsEarned'
  <2>1. call' = [c \in Calls |-> call'[c]]
    BY DEF QuietInv, ServingTypes, CallStep, WorkerStep, Arrive, Admit, AcceptRestore, LeaveCall, Abandon, Answer,
           DrainCommitter, Launch, CycleEnds, LoopEnds, RestoreEnds
  <2> QED BY <1>1, <2>1 DEF QuietInv, ServingTypes, StopsInOrder, TearingIsTold, ExitIsEarned, AllReturned, startVars, stopVars
<1>3. ServersAreIdle'
  <2> SUFFICES ASSUME clean, ~expired, NEW server \in Servers, owners[server] = "returned",
                      NEW d \in Calls, ServerOf(d) = server
               PROVE ~AtWork(d)'
    BY <1>1 DEF ServersAreIdle, stopVars
  <2>1. ~AtWork(d) /\ listening = {}
    BY DEF QuietInv, ServersAreIdle, StopsInOrder, ServingTypes, Owners
  <2> QED BY <2>1 DEF QuietInv, ServingTypes, AtWork, CallStep, WorkerStep, Arrive, Admit, AcceptRestore, LeaveCall, Abandon,
                      Answer, DrainCommitter, Launch, CycleEnds, LoopEnds, RestoreEnds
<1>4. ServicesAreOver'
  <2> SUFFICES ASSUME clean, ~expired, owners["services"] \in {"draining", "returned"}
               PROVE /\ scheduler' = "ended" /\ restoring' # "running"
                     /\ committer' \in {"closed", "drained"}
                     /\ owners["services"] = "returned" => committer' = "drained"
    BY <1>1 DEF ServicesAreOver, stopVars
  <2> QED BY DEF QuietInv, ServicesAreOver, CallStep, WorkerStep, Arrive, Admit, AcceptRestore, LeaveCall, Abandon, Answer,
                 DrainCommitter, Launch, CycleEnds, LoopEnds, RestoreEnds
<1> QED BY <1>2, <1>3, <1>4 DEF QuietInv

-----------------------------------------------------------------------------

\* An owner that has begun to stop: the process is past its start.
LEMMA OwnersStepLate ==
    ASSUME QuietInv, NEW o \in Owners, OwnerStep(o)
    PROVE phase \in LatePhases /\ (phase # "collecting") /\ (phase \in {"unwinding", "exited"} => ~clean)
<1>1. owners[o] \notin {"idle", "returned"}
  BY DEF OwnerStep, GracefulStop, Shutdown, CancelServices, CloseScheduler, CloseCommitter
<1> QED BY <1>1 DEF QuietInv, ServingTypes, StopsInOrder, ExitIsEarned, AllReturned, EarlyPhases, LatePhases

\* What every owner leaves alone.
LEMMA OwnersLeaveAlone ==
    ASSUME ServingTypes, NEW o \in Owners, OwnerStep(o)
    PROVE /\ UNCHANGED <<startVars, call, scheduler, restoring, torn, expired, forced>>
          /\ (clean' => clean)
<1>1. CASE GracefulStop
  BY <1>1 DEF ServingTypes, GracefulStop, Return, workVars
<1>2. ASSUME NEW server \in Servers, Shutdown(server)
      PROVE /\ UNCHANGED <<startVars, call, scheduler, restoring, torn, expired, forced>>
            /\ clean' => clean
  <2>1. UNCHANGED <<startVars, call, scheduler, restoring, torn, expired, forced>>
    BY <1>2 DEF Shutdown, Return, workVars
  <2>2. clean' = (clean /\ TRUE) \/ clean' = (clean /\ FALSE)
    BY <1>2 DEF Shutdown, Return
  <2> QED BY <2>1, <2>2 DEF ServingTypes
<1>3. CASE CancelServices
  BY <1>3 DEF CancelServices, workVars
<1>4. CASE CloseScheduler
  <2>1. UNCHANGED <<startVars, call, scheduler, restoring, torn, expired, forced>>
    BY <1>4 DEF CloseScheduler, StopCommitter
  <2>2. clean' = (clean /\ TRUE) \/ clean' = (clean /\ FALSE)
    BY <1>4 DEF CloseScheduler, StopCommitter
  <2> QED BY <2>1, <2>2 DEF ServingTypes
<1>5. CASE CloseCommitter
  <2>1. UNCHANGED <<startVars, call, scheduler, restoring, torn, expired, forced>>
    BY <1>5 DEF CloseCommitter, Return, workVars
  <2>2. clean' = (clean /\ TRUE) \/ clean' = (clean /\ FALSE)
    BY <1>5 DEF CloseCommitter, Return
  <2> QED BY <2>1, <2>2 DEF ServingTypes
<1> QED BY <1>1, <1>2, <1>3, <1>4, <1>5 DEF OwnerStep, Servers

\* An owner returns without an error only when nothing is left of what it stops.
LEMMA OwnersKeepQuiet ==
    ASSUME QuietInv, NEW o \in Owners, OwnerStep(o) PROVE QuietInv'
<1>1. phase \in LatePhases /\ phase # "collecting" /\ (phase \in {"unwinding", "exited"} => ~clean)
  BY OwnersStepLate
<1>2. UNCHANGED <<startVars, call, scheduler, restoring, torn, expired, forced>> /\ (clean' => clean)
  BY OwnersLeaveAlone DEF QuietInv
<1>3. ServingTypes'
  <2>1. owners' \in [Owners -> OwnerStates] /\ clean' \in BOOLEAN
    BY DEF QuietInv, ServingTypes, OwnerStates, OwnerStep, GracefulStop, Shutdown, CancelServices, CloseScheduler,
           CloseCommitter, StopCommitter, Return
  <2> QED BY <1>2, <2>1 DEF QuietInv, ServingTypes, startVars
<1>4. StopsInOrder' /\ TearingIsTold' /\ ExitIsEarned'
  BY <1>1, <1>2 DEF QuietInv, StopsInOrder, TearingIsTold, ExitIsEarned, startVars, EarlyPhases, LatePhases
<1>5. ServersAreIdle'
  <2> SUFFICES ASSUME clean', ~expired, NEW server \in Servers, owners'[server] = "returned",
                      NEW c \in Calls, ServerOf(c) = server
               PROVE ~AtWork(c)
    BY <1>2 DEF ServersAreIdle, AtWork
  <2>1. clean /\ torn = {}
    BY <1>2 DEF QuietInv, TearingIsTold
  <2>2. CASE owners[server] = "returned"
    BY <2>1, <2>2 DEF QuietInv, ServersAreIdle
  <2>3. CASE owners[server] # "returned"
    <3>1. (server = "grpc" /\ GracefulStop) \/ Shutdown(server)
      BY <2>3 DEF QuietInv, ServingTypes, Owners, Servers, OwnerStep, GracefulStop, Shutdown, CancelServices, CloseScheduler,
                  CloseCommitter, StopCommitter, Return
    <3>2. ~Busy(server)
      <4>1. CASE server = "grpc" /\ GracefulStop
        BY <4>1 DEF GracefulStop
      <4>2. CASE Shutdown(server)
        <5>1. CASE expired
          BY <5>1
        <5>2. CASE ~expired
          BY <2>1, <4>2, <5>2 DEF Shutdown
        <5> QED BY <5>1, <5>2
      <4> QED BY <3>1, <4>1, <4>2
    <3> QED BY <3>2 DEF Busy
  <2> QED BY <2>2, <2>3
<1>6. ServicesAreOver'
  <2> SUFFICES ASSUME clean', ~expired, owners'["services"] \in {"draining", "returned"}
               PROVE /\ scheduler = "ended" /\ restoring # "running"
                     /\ committer' \in {"closed", "drained"}
                     /\ owners'["services"] = "returned" => committer' = "drained"
    BY <1>2 DEF ServicesAreOver
  <2>1. CASE o # "services"
    <3>1. UNCHANGED committer /\ owners'["services"] = owners["services"]
      BY <2>1 DEF QuietInv, ServingTypes, Owners, OwnerStep, GracefulStop, Shutdown, Return, workVars
    <3> QED BY <1>2, <3>1 DEF QuietInv, ServicesAreOver
  <2>2. CASE o = "services"
    <3>1. CASE CancelServices
      BY <3>1 DEF QuietInv, ServingTypes, Owners, CancelServices
    <3>2. CASE CloseScheduler
      BY <3>2 DEF QuietInv, ServingTypes, Owners, CloseScheduler, StopCommitter
    <3>3. CASE CloseCommitter
      BY <1>2, <3>3 DEF QuietInv, ServicesAreOver, CloseCommitter, Return, workVars
    <3> QED BY <2>2, <3>1, <3>2, <3>3 DEF OwnerStep
  <2> QED BY <2>1, <2>2
<1> QED BY <1>3, <1>4, <1>5, <1>6 DEF QuietInv

\* The deadline, what it forces, and the way out.
LEMMA EndKeepsQuiet ==
    QuietInv /\ (DeadlinePasses \/ ForceStop \/ CollectErrors \/ JoinErrors \/ CloseStore) => QuietInv'
<1> SUFFICES ASSUME QuietInv, DeadlinePasses \/ ForceStop \/ CollectErrors \/ JoinErrors \/ CloseStore PROVE QuietInv'
  OBVIOUS
<1>1. UNCHANGED <<listening, call, owners, scheduler, restoring, committer>>
  BY DEF DeadlinePasses, ForceStop, Tear, CollectErrors, JoinErrors, CloseStore, startVars, workVars, stopVars
<1>2. phase' \in LatePhases /\ phase \in LatePhases
  BY DEF DeadlinePasses, ForceStop, Tear, CollectErrors, JoinErrors, CloseStore, startVars, LatePhases
<1>3. clean' = clean \/ clean' = (clean /\ ~expired)
  BY DEF DeadlinePasses, ForceStop, Tear, CollectErrors, JoinErrors, CloseStore, stopVars
<1>4. expired' = expired \/ expired' = TRUE
  BY DEF DeadlinePasses, ForceStop, Tear, CollectErrors, JoinErrors, CloseStore, stopVars
<1>5. clean' \in BOOLEAN /\ expired' \in BOOLEAN /\ (clean' => clean) /\ (expired => expired')
  <2>1. clean' \in BOOLEAN /\ (clean' => clean)
    <3>1. clean \in BOOLEAN
      BY DEF QuietInv, ServingTypes
    <3>2. CASE clean' = clean
      BY <3>1, <3>2
    <3>3. CASE clean' = (clean /\ ~expired)
      BY <3>1, <3>3
    <3> QED BY <1>3, <3>2, <3>3
  <2>2. expired' \in BOOLEAN /\ (expired => expired')
    BY <1>4 DEF QuietInv, ServingTypes
  <2> QED BY <2>1, <2>2
<1>6. ServingTypes'
  BY <1>1, <1>2, <1>5 DEF QuietInv, ServingTypes
<1>7. StopsInOrder'
  BY <1>1, <1>2 DEF QuietInv, StopsInOrder, EarlyPhases, LatePhases
<1>8. TearingIsTold'
  BY DEF QuietInv, TearingIsTold, DeadlinePasses, ForceStop, Tear, CollectErrors, JoinErrors, CloseStore, stopVars, ServingTypes
<1>9. ServersAreIdle' /\ ServicesAreOver'
  BY <1>1, <1>5 DEF QuietInv, ServersAreIdle, ServicesAreOver, AtWork
<1>10. ExitIsEarned'
  <2>1. CASE DeadlinePasses \/ ForceStop
    BY <2>1, <1>1, <1>4 DEF QuietInv, ServingTypes, ExitIsEarned, AllReturned, DeadlinePasses, ForceStop, Tear, startVars
  <2>2. CASE CollectErrors
    BY <2>2, <1>1 DEF CollectErrors, ExitIsEarned, AllReturned
  <2>3. CASE JoinErrors
    <3>1. clean' => ~expired
      BY <2>3 DEF QuietInv, ServingTypes, JoinErrors
    <3>2. phase' = "unwinding" /\ expired' = expired /\ AllReturned'
      BY <2>3, <1>1 DEF QuietInv, ExitIsEarned, AllReturned, JoinErrors
    <3> QED BY <3>1, <3>2 DEF ExitIsEarned
  <2>4. CASE CloseStore
    BY <2>4, <1>1 DEF QuietInv, ExitIsEarned, AllReturned, CloseStore, stopVars
  <2> QED BY <2>1, <2>2, <2>3, <2>4
<1> QED BY <1>6, <1>7, <1>8, <1>9, <1>10 DEF QuietInv

\* A step that changes nothing keeps it.
LEMMA StutterKeepsQuiet == QuietInv /\ UNCHANGED servingVars => QuietInv'
<1> SUFFICES ASSUME QuietInv, UNCHANGED servingVars PROVE QuietInv'
  OBVIOUS
<1> USE DEF QuietInv, servingVars, startVars, workVars, stopVars
<1>1. ServingTypes' /\ StopsInOrder' /\ TearingIsTold'
  BY DEF ServingTypes, StopsInOrder, TearingIsTold
<1>2. ServersAreIdle' /\ ServicesAreOver'
  BY DEF ServersAreIdle, ServicesAreOver, AtWork
<1>3. ExitIsEarned'
  BY DEF ExitIsEarned, AllReturned
<1> QED BY <1>1, <1>2, <1>3

\* A process that exits without an error left nothing running: no call, no
\* cycle, no admitted export, no connection cut off (shutdownServing, run).
THEOREM ExitIsQuiet == ServingSpec => []CleanExitIsQuiet
<1>1. QuietInv /\ [ServingNext]_servingVars => QuietInv'
  <2> SUFFICES ASSUME QuietInv, ServingNext PROVE QuietInv'
    BY StutterKeepsQuiet
  <2>1. CASE RunStep
    BY <2>1, StartKeepsQuiet, EndKeepsQuiet DEF RunStep
  <2>2. CASE OpenFails \/ ListenFails \/ Signal
    BY <2>2, StartKeepsQuiet
  <2>3. CASE DeadlinePasses
    BY <2>3, EndKeepsQuiet
  <2>4. CASE \E server \in Servers : ServerFails(server)
    BY <2>4, FailureKeepsQuiet
  <2>5. CASE \E o \in Owners : OwnerStep(o)
    BY <2>5, OwnersKeepQuiet
  <2>6. CASE (\E c \in Calls : CallStep(c)) \/ WorkerStep
    BY <2>6, WorkKeepsQuiet
  <2> QED BY <2>1, <2>2, <2>3, <2>4, <2>5, <2>6 DEF ServingNext
<1> QED BY <1>1, QuietAtFirst, QuietSuffices, PTL DEF ServingSpec

=============================================================================
