---------------------------- MODULE ExportLedger ----------------------------
(***************************************************************************)
(* What the live ingest path promises the senders of telemetry, whatever   *)
(* batching happens in between: an export is taken in at most once, a       *)
(* group of taken exports becomes durable in one atomic step, and each      *)
(* sender gets one answer, which is "ok" exactly when its export is durable. *)
(* BatchingCommitter implements this specification.                         *)
(***************************************************************************)
CONSTANT Exports          \* the exports senders may hand over

VARIABLES taken,          \* exports admitted for commit
          durable,        \* exports the store holds durably
          answer          \* what each sender has been told so far

ledgerVars == <<taken, durable, answer>>

LedgerInit ==
    /\ taken = {}
    /\ durable = {}
    /\ answer = [e \in Exports |-> "none"]

\* An export is admitted; its sender now waits for the durable outcome.
Take(e) ==
    /\ e \notin taken
    /\ answer[e] = "none"
    /\ taken' = taken \union {e}
    /\ UNCHANGED <<durable, answer>>

\* A group of admitted, still unanswered exports becomes durable at once.
Persist(group) ==
    /\ group # {}
    /\ group \subseteq taken \ durable
    /\ \A e \in group : answer[e] = "none"
    /\ durable' = durable \union group
    /\ UNCHANGED <<taken, answer>>

\* A group of senders is answered; no sender is ever answered twice.
Tell(group) ==
    /\ group # {}
    /\ \A e \in group : answer[e] = "none"
    /\ answer' = [e \in Exports |->
                    IF e \notin group THEN answer[e]
                    ELSE IF e \in durable THEN "ok" ELSE "error"]
    /\ UNCHANGED <<taken, durable>>

LedgerNext ==
    \/ \E e \in Exports : Take(e)
    \/ \E group \in SUBSET Exports : Persist(group)
    \/ \E group \in SUBSET Exports : Tell(group)

LedgerSpec == LedgerInit /\ [][LedgerNext]_ledgerVars
=============================================================================
