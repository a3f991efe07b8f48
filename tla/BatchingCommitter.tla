-------------------------- MODULE BatchingCommitter --------------------------
(***************************************************************************)
(* The batching export committer of internal/ingest: OTLP handlers call     *)
(* CommitExport concurrently, one background goroutine (run) groups their   *)
(* exports into windows and commits each window as one batch, and Close     *)
(* shuts it down, gracefully until its deadline and by cancellation after.  *)
(*                                                                          *)
(* Every critical section of committer.mu is one action, and so is every    *)
(* channel operation another goroutine can observe.                         *)
(***************************************************************************)
EXTENDS Integers, Sequences, SequencesExt

CONSTANTS
    Requests,          \* one CommitExport call each
    Closers,           \* one Close call each
    Bytes,             \* Bytes[r]: the protobuf size of r's export
    WindowExports,     \* policy.windowExports
    WindowBytes,       \* policy.windowBytes
    AdmissionExports,  \* policy.admissionExports
    AdmissionBytes,    \* policy.admissionBytes
    NoRequest          \* "no request is being moved into the window"

\* batchingPolicy.validate; an AcceptedExport has a size, never a negative one.
ASSUME PolicyAssumption ==
    /\ WindowExports \in Nat \ {0}
    /\ WindowBytes \in Nat \ {0}
    /\ AdmissionExports \in Nat
    /\ AdmissionBytes \in Nat
    /\ AdmissionExports >= WindowExports
    /\ AdmissionBytes >= WindowBytes

ASSUME RequestAssumption ==
    /\ Bytes \in [Requests -> Nat]
    /\ NoRequest \notin Requests

VARIABLES
    \* fields of the committer that committer.mu guards
    accepting, pending, unresolvedExports, unresolvedBytes, commitError,
    \* channels and the lifecycle context
    ready,             \* the one-slot ready channel holds a token
    woken,             \* blocked callers whose capacityChanged was closed
    result,            \* what each request's one-slot result channel holds
    cancelled,         \* lifecycleContext is done
    \* CommitExport callers
    call,              \* the point each call has reached
    ctxDone,           \* callers whose own context is done
    returned,          \* what each call returned
    \* Close callers
    once,              \* closeOnce
    close,             \* the point each Close has reached
    closeResult,       \* the errors each Close joined into its result
    \* the run goroutine
    work, next, window, windowBytes, timer, batchErr, after,
    \* the destination: exports CommitExportBatch made durable, in order
    durable

muVars     == <<accepting, pending, unresolvedExports, unresolvedBytes, commitError>>
chanVars   == <<ready, woken, result, cancelled>>
callerVars == <<call, ctxDone, returned>>
closerVars == <<once, close, closeResult>>
workerVars == <<work, next, window, windowBytes, timer, batchErr, after>>
vars == <<muVars, chanVars, callerVars, closerVars, workerVars, durable>>

----------------------------------------------------------------------------
\* Total protobuf size of a queue of requests.
TotalBytes(queue) == FoldLeft(LAMBDA sum, r : sum + Bytes[r], 0, queue)

\* signalReady: a send on the one-slot channel that never blocks.
\* Fault: the signal is lost.
SignalLost == ready' = ready
SignalReady == ready' = TRUE

\* notifyCapacityLocked: close capacityChanged, waking whoever holds it.
\* Fault: capacityChanged is not closed.
NotifyNobody == woken' = woken
NotifyCapacity == woken' = {r \in Requests : call[r] = "blocked"}

\* Close's critical section.
\* Fault: admission goes on after Close.
StopNothing == accepting' = accepting /\ NotifyCapacity
StopAdmission == accepting' = FALSE /\ NotifyCapacity

\* resolve's critical section: the capacity of requests is given back.
\* Fault: the bytes are not given back.
ReleaseCountOnly(requests) ==
    /\ unresolvedExports' = unresolvedExports - Len(requests)
    /\ unresolvedBytes' = unresolvedBytes
Release(requests) ==
    /\ unresolvedExports' = unresolvedExports - Len(requests)
    /\ unresolvedBytes' = unresolvedBytes - TotalBytes(requests)

\* A batch fails as a whole; the first failure is kept for Close.
\* Fault: the failure is not kept for Close.
FailUnrecorded(err) == batchErr' = err /\ commitError' = commitError
FailBatch(err) ==
    /\ batchErr' = err
    /\ commitError' = IF commitError = "none" THEN err ELSE commitError

\* CommitExportBatch commits the batch in one transaction.
\* Fault: only the first export is committed.
PersistFirst(batch) == durable' = Append(durable, Head(batch))
PersistBatch(batch) == durable' = durable \o batch

\* The first request of a window starts its timer.
\* Fault: no timer is started.
LeaveTimer == timer' = timer
ArmTimer == timer' = IF window = <<>> THEN "running" ELSE timer

\* With nothing pending run sleeps, or once closed flushes what is left.
\* Fault: run sleeps although admission stopped.
SleepWhenIdle == "wait"
StepWhenIdle == IF accepting THEN "wait" ELSE "flush"

\* What a cancelled run answers: the window and everything pending.
\* Fault: pending requests are dropped unanswered.
WindowOnly == window
AllQueued == window \o pending

\* newBatchingExportCommitter: nothing queued, the run goroutine started.
Init ==
    /\ accepting = TRUE
    /\ pending = <<>>
    /\ unresolvedExports = 0
    /\ unresolvedBytes = 0
    /\ commitError = "none"
    /\ ready = FALSE
    /\ woken = {}
    /\ result = [r \in Requests |-> "none"]
    /\ cancelled = FALSE
    /\ call = [r \in Requests |-> "new"]
    /\ ctxDone = {}
    /\ returned = [r \in Requests |-> "none"]
    /\ once = "new"
    /\ close = [c \in Closers |-> "new"]
    /\ closeResult = [c \in Closers |-> {}]
    /\ work = "top"
    /\ next = NoRequest
    /\ window = <<>>
    /\ windowBytes = 0
    /\ timer = "off"
    /\ batchErr = "none"
    /\ after = "top"
    /\ durable = <<>>

----------------------------------------------------------------------------
(* CommitExport *)

\* Fault: the call returns without an outcome.
ReturnNothing(r, outcome) ==
    /\ call' = [call EXCEPT ![r] = "returned"]
    /\ returned' = returned
Return(r, outcome) ==
    /\ call' = [call EXCEPT ![r] = "returned"]
    /\ returned' = [returned EXCEPT ![r] = outcome]

\* The call starts: an export no window could hold is refused unlocked.
StartCall(r) ==
    /\ call[r] = "new"
    /\ IF Bytes[r] > WindowBytes \/ Bytes[r] > AdmissionBytes
       THEN Return(r, "oversize")
       ELSE call' = [call EXCEPT ![r] = "admit"] /\ UNCHANGED returned
    /\ UNCHANGED <<muVars, chanVars, ctxDone, closerVars, workerVars, durable>>

Fits(r) ==
    /\ unresolvedExports < AdmissionExports
    /\ unresolvedBytes + Bytes[r] <= AdmissionBytes

\* One pass of the admission loop under the lock.
AdmitClosed(r) ==
    /\ call[r] = "admit"
    /\ ~accepting
    /\ Return(r, "closed")
    /\ UNCHANGED <<muVars, chanVars, ctxDone, closerVars, workerVars, durable>>

AdmitExpired(r) ==
    /\ call[r] = "admit"
    /\ accepting
    /\ r \in ctxDone
    /\ Return(r, "expired")
    /\ UNCHANGED <<muVars, chanVars, ctxDone, closerVars, workerVars, durable>>

Admit(r) ==
    /\ call[r] = "admit"
    /\ accepting
    /\ r \notin ctxDone
    /\ Fits(r)
    /\ unresolvedExports' = unresolvedExports + 1
    /\ unresolvedBytes' = unresolvedBytes + Bytes[r]
    /\ pending' = Append(pending, r)
    /\ call' = [call EXCEPT ![r] = "signal"]
    /\ UNCHANGED <<accepting, commitError, chanVars, ctxDone, returned,
                   closerVars, workerVars, durable>>

\* No room: remember the capacityChanged channel read under the lock.
Block(r) ==
    /\ call[r] = "admit"
    /\ accepting
    /\ r \notin ctxDone
    /\ ~Fits(r)
    /\ call' = [call EXCEPT ![r] = "blocked"]
    /\ UNCHANGED <<muVars, chanVars, ctxDone, returned, closerVars, workerVars, durable>>

BlockedExpires(r) ==
    /\ call[r] = "blocked"
    /\ r \in ctxDone
    /\ Return(r, "expired")
    /\ woken' = woken \ {r}
    /\ UNCHANGED <<muVars, ready, result, cancelled, ctxDone, closerVars, workerVars, durable>>

BlockedRetries(r) ==
    /\ call[r] = "blocked"
    /\ r \in woken
    /\ call' = [call EXCEPT ![r] = "admit"]
    /\ woken' = woken \ {r}
    /\ UNCHANGED <<muVars, ready, result, cancelled, ctxDone, returned,
                   closerVars, workerVars, durable>>

\* signalReady after the unlock: a send that never blocks.
SignalAdmitted(r) ==
    /\ call[r] = "signal"
    /\ SignalReady
    /\ call' = [call EXCEPT ![r] = "await"]
    /\ UNCHANGED <<muVars, woken, result, cancelled, ctxDone, returned,
                   closerVars, workerVars, durable>>

\* An admitted call waits for its result only; its own context no longer counts.
ReceiveResult(r) ==
    /\ call[r] = "await"
    /\ result[r] # "none"
    /\ Return(r, result[r])
    /\ result' = [result EXCEPT ![r] = "none"]
    /\ UNCHANGED <<muVars, ready, woken, cancelled, ctxDone, closerVars, workerVars, durable>>

\* The caller's context is cancelled or reaches its deadline.  Only the
\* admission loop looks at it; once admitted it changes nothing.
CallerContextEnds(r) ==
    /\ call[r] \in {"admit", "blocked", "await"}
    /\ r \notin ctxDone
    /\ ctxDone' = ctxDone \union {r}
    /\ UNCHANGED <<muVars, chanVars, call, returned, closerVars, workerVars, durable>>

----------------------------------------------------------------------------
(* Close *)

\* The first Close runs closeOnce: stop admission and wake blocked callers.
CloseFirst(c) ==
    /\ close[c] = "new"
    /\ once = "new"
    /\ once' = "running"
    /\ close' = [close EXCEPT ![c] = "signal"]
    /\ StopAdmission
    /\ UNCHANGED <<pending, unresolvedExports, unresolvedBytes, commitError, ready,
                   result, cancelled, callerVars, closeResult, workerVars, durable>>

CloseSignals(c) ==
    /\ close[c] = "signal"
    /\ SignalReady
    /\ once' = "done"
    /\ close' = [close EXCEPT ![c] = "select"]
    /\ UNCHANGED <<muVars, woken, result, cancelled, callerVars, closeResult, workerVars, durable>>

\* Another Close waits for closeOnce and skips its body.
CloseAgain(c) ==
    /\ close[c] = "new"
    /\ once = "done"
    /\ close' = [close EXCEPT ![c] = "select"]
    /\ UNCHANGED <<muVars, chanVars, callerVars, once, closeResult, workerVars, durable>>

\* The deadline of Close's context passes: cancel the lifecycle, then signal.
CloseDeadline(c) ==
    /\ close[c] = "select"
    /\ cancelled' = TRUE
    /\ close' = [close EXCEPT ![c] = "force"]
    /\ UNCHANGED <<muVars, ready, woken, result, callerVars, once, closeResult, workerVars, durable>>

CloseForceSignals(c) ==
    /\ close[c] = "force"
    /\ SignalReady
    /\ close' = [close EXCEPT ![c] = "drain"]
    /\ UNCHANGED <<muVars, woken, result, cancelled, callerVars, once, closeResult, workerVars, durable>>

\* done is closed: closeError joins the deadline, if any, and commitError.
CloseReturns(c) ==
    /\ close[c] \in {"select", "drain"}
    /\ work = "done"
    /\ close' = [close EXCEPT ![c] = "returned"]
    /\ closeResult' = [closeResult EXCEPT ![c] =
                          ({commitError} \ {"none"}) \union
                          (IF close[c] = "drain" THEN {"deadline"} ELSE {})]
    /\ UNCHANGED <<muVars, chanVars, callerVars, once, workerVars, durable>>

----------------------------------------------------------------------------
(* run *)

\* The loop head finds the lifecycle cancelled: everything queued is failed.
Drain ==
    /\ work = "top"
    /\ cancelled
    /\ window' = AllQueued
    /\ pending' = <<>>
    /\ timer' = "off"
    /\ batchErr' = "cancelled"
    /\ work' = "resolve"
    /\ after' = "done"
    /\ UNCHANGED <<accepting, unresolvedExports, unresolvedBytes, commitError, chanVars,
                   callerVars, closerVars, next, windowBytes, durable>>

\* Take the oldest pending request; one that would overflow the window's bytes
\* (or its count) makes the window flush first.
Dequeue ==
    /\ work = "top"
    /\ ~cancelled
    /\ pending # <<>>
    /\ next' = Head(pending)
    /\ pending' = Tail(pending)
    /\ after' = "add"
    /\ work' = IF /\ window # <<>>
                  /\ \/ Len(window) >= WindowExports
                     \/ windowBytes + Bytes[Head(pending)] > WindowBytes
               THEN "flush" ELSE "add"
    /\ UNCHANGED <<accepting, unresolvedExports, unresolvedBytes, commitError, chanVars,
                   callerVars, closerVars, window, windowBytes, timer, batchErr, durable>>

\* Nothing pending: while accepting, wait; once closed, flush what is left.
FoundEmpty ==
    /\ work = "top"
    /\ ~cancelled
    /\ pending = <<>>
    /\ work' = StepWhenIdle
    /\ after' = IF accepting THEN after ELSE "exit"
    /\ UNCHANGED <<muVars, chanVars, callerVars, closerVars, next, window, windowBytes,
                   timer, batchErr, durable>>

\* The first request of a window starts its timer; a full window flushes.
AddToWindow ==
    /\ work = "add"
    /\ window' = Append(window, next)
    /\ windowBytes' = windowBytes + Bytes[next]
    /\ ArmTimer
    /\ next' = NoRequest
    /\ after' = "top"
    /\ work' = IF \/ Len(window) + 1 >= WindowExports
                  \/ windowBytes + Bytes[next] >= WindowBytes
               THEN "flush" ELSE "top"
    /\ UNCHANGED <<muVars, chanVars, callerVars, closerVars, batchErr, durable>>

\* flush: an empty window is a no-op; a cancelled lifecycle skips the commit.
FlushEmpty ==
    /\ work = "flush"
    /\ window = <<>>
    /\ work' = after
    /\ UNCHANGED <<muVars, chanVars, callerVars, closerVars, next, window, windowBytes,
                   timer, batchErr, after, durable>>

FlushCancelled ==
    /\ work = "flush"
    /\ window # <<>>
    /\ cancelled
    /\ timer' = "off"
    /\ FailBatch("cancelled")
    /\ work' = "resolve"
    /\ UNCHANGED <<accepting, pending, unresolvedExports, unresolvedBytes, chanVars,
                   callerVars, closerVars, next, window, windowBytes, after, durable>>

FlushBegins ==
    /\ work = "flush"
    /\ window # <<>>
    /\ ~cancelled
    /\ timer' = "off"
    /\ work' = "commit"
    /\ UNCHANGED <<muVars, chanVars, callerVars, closerVars, next, window, windowBytes,
                   batchErr, after, durable>>

\* CommitExportBatch commits the whole window in one transaction ...
CommitSucceeds ==
    /\ work = "commit"
    /\ PersistBatch(window)
    /\ batchErr' = "ok"
    /\ work' = "resolve"
    /\ UNCHANGED <<muVars, chanVars, callerVars, closerVars, next, window, windowBytes,
                   timer, after>>

\* ... or none of it: an export is invalid, storage fails, or the lifecycle
\* context is cancelled under it.  The first such error is kept for Close.
CommitFails ==
    /\ work = "commit"
    /\ FailBatch("failed") \/ (cancelled /\ FailBatch("cancelled"))
    /\ work' = "resolve"
    /\ UNCHANGED <<accepting, pending, unresolvedExports, unresolvedBytes, chanVars,
                   callerVars, closerVars, next, window, windowBytes, timer, after, durable>>

\* resolve, locked part: give the window's capacity back and wake the blocked.
Resolve ==
    /\ work = "resolve"
    /\ IF window = <<>>
       THEN UNCHANGED <<unresolvedExports, unresolvedBytes, woken>>
       ELSE Release(window) /\ NotifyCapacity
    /\ work' = "deliver"
    /\ UNCHANGED <<accepting, pending, commitError, ready, result, cancelled, callerVars,
                   closerVars, next, window, windowBytes, timer, batchErr, after, durable>>

\* resolve, unlocked part: answer every request of the window, then clear it.
Deliver ==
    /\ work = "deliver"
    /\ result' = [r \in Requests |->
                     IF Contains(window, r) THEN batchErr ELSE result[r]]
    /\ window' = <<>>
    /\ windowBytes' = 0
    /\ work' = after
    /\ cancelled' = (cancelled \/ after = "done")
    /\ UNCHANGED <<muVars, ready, woken, callerVars, closerVars, next, timer, batchErr,
                   after, durable>>

\* Closed and flushed: return (its defers cancel the lifecycle and close done).
Exit ==
    /\ work = "exit"
    /\ work' = IF unresolvedExports = 0 THEN "done" ELSE "wait"
    /\ cancelled' = (cancelled \/ unresolvedExports = 0)
    /\ UNCHANGED <<muVars, ready, woken, result, callerVars, closerVars, next, window,
                   windowBytes, timer, batchErr, after, durable>>

\* The select: a ready token, the window's timer, or the lifecycle.
WakeReady ==
    /\ work = "wait"
    /\ ready
    /\ ready' = FALSE
    /\ work' = "top"
    /\ UNCHANGED <<muVars, woken, result, cancelled, callerVars, closerVars, next, window,
                   windowBytes, timer, batchErr, after, durable>>

WakeTimer ==
    /\ work = "wait"
    /\ timer = "fired"
    /\ timer' = "off"
    /\ after' = "top"
    /\ work' = "flush"
    /\ UNCHANGED <<muVars, chanVars, callerVars, closerVars, next, window, windowBytes,
                   batchErr, durable>>

WakeCancelled ==
    /\ work = "wait"
    /\ cancelled
    /\ work' = "top"
    /\ UNCHANGED <<muVars, chanVars, callerVars, closerVars, next, window, windowBytes,
                   timer, batchErr, after, durable>>

\* windowWait elapses.
TimerFires ==
    /\ timer = "running"
    /\ timer' = "fired"
    /\ UNCHANGED <<muVars, chanVars, callerVars, closerVars, work, next, window,
                   windowBytes, batchErr, after, durable>>

----------------------------------------------------------------------------
CallProceeds(r) ==
    \/ AdmitClosed(r) \/ AdmitExpired(r) \/ Admit(r) \/ Block(r)
    \/ BlockedExpires(r) \/ BlockedRetries(r) \/ SignalAdmitted(r) \/ ReceiveResult(r)

CommitExport(r) == StartCall(r) \/ CallProceeds(r)

CloseProceeds(c) ==
    \/ CloseSignals(c) \/ CloseAgain(c) \/ CloseForceSignals(c) \/ CloseReturns(c)

Close(c) == CloseFirst(c) \/ CloseDeadline(c) \/ CloseProceeds(c)

Run ==
    \/ Drain \/ Dequeue \/ FoundEmpty \/ AddToWindow
    \/ FlushEmpty \/ FlushCancelled \/ FlushBegins \/ CommitSucceeds \/ CommitFails
    \/ Resolve \/ Deliver \/ Exit
    \/ WakeReady \/ WakeTimer \/ WakeCancelled

Next ==
    \/ \E r \in Requests : CommitExport(r) \/ CallerContextEnds(r)
    \/ \E c \in Closers : Close(c)
    \/ Run
    \/ TimerFires

\* Goroutines the Go scheduler runs keep running, a running timer fires, and a
\* CommitExportBatch call returns.  Senders need not call, contexts need not
\* end, nobody need close, and a Close need not reach its deadline.
Fairness ==
    /\ WF_vars(Run)
    /\ WF_vars(TimerFires)
    /\ \A r \in Requests : WF_vars(CallProceeds(r))
    /\ \A c \in Closers : WF_vars(CloseProceeds(c))

Spec == Init /\ [][Next]_vars /\ Fairness

----------------------------------------------------------------------------
(* Properties *)

\* Every variable holds a value of its kind (unresolvedBytes: see Accounting).
TypeOK ==
    /\ accepting \in BOOLEAN
    /\ pending \in Seq(Requests)
    /\ unresolvedExports \in Int
    /\ commitError \in {"none", "failed", "cancelled"}
    /\ ready \in BOOLEAN
    /\ woken \subseteq Requests
    /\ result \in [Requests -> {"none", "ok", "failed", "cancelled"}]
    /\ cancelled \in BOOLEAN
    /\ call \in [Requests -> {"new", "admit", "blocked", "signal", "await", "returned"}]
    /\ ctxDone \subseteq Requests
    /\ returned \in [Requests -> {"none", "ok", "failed", "cancelled", "closed",
                                  "expired", "oversize"}]
    /\ \A r \in Requests : call[r] = "returned" <=> returned[r] # "none"
    /\ once \in {"new", "running", "done"}
    /\ close \in [Closers -> {"new", "signal", "select", "force", "drain", "returned"}]
    /\ closeResult \in [Closers -> SUBSET {"failed", "cancelled", "deadline"}]
    /\ work \in {"top", "add", "flush", "commit", "resolve", "deliver", "exit", "wait", "done"}
    /\ next \in Requests \union {NoRequest}
    /\ window \in Seq(Requests)
    /\ windowBytes \in Int
    /\ timer \in {"off", "running", "fired"}
    /\ batchErr \in {"none", "ok", "failed", "cancelled"}
    /\ after \in {"top", "add", "exit", "done"}
    /\ durable \in Seq(Requests)

\* What the committer holds on to: pending, the request in hand, the window.
InHand == IF next = NoRequest THEN <<>> ELSE <<next>>
Unresolved == (IF work = "deliver" THEN <<>> ELSE window) \o InHand \o pending

\* An admitted call that has not been sent its result.
Waiting(r) == call[r] \in {"signal", "await"} /\ result[r] = "none"

\* The two admission counters never drift from the requests really held, across
\* every admission, flush, failed batch, drain and exit; what is held stays
\* within the admission limits, and every batch handed to the destination within
\* those of the window (CommitExport, run, resolve).
CountsAreExact ==
    /\ unresolvedExports = Len(Unresolved)
    /\ Len(Unresolved) <= AdmissionExports
    /\ work = "commit" => Len(window) \in 1..WindowExports
BytesAreExact ==
    /\ unresolvedBytes = TotalBytes(Unresolved)
    /\ TotalBytes(Unresolved) <= AdmissionBytes
    /\ work = "commit" => TotalBytes(window) <= WindowBytes
Accounting == CountsAreExact /\ BytesAreExact

\* A call that waits for its result is held by the committer exactly once, and
\* run has not returned: nobody blocks forever on result.
NobodyStranded ==
    \A r \in Requests : Waiting(r) =>
        /\ work # "done"
        /\ Contains(pending, r) \/ next = r \/ Contains(window, r)
        /\ IsInjective(window \o InHand \o pending)

\* The lifecycle context is cancelled only once admission has stopped, so the
\* drain at the loop head cannot miss a request admitted after it.
CancelOnlyAfterClose == cancelled => ~accepting

\* The run goroutine never sleeps on work: a pending request, or a Close, that
\* it has not seen has left a ready token or is about to send it.
NoLostWakeup ==
    work = "wait" =>
        /\ pending # <<>> => ready \/ \E r \in Requests : call[r] = "signal"
        /\ ~accepting => ready \/ cancelled \/ \E c \in Closers : close[c] = "signal"

\* A window kept while run sleeps always has its timer running.
WindowIsTimed == work = "wait" /\ window # <<>> => timer # "off"

\* A Close that reports no error, when no Close forced the shutdown, means
\* every export ever admitted is durable.
CleanCloseIsDurable ==
    (\E c \in Closers : close[c] = "returned" /\ closeResult[c] = {}) =>
        \/ \E c \in Closers : close[c] \in {"force", "drain"} \/ "deadline" \in closeResult[c]
        \/ \A r \in Requests :
              /\ ~Waiting(r)
              /\ {result[r], returned[r]} \intersect {"failed", "cancelled"} = {}

\* Batching implements the ledger of ExportLedger: atomic batches, one answer
\* per export, "ok" exactly for what is durable.
Ledger == INSTANCE ExportLedger WITH
    Exports <- Requests,
    taken   <- {r \in Requests : \/ call[r] \in {"signal", "await"}
                                 \/ returned[r] \in {"ok", "failed", "cancelled"}},
    durable <- {r \in Requests : Contains(durable, r)},
    answer  <- [r \in Requests |->
                  IF result[r] = "none" /\ returned[r] = "none" THEN "none"
                  ELSE IF "ok" \in {result[r], returned[r]} THEN "ok" ELSE "error"]

ImplementsLedger == Ledger!LedgerSpec

\* A started Close returns, whatever the destination answers.
CloseTerminates ==
    \A c \in Closers : close[c] # "new" ~> close[c] = "returned"

\* Every admitted call gets its answer, shutdown or not.
AdmittedIsAnswered ==
    \A r \in Requests : call[r] = "signal" ~> call[r] = "returned"

\* A caller blocked on capacity is not forgotten.
BlockedGoesOn ==
    \A r \in Requests : call[r] = "blocked" ~> call[r] # "blocked"
=============================================================================
