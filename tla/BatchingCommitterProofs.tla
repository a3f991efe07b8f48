----------------------- MODULE BatchingCommitterProofs -----------------------
(***************************************************************************)
(* Theorems about BatchingCommitter for every set of requests and closers, *)
(* every size and every batching policy.                                   *)
(***************************************************************************)
EXTENDS BatchingCommitter, SequenceTheorems, WellFoundedInduction, TLAPS

\* How far run, its window's timer and the shutdown can be apart: the
\* strengthening that makes TypeOK, CancelOnlyAfterClose, NoLostWakeup and
\* WindowIsTimed inductive.
InFlush == work \in {"flush", "commit", "resolve", "deliver"}

NextInHand == next # NoRequest <=> work = "add" \/ (InFlush /\ after = "add")

ShutdownOrder ==
    /\ accepting <=> once = "new"
    /\ \A c \in Closers : close[c] # "new" => once # "new"
    /\ cancelled \/ work = "exit" \/ after \in {"exit", "done"} => ~accepting

TimerCoversWindow ==
    /\ work \in {"top", "add", "wait"} /\ window # <<>> => timer # "off"
    /\ work \in {"exit", "done"} => window = <<>>

NothingLeftAtExit == work = "exit" \/ (InFlush /\ after = "exit") => pending = <<>>

CountedExports ==
    unresolvedExports = (IF work = "deliver" THEN 0 ELSE Len(window))
                          + (IF next = NoRequest THEN 0 ELSE 1) + Len(pending)

Control == /\ NextInHand /\ ShutdownOrder /\ TimerCoversWindow
           /\ NothingLeftAtExit /\ CountedExports /\ NoLostWakeup

\* Every step keeps every variable of its type (the committer's fields, its
\* channels and the state of its goroutines).
LEMMA TypeStep == TypeOK /\ NextInHand /\ [Next]_vars => TypeOK'
<1> SUFFICES ASSUME TypeOK, NextInHand, [Next]_vars PROVE TypeOK'
  OBVIOUS
<1> USE RequestAssumption, PolicyAssumption
<1>1. ASSUME NEW r \in Requests, StartCall(r) PROVE TypeOK'
  <2>1. /\ call[r] = "new"
        /\ Return(r, "oversize") \/ (call' = [call EXCEPT ![r] = "admit"] /\ UNCHANGED returned)
        /\ UNCHANGED <<muVars, chanVars, ctxDone, closerVars, workerVars, durable>>
    BY <1>1, Zenon DEF StartCall
  <2>2. CASE Return(r, "oversize")
    BY <2>1, <2>2 DEF TypeOK, Return, muVars, chanVars, callerVars, closerVars, workerVars
  <2>3. CASE call' = [call EXCEPT ![r] = "admit"] /\ UNCHANGED returned
    BY <2>1, <2>3 DEF TypeOK, muVars, chanVars, callerVars, closerVars, workerVars
  <2> QED BY <2>1, <2>2, <2>3
<1>2. ASSUME NEW r \in Requests, CallProceeds(r) PROVE TypeOK'
  <2>1. CASE AdmitClosed(r)
    BY <2>1 DEF TypeOK, AdmitClosed, Return, muVars, chanVars, callerVars, closerVars, workerVars
  <2>2. CASE AdmitExpired(r)
    BY <2>2 DEF TypeOK, AdmitExpired, Return, muVars, chanVars, callerVars, closerVars, workerVars
  <2>3. CASE Admit(r)
    BY <2>3 DEF TypeOK, Admit, muVars, chanVars, callerVars, closerVars, workerVars
  <2>4. CASE Block(r)
    BY <2>4 DEF TypeOK, Block, muVars, chanVars, callerVars, closerVars, workerVars
  <2>5. CASE BlockedExpires(r)
    BY <2>5 DEF TypeOK, BlockedExpires, Return, muVars, callerVars, closerVars, workerVars
  <2>6. CASE BlockedRetries(r)
    BY <2>6 DEF TypeOK, BlockedRetries, muVars, callerVars, closerVars, workerVars
  <2>7. CASE SignalAdmitted(r)
    BY <2>7 DEF TypeOK, SignalAdmitted, SignalReady, muVars, callerVars, closerVars, workerVars
  <2>8. CASE ReceiveResult(r)
    BY <2>8 DEF TypeOK, ReceiveResult, Return, muVars, callerVars, closerVars, workerVars
  <2> QED BY <1>2, <2>1, <2>2, <2>3, <2>4, <2>5, <2>6, <2>7, <2>8 DEF CallProceeds
<1>3. ASSUME NEW r \in Requests, CallerContextEnds(r) PROVE TypeOK'
  BY <1>3 DEF TypeOK, CallerContextEnds, muVars, chanVars, callerVars, closerVars, workerVars
<1>4. ASSUME NEW c \in Closers, Close(c) PROVE TypeOK'
  <2>1. CASE CloseFirst(c)
    <3>1. accepting' \in BOOLEAN
      BY <2>1 DEF CloseFirst, StopAdmission
    <3> QED
      BY <2>1, <3>1 DEF TypeOK, CloseFirst, StopAdmission, NotifyCapacity, callerVars, workerVars
  <2>2. CASE CloseDeadline(c)
    BY <2>2 DEF TypeOK, CloseDeadline, muVars, callerVars, workerVars
  <2>3. CASE CloseSignals(c)
    BY <2>3 DEF TypeOK, CloseSignals, SignalReady, muVars, callerVars, workerVars
  <2>4. CASE CloseAgain(c)
    BY <2>4 DEF TypeOK, CloseAgain, muVars, chanVars, callerVars, workerVars
  <2>5. CASE CloseForceSignals(c)
    BY <2>5 DEF TypeOK, CloseForceSignals, SignalReady, muVars, callerVars, workerVars
  <2>6. CASE CloseReturns(c)
    BY <2>6 DEF TypeOK, CloseReturns, muVars, chanVars, callerVars, workerVars
  <2> QED BY <1>4, <2>1, <2>2, <2>3, <2>4, <2>5, <2>6 DEF Close, CloseProceeds
<1>5. ASSUME Run PROVE TypeOK'
  <2> USE DEF TypeOK, muVars, chanVars, callerVars, closerVars
  <2>1. CASE Drain
    BY <2>1 DEF Drain, AllQueued
  <2>2. CASE Dequeue
    <3>1. Head(pending) \in Requests /\ Tail(pending) \in Seq(Requests)
      BY <2>2, HeadTailProperties DEF Dequeue
    <3>2. work' \in {"flush", "add"} /\ after' = "add"
      BY <2>2, Zenon DEF Dequeue
    <3> QED BY <2>2, <3>1, <3>2 DEF Dequeue
  <2>3. CASE FoundEmpty
    BY <2>3 DEF FoundEmpty, StepWhenIdle
  <2>4. CASE AddToWindow
    <3>1. next \in Requests /\ Bytes[next] \in Nat
      BY <2>4 DEF NextInHand, AddToWindow
    <3> QED BY <2>4, <3>1 DEF AddToWindow, ArmTimer
  <2>5. CASE FlushEmpty
    BY <2>5 DEF FlushEmpty
  <2>6. CASE FlushCancelled
    BY <2>6 DEF FlushCancelled, FailBatch
  <2>7. CASE FlushBegins
    BY <2>7 DEF FlushBegins
  <2>8. CASE CommitSucceeds
    BY <2>8 DEF CommitSucceeds, PersistBatch
  <2>9. CASE CommitFails
    BY <2>9 DEF CommitFails, FailBatch
  <2>10. CASE Resolve
    BY <2>10 DEF Resolve, Release, NotifyCapacity
  <2>11. CASE Deliver
    BY <2>11 DEF Deliver
  <2>12. CASE Exit
    BY <2>12 DEF Exit
  <2>13. CASE WakeReady
    <3>1. ready' \in BOOLEAN
      BY <2>13 DEF WakeReady
    <3> QED BY <2>13, <3>1 DEF WakeReady
  <2>14. CASE WakeTimer
    BY <2>14 DEF WakeTimer
  <2>15. CASE WakeCancelled
    BY <2>15 DEF WakeCancelled
  <2> QED BY <1>5, <2>1, <2>2, <2>3, <2>4, <2>5, <2>6, <2>7, <2>8, <2>9, <2>10,
             <2>11, <2>12, <2>13, <2>14, <2>15 DEF Run
<1>6. ASSUME TimerFires PROVE TypeOK'
  BY <1>6 DEF TypeOK, TimerFires, muVars, chanVars, callerVars, closerVars
<1>7. ASSUME UNCHANGED vars PROVE TypeOK'
  BY <1>7 DEF TypeOK, vars, muVars, chanVars, callerVars, closerVars, workerVars
<1> QED
  BY <1>1, <1>2, <1>3, <1>4, <1>5, <1>6, <1>7 DEF Next, CommitExport

\* The shutdown, the window's timer and the signals keep in step.
LEMMA ControlStep == TypeOK /\ Control /\ [Next]_vars => Control'
<1> SUFFICES ASSUME TypeOK, Control, [Next]_vars PROVE Control'
  OBVIOUS
<1> USE RequestAssumption, PolicyAssumption
<1> USE DEF Control, NextInHand, ShutdownOrder, TimerCoversWindow, NothingLeftAtExit,
            CountedExports, NoLostWakeup, InFlush
<1> USE DEF muVars, chanVars, callerVars, closerVars, workerVars
<1>1. ASSUME NEW r \in Requests, StartCall(r) PROVE Control'
  BY <1>1 DEF TypeOK, StartCall, Return
<1>2. ASSUME NEW r \in Requests, CallProceeds(r) PROVE Control'
  <2>1. CASE AdmitClosed(r)
    BY <2>1 DEF TypeOK, AdmitClosed, Return
  <2>2. CASE AdmitExpired(r)
    BY <2>2 DEF TypeOK, AdmitExpired, Return
  <2>3. CASE Admit(r)
    <3>1. CountedExports'
      <4>1. /\ Len(pending') = Len(pending) + 1
            /\ Len(pending) \in Nat
            /\ Len(window) \in Nat
            /\ unresolvedExports' = unresolvedExports + 1
            /\ work' = work
            /\ window' = window
            /\ next' = next
        BY <2>3 DEF TypeOK, Admit
      <4> DEFINE held == IF work = "deliver" THEN 0 ELSE Len(window)
                 hand == IF next = NoRequest THEN 0 ELSE 1
      <4>2. held \in Nat /\ hand \in Nat /\ unresolvedExports = held + hand + Len(pending)
        BY <4>1
      <4>3. held' = held /\ hand' = hand
        BY <4>1
      <4> HIDE DEF held, hand, Control
      <4>4. unresolvedExports' = held + hand + Len(pending')
        BY <4>1, <4>2
      <4>5. unresolvedExports' = held' + hand' + Len(pending')
        BY <4>3, <4>4
      <4> QED BY <4>5 DEF held, hand
    <3>2. NothingLeftAtExit'
      BY <2>3 DEF TypeOK, Admit
    <3>3. NoLostWakeup'
      <4>1. call'[r] = "signal"
        BY <2>3 DEF TypeOK, Admit
      <4> QED BY <2>3, <4>1 DEF Admit
    <3> QED BY <2>3, <3>1, <3>2, <3>3 DEF TypeOK, Admit
  <2>4. CASE Block(r)
    BY <2>4 DEF TypeOK, Block
  <2>5. CASE BlockedExpires(r)
    BY <2>5 DEF TypeOK, BlockedExpires, Return
  <2>6. CASE BlockedRetries(r)
    BY <2>6 DEF TypeOK, BlockedRetries
  <2>7. CASE SignalAdmitted(r)
    BY <2>7 DEF TypeOK, SignalAdmitted, SignalReady
  <2>8. CASE ReceiveResult(r)
    BY <2>8 DEF TypeOK, ReceiveResult, Return
  <2> QED BY <1>2, <2>1, <2>2, <2>3, <2>4, <2>5, <2>6, <2>7, <2>8 DEF CallProceeds
<1>3. ASSUME NEW r \in Requests, CallerContextEnds(r) PROVE Control'
  BY <1>3 DEF TypeOK, CallerContextEnds
<1>4. ASSUME NEW c \in Closers, Close(c) PROVE Control'
  <2>1. CASE CloseFirst(c)
    BY <2>1 DEF TypeOK, CloseFirst, StopAdmission, NotifyCapacity
  <2>2. CASE CloseDeadline(c)
    BY <2>2 DEF TypeOK, CloseDeadline
  <2>3. CASE CloseSignals(c)
    BY <2>3 DEF TypeOK, CloseSignals, SignalReady
  <2>4. CASE CloseAgain(c)
    BY <2>4 DEF TypeOK, CloseAgain
  <2>5. CASE CloseForceSignals(c)
    BY <2>5 DEF TypeOK, CloseForceSignals, SignalReady
  <2>6. CASE CloseReturns(c)
    BY <2>6 DEF TypeOK, CloseReturns
  <2> QED BY <1>4, <2>1, <2>2, <2>3, <2>4, <2>5, <2>6 DEF Close, CloseProceeds
<1>5. ASSUME Run PROVE Control'
  <2> USE DEF TypeOK
  <2>1. CASE Drain
    BY <2>1 DEF Drain, AllQueued
  <2>2. CASE Dequeue
    BY <2>2, SMTT(30) DEF Dequeue
  <2>3. CASE FoundEmpty
    BY <2>3 DEF FoundEmpty, StepWhenIdle
  <2>4. CASE AddToWindow
    BY <2>4 DEF AddToWindow, ArmTimer
  <2>5. CASE FlushEmpty
    BY <2>5 DEF FlushEmpty
  <2>6. CASE FlushCancelled
    BY <2>6 DEF FlushCancelled, FailBatch
  <2>7. CASE FlushBegins
    BY <2>7 DEF FlushBegins
  <2>8. CASE CommitSucceeds
    BY <2>8 DEF CommitSucceeds
  <2>9. CASE CommitFails
    BY <2>9 DEF CommitFails, FailBatch
  <2>10. CASE Resolve
    BY <2>10 DEF Resolve, Release
  <2>11. CASE Deliver
    BY <2>11 DEF Deliver
  <2>12. CASE Exit
    BY <2>12 DEF Exit
  <2>13. CASE WakeReady
    BY <2>13 DEF WakeReady
  <2>14. CASE WakeTimer
    BY <2>14 DEF WakeTimer
  <2>15. CASE WakeCancelled
    BY <2>15 DEF WakeCancelled
  <2> QED BY <1>5, <2>1, <2>2, <2>3, <2>4, <2>5, <2>6, <2>7, <2>8, <2>9, <2>10,
             <2>11, <2>12, <2>13, <2>14, <2>15 DEF Run
<1>6. ASSUME TimerFires PROVE Control'
  BY <1>6 DEF TypeOK, TimerFires
<1>7. ASSUME UNCHANGED vars PROVE Control'
  BY <1>7 DEF TypeOK, vars
<1> QED
  BY <1>1, <1>2, <1>3, <1>4, <1>5, <1>6, <1>7 DEF Next, CommitExport

CommitterInv == TypeOK /\ Control

\* The inductive invariant holds in every reachable state.
THEOREM CommitterInvariant == Spec => []CommitterInv
<1> USE RequestAssumption, PolicyAssumption
<1>1. Init => CommitterInv
  <2> SUFFICES ASSUME Init PROVE CommitterInv
    OBVIOUS
  <2>1. TypeOK
    <3>1. accepting \in BOOLEAN /\ ready \in BOOLEAN /\ cancelled \in BOOLEAN
      BY DEF Init
    <3> QED BY <3>1 DEF Init, TypeOK
  <2>2. ShutdownOrder
    <3>1. /\ accepting /\ ~cancelled
          /\ once = "new" /\ work = "top" /\ after = "top"
          /\ \A c \in Closers : close[c] = "new"
      BY DEF Init
    <3> QED BY <3>1 DEF ShutdownOrder
  <2>3. NextInHand /\ TimerCoversWindow /\ NothingLeftAtExit /\ CountedExports /\ NoLostWakeup
    BY DEF Init, NextInHand, TimerCoversWindow, NothingLeftAtExit, CountedExports,
           NoLostWakeup, InFlush
  <2> QED BY <2>1, <2>2, <2>3 DEF CommitterInv, Control
<1>2. CommitterInv /\ [Next]_vars => CommitterInv'
  <2> SUFFICES ASSUME CommitterInv, [Next]_vars PROVE CommitterInv'
    OBVIOUS
  <2>1. TypeOK'
    BY TypeStep DEF CommitterInv, Control
  <2>2. Control'
    BY ControlStep DEF CommitterInv
  <2> QED BY <2>1, <2>2 DEF CommitterInv
<1> QED BY <1>1, <1>2, PTL DEF Spec

\* Type correctness of the committer.
THEOREM TypeCorrect == Spec => []TypeOK
BY CommitterInvariant, PTL DEF CommitterInv

\* run's lifecycle is cancelled only after admission stopped, so the drain of
\* a forced shutdown misses no request (lines 158-160 and 212-221).
THEOREM DrainIsFinal == Spec => []CancelOnlyAfterClose
<1>1. CommitterInv => CancelOnlyAfterClose
  BY DEF CommitterInv, Control, ShutdownOrder, CancelOnlyAfterClose
<1> QED BY <1>1, CommitterInvariant, PTL

\* run never sleeps on a request or a Close it has not seen (signalReady).
THEOREM NoWakeupIsLost == Spec => []NoLostWakeup
BY CommitterInvariant, PTL DEF CommitterInv, Control

\* A window run sleeps on is flushed after windowWait at the latest.
THEOREM SleepingWindowIsTimed == Spec => []WindowIsTimed
<1>1. CommitterInv => WindowIsTimed
  BY DEF CommitterInv, Control, TimerCoversWindow, WindowIsTimed
<1> QED BY <1>1, CommitterInvariant, PTL
-----------------------------------------------------------------------------
(* Sequences of requests *)

\* Nothing is in an empty sequence.
LEMMA ContainsEmpty == ASSUME NEW e PROVE ~Contains(<<>>, e)
BY DEF Contains

\* What is in a sequence that grows.
LEMMA ContainsAppend ==
  ASSUME NEW S, NEW s \in Seq(S), NEW e \in S, NEW x
  PROVE Contains(Append(s, e), x) <=> Contains(s, x) \/ x = e
<1>1. ASSUME Contains(s, x) \/ x = e PROVE Contains(Append(s, e), x)
  BY <1>1, AppendProperties DEF Contains
<1>2. ASSUME Contains(Append(s, e), x) PROVE Contains(s, x) \/ x = e
  BY <1>2, AppendProperties DEF Contains
<1> QED BY <1>1, <1>2

\* What is in one sequence after another.
LEMMA ContainsConcat ==
  ASSUME NEW S, NEW s \in Seq(S), NEW t \in Seq(S), NEW x
  PROVE Contains(s \o t, x) <=> Contains(s, x) \/ Contains(t, x)
<1>1. ASSUME Contains(s, x) PROVE Contains(s \o t, x)
  BY <1>1, ConcatProperties DEF Contains
<1>2. ASSUME Contains(t, x) PROVE Contains(s \o t, x)
  <2>1. PICK i \in 1..Len(t) : t[i] = x
    BY <1>2 DEF Contains
  <2>2. Len(s) + i \in 1..Len(s \o t) /\ (s \o t)[Len(s) + i] = x
    BY <2>1, ConcatProperties
  <2> QED BY <2>2 DEF Contains
<1>3. ASSUME Contains(s \o t, x) PROVE Contains(s, x) \/ Contains(t, x)
  BY <1>3, ConcatProperties DEF Contains
<1> QED BY <1>1, <1>2, <1>3

\* What is in a sequence that loses its head.
LEMMA ContainsTail ==
  ASSUME NEW S, NEW s \in Seq(S), s # <<>>, NEW x
  PROVE Contains(s, x) <=> x = Head(s) \/ Contains(Tail(s), x)
<1>0. /\ Len(s) \in Nat \ {0} /\ Head(s) = s[1] /\ Len(Tail(s)) = Len(s) - 1
      /\ \A i \in 1..Len(Tail(s)) : Tail(s)[i] = s[i+1]
  BY HeadTailProperties, EmptySeq
<1>1. ASSUME Contains(s, x), x # Head(s) PROVE Contains(Tail(s), x)
  <2>1. PICK i \in 1..Len(s) : s[i] = x
    BY <1>1 DEF Contains
  <2>2. i - 1 \in 1..Len(Tail(s)) /\ Tail(s)[i-1] = x
    BY <1>0, <1>1, <2>1
  <2> QED BY <2>2 DEF Contains
<1>2. ASSUME x = Head(s) \/ Contains(Tail(s), x) PROVE Contains(s, x)
  BY <1>0, <1>2 DEF Contains
<1> QED BY <1>1, <1>2

\* A sequence that takes what it does not hold repeats nothing.
LEMMA OnceAppend ==
  ASSUME NEW S, NEW s \in Seq(S), NEW e \in S, IsInjective(s), ~Contains(s, e)
  PROVE IsInjective(Append(s, e))
BY AppendProperties DEF IsInjective, Contains

\* A sequence without repetitions loses its head for good.
LEMMA OnceTail ==
  ASSUME NEW S, NEW s \in Seq(S), s # <<>>, IsInjective(s)
  PROVE IsInjective(Tail(s)) /\ ~Contains(Tail(s), Head(s))
<1>0. /\ Len(s) \in Nat \ {0} /\ Head(s) = s[1] /\ Len(Tail(s)) = Len(s) - 1
      /\ \A i \in 1..Len(Tail(s)) : Tail(s)[i] = s[i+1]
      /\ Tail(s) \in Seq(S)
  BY HeadTailProperties, EmptySeq
<1>1. IsInjective(Tail(s))
  BY <1>0 DEF IsInjective
<1>2. ~Contains(Tail(s), Head(s))
  BY <1>0 DEF IsInjective, Contains
<1> QED BY <1>1, <1>2

\* Two sequences that share nothing follow each other without repetitions.
LEMMA OnceConcat ==
  ASSUME NEW S, NEW s \in Seq(S), NEW t \in Seq(S), IsInjective(s), IsInjective(t),
         \A x : ~(Contains(s, x) /\ Contains(t, x))
  PROVE IsInjective(s \o t)
<1>0. /\ s \o t \in Seq(S) /\ Len(s) \in Nat /\ Len(t) \in Nat /\ Len(s \o t) = Len(s) + Len(t)
      /\ \A i \in 1..Len(s) : (s \o t)[i] = s[i]
      /\ \A i \in Len(s)+1..Len(s)+Len(t) : i - Len(s) \in 1..Len(t) /\ (s \o t)[i] = t[i - Len(s)]
  BY ConcatProperties
<1>1. \A a, b \in 1..Len(s) : s[a] = s[b] => a = b
  BY DEF IsInjective
<1>2. \A a, b \in 1..Len(t) : t[a] = t[b] => a = b
  BY DEF IsInjective
<1>3. \A a \in 1..Len(s), b \in 1..Len(t) : s[a] # t[b]
  BY DEF Contains
<1>4. ASSUME NEW a \in 1..Len(s) + Len(t), NEW b \in 1..Len(s) + Len(t), (s \o t)[a] = (s \o t)[b]
      PROVE  a = b
  <2>1. CASE a <= Len(s) /\ b <= Len(s)
    BY <1>0, <1>1, <1>4, <2>1
  <2>2. CASE a > Len(s) /\ b > Len(s)
    <3>1. a - Len(s) \in 1..Len(t) /\ (s \o t)[a] = t[a - Len(s)]
      BY <1>0, <2>2
    <3>2. b - Len(s) \in 1..Len(t) /\ (s \o t)[b] = t[b - Len(s)]
      BY <1>0, <2>2
    <3>3. a - Len(s) = b - Len(s)
      BY <1>2, <1>4, <3>1, <3>2
    <3> QED BY <1>0, <3>3
  <2>3. CASE (a <= Len(s) /\ b > Len(s)) \/ (a > Len(s) /\ b <= Len(s))
    BY <1>0, <1>3, <1>4, <2>3
  <2> QED BY <1>0, <2>1, <2>2, <2>3
<1>5. DOMAIN (s \o t) = 1..Len(s) + Len(t)
  BY <1>0
<1> QED BY <1>4, <1>5 DEF IsInjective

-----------------------------------------------------------------------------
(* Sizes of sequences of requests *)

\* A set of numbers has a least one.
LEMMA LeastExists ==
  ASSUME NEW S \in SUBSET Nat, S # {}
  PROVE  \E m \in S : \A n \in S : m <= n
<1> DEFINE R == OpToRel(<, Nat)
<1>1. IsWellFoundedOn(R, Nat)
  BY NatLessThanWellFounded
<1>2. ASSUME NEW m \in Nat, NEW n \in Nat, ~ (<<n, m>> \in R) PROVE m <= n
  BY <1>2 DEF OpToRel
<1> HIDE DEF R
<1>4. S \subseteq Nat
  OBVIOUS
<1>3. PICK m \in S : \A n \in S : ~ (<<n, m>> \in R)
  BY <1>1, <1>4, WFMin
<1>5. ASSUME NEW n \in S PROVE m <= n
  <2>1. ~ (<<n, m>> \in R)
    BY <1>3
  <2>2. m \in Nat /\ n \in Nat
    OBVIOUS
  <2> QED BY <1>2, <2>1, <2>2
<1> QED BY <1>5

\* A set of numbers that holds 0, and the next number of every number in it,
\* holds them all.
LEMMA Climb ==
  ASSUME NEW S, 0 \in S, \A n \in Nat : n \in S => n + 1 \in S
  PROVE  Nat \subseteq S
<1> SUFFICES ASSUME NEW n \in Nat, n \notin S PROVE FALSE
  OBVIOUS
<1> DEFINE Missing == Nat \ S
<1>1. PICK m \in Missing : \A k \in Missing : m <= k
  BY LeastExists
<1>2. m - 1 \in Nat /\ m - 1 \notin Missing
  BY <1>1
<1>3. m - 1 + 1 \in S
  BY <1>2
<1> QED BY <1>3

\* What the sum over a queue satisfies, as a function of the places summed up.
Equation(queue, g) ==
  g = [s \in SUBSET (DOMAIN queue) |-> IF s = {} THEN 0 ELSE g[s \ {Max(s)}] + Bytes[queue[Max(s)]]]

\* TotalBytes is that function, for all places of the queue.
LEMMA TotalIsFold ==
  ASSUME NEW queue
  PROVE TotalBytes(queue) = (CHOOSE g : Equation(queue, g))[DOMAIN queue]
BY DEF TotalBytes, FoldLeft, MapThenFoldSet, Equation, Max

\* The largest of the first n places, if it is there, is the n-th.
LEMMA MaxOfRange ==
  ASSUME NEW n \in Nat, NEW s \in SUBSET (1..n), n \in s
  PROVE  Max(s) = n
<1>1. \A x \in s : x \in Int /\ n >= x
  OBVIOUS
<1>2. \E x \in s : \A y \in s : x >= y
  BY <1>1
<1>3. Max(s) \in s /\ \A y \in s : Max(s) >= y
  BY <1>2 DEF Max
<1>4. Max(s) \in Int /\ n >= Max(s) /\ Max(s) >= n
  BY <1>1, <1>3
<1> HIDE DEF Max
<1> QED BY <1>4

\* The equation, for the first k places.
Adds(queue, k, g) ==
  \A s \in SUBSET (1..k) : g[s] = IF s = {} THEN 0 ELSE g[s \ {Max(s)}] + Bytes[queue[Max(s)]]

\* A function satisfies it.
HasTotals(queue, k) == \E g \in [SUBSET (1..k) -> Nat] : Adds(queue, k, g)

\* There is such a function: the one for k places is extended by the next place.
LEMMA FoldExists ==
  ASSUME NEW queue \in Seq(Requests)
  PROVE  \E g \in [SUBSET (1..Len(queue)) -> Nat] : Adds(queue, Len(queue), g)
<1> DEFINE S == {k \in Nat : k <= Len(queue) => HasTotals(queue, k)}
<1>1. 0 \in S
  <2> DEFINE g == [s \in SUBSET (1..0) |-> 0]
  <2>1. g \in [SUBSET (1..0) -> Nat] /\ Adds(queue, 0, g)
    <3>1. \A s \in SUBSET (1..0) : s = {}
      OBVIOUS
    <3> QED BY <3>1 DEF Adds
  <2> QED BY <2>1 DEF HasTotals
<1>2. ASSUME NEW k \in Nat, k \in S PROVE k + 1 \in S
  <2> SUFFICES ASSUME k + 1 <= Len(queue)
               PROVE  HasTotals(queue, k + 1)
    OBVIOUS
  <2>1. Len(queue) \in Nat
    OBVIOUS
  <2>2. HasTotals(queue, k)
    BY <1>2, <2>1
  <2>3. PICK g \in [SUBSET (1..k) -> Nat] : Adds(queue, k, g)
    BY <2>2 DEF HasTotals
  <2> DEFINE last == Bytes[queue[k + 1]]
             h == [s \in SUBSET (1..(k+1)) |->
                     IF k + 1 \in s THEN g[s \ {k + 1}] + last ELSE g[s]]
  <2>4. last \in Nat
    BY RequestAssumption, <2>1
  <2>5. \A s \in SUBSET (1..(k+1)) : s \ {k + 1} \in SUBSET (1..k)
    OBVIOUS
  <2>6. h \in [SUBSET (1..(k+1)) -> Nat]
    <3>1. ASSUME NEW s \in SUBSET (1..(k+1))
          PROVE  (IF k + 1 \in s THEN g[s \ {k + 1}] + last ELSE g[s]) \in Nat
      <4>1. CASE k + 1 \in s
        <5>1. g[s \ {k + 1}] \in Nat
          BY <2>5
        <5> QED BY <4>1, <5>1, <2>4
      <4>2. CASE k + 1 \notin s
        <5>1. s \in SUBSET (1..k)
          BY <2>5, <4>2
        <5> QED BY <4>2, <5>1
      <4> QED BY <4>1, <4>2
    <3> QED BY <3>1
  <2>7. Adds(queue, k + 1, h)
    <3> SUFFICES ASSUME NEW s \in SUBSET (1..(k+1))
                 PROVE  h[s] = IF s = {} THEN 0 ELSE h[s \ {Max(s)}] + Bytes[queue[Max(s)]]
      BY DEF Adds
    <3>1. CASE k + 1 \in s
      <4>1. Max(s) = k + 1
        BY <3>1, MaxOfRange
      <4>2. h[s] = g[s \ {k + 1}] + last
        BY <3>1
      <4>3. h[s \ {k + 1}] = g[s \ {k + 1}]
        <5>1. s \ {k + 1} \in SUBSET (1..(k+1)) /\ k + 1 \notin s \ {k + 1}
          OBVIOUS
        <5> QED BY <5>1
      <4> HIDE DEF h
      <4> QED BY <3>1, <4>1, <4>2, <4>3
    <3>2. CASE k + 1 \notin s
      <4>1. s \in SUBSET (1..k)
        BY <2>5, <3>2
      <4>2. h[s] = g[s]
        BY <3>2
      <4>3. h[s \ {Max(s)}] = g[s \ {Max(s)}]
        <5>1. s \ {Max(s)} \in SUBSET (1..(k+1)) /\ k + 1 \notin s \ {Max(s)}
          BY <3>2
        <5> QED BY <5>1
      <4>4. g[s] = IF s = {} THEN 0 ELSE g[s \ {Max(s)}] + Bytes[queue[Max(s)]]
        BY <2>3, <4>1 DEF Adds
      <4> HIDE DEF h
      <4> QED BY <4>2, <4>3, <4>4
    <3> QED BY <3>1, <3>2
  <2> HIDE DEF h
  <2> QED BY <2>6, <2>7 DEF HasTotals
<1>3. Nat \subseteq S
  <2> HIDE DEF S
  <2> QED BY <1>1, <1>2, Climb
<1>4. Len(queue) \in Nat
  OBVIOUS
<1>5. HasTotals(queue, Len(queue))
  BY <1>3, <1>4
<1> QED BY <1>5 DEF HasTotals

\* The running totals of a queue.
Running(queue, h) ==
    /\ h \in [0..Len(queue) -> Nat]
    /\ h[0] = 0
    /\ \A k \in 1..Len(queue) : h[k] = h[k - 1] + Bytes[queue[k]]

\* TotalBytes is the last running total.
LEMMA RunningTotal ==
  ASSUME NEW queue \in Seq(Requests)
  PROVE  \E h : Running(queue, h) /\ TotalBytes(queue) = h[Len(queue)]
<1>0. Len(queue) \in Nat /\ DOMAIN queue = 1..Len(queue)
  OBVIOUS
<1>1. PICK f \in [SUBSET (1..Len(queue)) -> Nat] : Adds(queue, Len(queue), f)
  BY FoldExists
<1>2. Equation(queue, f)
  BY <1>0, <1>1 DEF Equation, Adds
<1> DEFINE g == CHOOSE x : Equation(queue, x)
<1>3. Equation(queue, g)
  BY <1>2
<1>4. TotalBytes(queue) = g[1..Len(queue)]
  BY <1>0, TotalIsFold
<1> HIDE DEF g
<1> DEFINE h == [k \in 0..Len(queue) |-> g[1..k]]
<1>5. Adds(queue, Len(queue), g)
  BY <1>0, <1>3 DEF Equation, Adds
<1>6. h[0] = 0
  <2>1. 1..0 = {} /\ 1..0 \in SUBSET (1..Len(queue)) /\ 0 \in 0..Len(queue)
    BY <1>0
  <2> QED BY <1>5, <2>1 DEF Adds
<1>7. ASSUME NEW k \in 1..Len(queue) PROVE h[k] = h[k - 1] + Bytes[queue[k]]
  <2>1. Max(1..k) = k
    BY MaxOfRange
  <2>2. (1..k) \ {k} = 1..(k - 1) /\ 1..k # {} /\ 1..k \in SUBSET (1..Len(queue))
    <3>1. k \in Nat /\ 1 <= k /\ k <= Len(queue)
      BY <1>0
    <3>2. (1..k) \ {k} = 1..(k - 1)
      BY <3>1
    <3>3. k \in 1..k
      BY <3>1
    <3>4. 1..k \in SUBSET (1..Len(queue))
      BY <1>0, <3>1
    <3> QED BY <3>2, <3>3, <3>4
  <2>3. g[1..k] = g[1..(k - 1)] + Bytes[queue[k]]
    BY <1>5, <2>1, <2>2 DEF Adds
  <2>4. k \in 0..Len(queue) /\ k - 1 \in 0..Len(queue)
    BY <1>0
  <2> QED BY <2>3, <2>4
<1>8. \A k \in 0..Len(queue) : h[k] \in Nat
  <2> DEFINE S == {k \in Nat : k <= Len(queue) => h[k] \in Nat}
  <2>1. 0 \in S
    BY <1>6
  <2>2. ASSUME NEW k \in Nat, k \in S PROVE k + 1 \in S
    <3> DEFINE m == k + 1
    <3> SUFFICES ASSUME m <= Len(queue) PROVE h[m] \in Nat
      OBVIOUS
    <3>1. m \in 1..Len(queue) /\ m - 1 = k /\ h[k] \in Nat
      BY <1>0, <2>2
    <3> HIDE DEF h, m, S
    <3>2. h[m] = h[m - 1] + Bytes[queue[m]]
      BY <1>7, <3>1
    <3>3. Bytes[queue[m]] \in Nat
      BY <3>1, RequestAssumption
    <3>4. h[m] = h[k] + Bytes[queue[m]]
      BY <3>1, <3>2
    <3> QED BY <3>1, <3>3, <3>4
  <2> HIDE DEF h
  <2>3. Nat \subseteq S
    <3> HIDE DEF S
    <3> QED BY <2>1, <2>2, Climb
  <2> QED BY <1>0, <2>3
<1>9. h[Len(queue)] = TotalBytes(queue)
  BY <1>0, <1>4
<1>10. h \in [0..Len(queue) -> Nat]
  BY <1>8
<1> HIDE DEF h
<1> QED BY <1>6, <1>7, <1>9, <1>10 DEF Running

\* Nothing has no size.
LEMMA TotalEmpty == TotalBytes(<<>>) = 0
<1>1. <<>> \in Seq(Requests) /\ Len(<<>>) = 0
  OBVIOUS
<1> QED BY <1>1, RunningTotal DEF Running

\* One request has its own size.
LEMMA TotalOne ==
  ASSUME NEW r \in Requests
  PROVE TotalBytes(<<r>>) = Bytes[r]
<1>1. <<r>> \in Seq(Requests) /\ Len(<<r>>) = 1 /\ <<r>>[1] = r
  OBVIOUS
<1>2. PICK h : Running(<<r>>, h) /\ TotalBytes(<<r>>) = h[1]
  BY <1>1, RunningTotal
<1>3. h[1] = h[0] + Bytes[r] /\ h[0] = 0
  BY <1>1, <1>2 DEF Running
<1> QED BY <1>2, <1>3, RequestAssumption

\* A total is a number.
LEMMA TotalType ==
  ASSUME NEW queue \in Seq(Requests)
  PROVE TotalBytes(queue) \in Nat
BY RunningTotal DEF Running

\* The total of one queue after another is the sum of both.
LEMMA TotalConcat ==
  ASSUME NEW s \in Seq(Requests), NEW t \in Seq(Requests)
  PROVE TotalBytes(s \o t) = TotalBytes(s) + TotalBytes(t)
<1>0. /\ s \o t \in Seq(Requests) /\ Len(s) \in Nat /\ Len(t) \in Nat /\ Len(s \o t) = Len(s) + Len(t)
      /\ \A i \in 1..Len(s) : (s \o t)[i] = s[i]
      /\ \A i \in 1..Len(t) : (s \o t)[Len(s) + i] = t[i]
  BY ConcatProperties
<1>1. PICK h : Running(s \o t, h) /\ TotalBytes(s \o t) = h[Len(s) + Len(t)]
  BY <1>0, RunningTotal
<1>2. PICK f : Running(s, f) /\ TotalBytes(s) = f[Len(s)]
  BY RunningTotal
<1>3. PICK g : Running(t, g) /\ TotalBytes(t) = g[Len(t)]
  BY RunningTotal
<1>4. h[Len(s)] = f[Len(s)]
  <2> DEFINE S == {k \in Nat : k <= Len(s) => h[k] = f[k]}
  <2>1. 0 \in S
    BY <1>1, <1>2 DEF Running
  <2>2. ASSUME NEW k \in Nat, k \in S PROVE k + 1 \in S
    <3> SUFFICES ASSUME k + 1 <= Len(s) PROVE h[k + 1] = f[k + 1]
      OBVIOUS
    <3>1. k + 1 \in 1..Len(s) /\ k + 1 \in 1..Len(s \o t) /\ k + 1 - 1 = k /\ h[k] = f[k]
      BY <1>0, <2>2
    <3>2. h[k + 1] = h[k] + Bytes[s[k + 1]]
      BY <1>0, <1>1, <3>1 DEF Running
    <3>3. f[k + 1] = f[k] + Bytes[s[k + 1]]
      BY <1>2, <3>1 DEF Running
    <3> QED BY <3>1, <3>2, <3>3
  <2>3. Nat \subseteq S
    <3> HIDE DEF S
    <3> QED BY <2>1, <2>2, Climb
  <2> QED BY <1>0, <2>3
<1>5. h[Len(s) + Len(t)] = f[Len(s)] + g[Len(t)]
  <2> DEFINE S == {k \in Nat : k <= Len(t) => h[Len(s) + k] = f[Len(s)] + g[k]}
  <2>0. f[Len(s)] \in Nat
    BY <1>0, <1>2 DEF Running
  <2>1. 0 \in S
    BY <1>0, <1>3, <1>4, <2>0 DEF Running
  <2>2. ASSUME NEW k \in Nat, k \in S PROVE k + 1 \in S
    <3> SUFFICES ASSUME k + 1 <= Len(t) PROVE h[Len(s) + (k + 1)] = f[Len(s)] + g[k + 1]
      OBVIOUS
    <3>1. k + 1 \in 1..Len(t) /\ k + 1 - 1 = k /\ h[Len(s) + k] = f[Len(s)] + g[k]
      BY <1>0, <2>2
    <3>2. Len(s) + (k + 1) \in 1..Len(s \o t) /\ Len(s) + (k + 1) - 1 = Len(s) + k
      BY <1>0, <3>1
    <3>3. h[Len(s) + (k + 1)] = h[Len(s) + k] + Bytes[t[k + 1]]
      BY <1>0, <1>1, <3>1, <3>2 DEF Running
    <3>4. g[k + 1] = g[k] + Bytes[t[k + 1]]
      BY <1>3, <3>1 DEF Running
    <3>5. g[k] \in Nat /\ Bytes[t[k + 1]] \in Nat
      <4>1. k \in 0..Len(t) /\ t[k + 1] \in Requests
        BY <1>0, <3>1
      <4> QED BY <1>3, <4>1, RequestAssumption DEF Running
    <3> HIDE DEF S
    <3> QED BY <2>0, <3>1, <3>3, <3>4, <3>5
  <2>3. Nat \subseteq S
    <3> HIDE DEF S
    <3> QED BY <2>1, <2>2, Climb
  <2> QED BY <1>0, <2>3
<1> QED BY <1>1, <1>2, <1>3, <1>5

\* A queue grows by the size of what is appended.
LEMMA TotalAppend ==
  ASSUME NEW s \in Seq(Requests), NEW r \in Requests
  PROVE TotalBytes(Append(s, r)) = TotalBytes(s) + Bytes[r]
<1>1. Append(s, r) = s \o <<r>> /\ <<r>> \in Seq(Requests)
  OBVIOUS
<1> QED BY <1>1, TotalConcat, TotalOne

\* A queue shrinks by the size of its head.
LEMMA TotalTail ==
  ASSUME NEW s \in Seq(Requests), s # <<>>
  PROVE /\ Head(s) \in Requests /\ Tail(s) \in Seq(Requests)
        /\ TotalBytes(s) = Bytes[Head(s)] + TotalBytes(Tail(s))
<1>1. Head(s) \in Requests /\ Tail(s) \in Seq(Requests)
  BY HeadTailProperties, EmptySeq
<1>2. s = <<Head(s)>> \o Tail(s)
  BY HeadTailProperties
<1>3. <<Head(s)>> \in Seq(Requests)
  BY <1>1
<1>4. TotalBytes(<<Head(s)>> \o Tail(s)) = TotalBytes(<<Head(s)>>) + TotalBytes(Tail(s))
  BY <1>1, <1>3, TotalConcat
<1> QED BY <1>1, <1>2, <1>4, TotalOne
-----------------------------------------------------------------------------
(* Who is held by the committer, and what became of the exports *)

Held(r) == Contains(pending, r) \/ next = r \/ Contains(window, r)
Resolving == work \in {"resolve", "deliver"}

\* No request is held twice.
HeldOnce ==
    /\ IsInjective(pending) /\ IsInjective(window)
    /\ \A r \in Requests : ~(Contains(pending, r) /\ Contains(window, r))
    /\ next # NoRequest => ~Contains(pending, next) /\ ~Contains(window, next)

\* The calls that wait for a result are those of the requests held.
HeldIffWaiting == \A r \in Requests : Held(r) <=> Waiting(r)

ResultIsAwaited == \A r \in Requests : result[r] # "none" => call[r] \in {"signal", "await"}

\* An export is durable when its caller was, or is about to be, told so.
DurableIsOk ==
    \A r \in Requests :
        Contains(durable, r) <=> \/ result[r] = "ok" \/ returned[r] = "ok"
                                 \/ Resolving /\ batchErr = "ok" /\ Contains(window, r)

BatchIsKnown ==
    /\ work = "commit" => window # <<>>
    /\ Resolving => batchErr # "none"

NothingAfterDone ==
    /\ work = "done" => cancelled /\ window = <<>> /\ pending = <<>> /\ next = NoRequest
    /\ InFlush /\ after = "done" => pending = <<>> /\ Resolving

HeldInv ==
    /\ HeldOnce /\ HeldIffWaiting /\ ResultIsAwaited /\ DurableIsOk
    /\ BatchIsKnown /\ NothingAfterDone

\* A step that moves no request and starts or ends no batch.
LEMMA CallerMoves ==
    ASSUME CommitterInv, HeldInv, NEW r \in Requests,
           UNCHANGED <<pending, next, window, work, after, batchErr, durable, cancelled>>,
           \A q \in Requests \ {r} : UNCHANGED <<call[q], result[q], returned[q]>>,
           Waiting(r)' = Waiting(r),
           result'[r] # "none" => call'[r] \in {"signal", "await"},
           (result'[r] = "ok" \/ returned'[r] = "ok") <=> (result[r] = "ok" \/ returned[r] = "ok")
    PROVE  HeldInv'
<1>1. HeldOnce' /\ BatchIsKnown' /\ NothingAfterDone'
  BY DEF HeldInv, HeldOnce, BatchIsKnown, NothingAfterDone, Resolving, InFlush
<1>2. HeldIffWaiting'
  <2> SUFFICES ASSUME NEW q \in Requests PROVE (Held(q) <=> Waiting(q))'
    BY DEF HeldIffWaiting
  <2>1. Held(q)' = Held(q)
    BY DEF Held
  <2>2. Waiting(q)' = Waiting(q)
    BY DEF Waiting
  <2> QED BY <2>1, <2>2 DEF HeldInv, HeldIffWaiting
<1>3. ResultIsAwaited'
  BY DEF HeldInv, ResultIsAwaited
<1>4. DurableIsOk'
  BY DEF HeldInv, DurableIsOk, Resolving
<1> QED BY <1>1, <1>2, <1>3, <1>4 DEF HeldInv

\* What is not waited for is neither held nor answered nor durable.
LEMMA NotWaiting ==
    ASSUME CommitterInv, HeldInv, NEW r \in Requests,
           call[r] \in {"new", "admit", "blocked"}
    PROVE  /\ ~Held(r) /\ result[r] = "none" /\ returned[r] = "none" /\ ~Contains(durable, r)
           /\ ~Waiting(r)
BY DEF CommitterInv, TypeOK, HeldInv, HeldIffWaiting, ResultIsAwaited, DurableIsOk, Waiting, Held

\* Every step keeps track of who is held.
LEMMA HeldStep == CommitterInv /\ HeldInv /\ [Next]_vars => HeldInv'
<1> SUFFICES ASSUME CommitterInv, HeldInv, [Next]_vars PROVE HeldInv'
  OBVIOUS
<1> USE DEF muVars, chanVars, callerVars, closerVars, workerVars
<1>0. TypeOK
  BY DEF CommitterInv
<1>1. ASSUME NEW r \in Requests, StartCall(r) PROVE HeldInv'
  BY <1>0, <1>1, NotWaiting, CallerMoves DEF TypeOK, StartCall, Return, Waiting
<1>2. ASSUME NEW r \in Requests, CallProceeds(r) PROVE HeldInv'
  <2>1. CASE AdmitClosed(r)
    BY <1>0, <2>1, NotWaiting, CallerMoves DEF TypeOK, AdmitClosed, Return, Waiting
  <2>2. CASE AdmitExpired(r)
    BY <1>0, <2>2, NotWaiting, CallerMoves DEF TypeOK, AdmitExpired, Return, Waiting
  <2>3. CASE Admit(r)
    <3>1. ~Held(r) /\ result[r] = "none"
      BY <2>3, NotWaiting DEF Admit
    <3>2. \A q : Contains(pending', q) <=> Contains(pending, q) \/ q = r
      BY <1>0, <2>3, ContainsAppend DEF TypeOK, Admit
    <3>3. IsInjective(pending')
      BY <1>0, <2>3, <3>1, OnceAppend DEF TypeOK, Admit, Held, HeldInv, HeldOnce
    <3>4. HeldOnce'
      BY <2>3, <3>1, <3>2, <3>3 DEF Admit, Held, HeldInv, HeldOnce
    <3>5. HeldIffWaiting'
      <4> SUFFICES ASSUME NEW q \in Requests PROVE (Held(q) <=> Waiting(q))'
        BY DEF HeldIffWaiting
      <4>1. CASE q = r
        BY <1>0, <2>3, <3>1, <3>2, <4>1 DEF TypeOK, Admit, Held, Waiting
      <4>2. CASE q # r
        BY <1>0, <2>3, <3>2, <4>2 DEF TypeOK, Admit, Held, Waiting, HeldInv, HeldIffWaiting
      <4> QED BY <4>1, <4>2
    <3>6. ResultIsAwaited'
      BY <1>0, <2>3, <3>1 DEF TypeOK, Admit, HeldInv, ResultIsAwaited
    <3>7. DurableIsOk'
      BY <2>3 DEF Admit, HeldInv, DurableIsOk, Resolving
    <3>8. accepting
      BY <2>3 DEF Admit
    <3>9. NothingAfterDone'
      BY <1>0, <2>3, <3>8
         DEF Admit, HeldInv, NothingAfterDone, InFlush, Resolving, CommitterInv, Control, ShutdownOrder
    <3> QED BY <2>3, <3>4, <3>5, <3>6, <3>7, <3>9 DEF Admit, HeldInv, BatchIsKnown, Resolving
  <2>4. CASE Block(r)
    BY <1>0, <2>4, NotWaiting, CallerMoves DEF TypeOK, Block, Waiting
  <2>5. CASE BlockedExpires(r)
    BY <1>0, <2>5, NotWaiting, CallerMoves DEF TypeOK, BlockedExpires, Return, Waiting
  <2>6. CASE BlockedRetries(r)
    BY <1>0, <2>6, NotWaiting, CallerMoves DEF TypeOK, BlockedRetries, Waiting
  <2>7. CASE SignalAdmitted(r)
    BY <1>0, <2>7, CallerMoves DEF TypeOK, SignalAdmitted, Waiting
  <2>8. CASE ReceiveResult(r)
    BY <1>0, <2>8, CallerMoves DEF TypeOK, ReceiveResult, Return, Waiting
  <2> QED BY <1>2, <2>1, <2>2, <2>3, <2>4, <2>5, <2>6, <2>7, <2>8 DEF CallProceeds
<1>3. ASSUME UNCHANGED <<pending, next, window, work, after, batchErr, durable,
                         call, result, returned>>, cancelled => cancelled'
      PROVE  HeldInv'
  <2>1. \A q \in Requests : (Held(q) <=> Waiting(q))'
    BY <1>3 DEF HeldInv, HeldIffWaiting, Held, Waiting
  <2> QED BY <1>3, <2>1 DEF HeldInv, HeldOnce, HeldIffWaiting, ResultIsAwaited, DurableIsOk,
                BatchIsKnown, NothingAfterDone, Resolving, InFlush
<1>4. ASSUME NEW r \in Requests, CallerContextEnds(r) PROVE HeldInv'
  BY <1>3, <1>4 DEF CallerContextEnds
<1>5. ASSUME NEW c \in Closers, Close(c) PROVE HeldInv'
  BY <1>3, <1>5 DEF Close, CloseProceeds, CloseFirst, StopAdmission, CloseDeadline, CloseSignals,
     CloseAgain, CloseForceSignals, CloseReturns
<1>6. ASSUME TimerFires PROVE HeldInv'
  BY <1>3, <1>6 DEF TimerFires
<1>7. ASSUME UNCHANGED vars PROVE HeldInv'
  BY <1>3, <1>7 DEF vars
\* The queues keep what they hold between the batches.
<1>8. ASSUME UNCHANGED <<pending, next, window, durable, call, result, returned>>,
             Resolving \/ Resolving' =>
                \/ Resolving /\ Resolving' /\ batchErr' = batchErr
                \/ ~Resolving /\ batchErr' \in {"failed", "cancelled"},
             BatchIsKnown', NothingAfterDone'
      PROVE  HeldInv'
  <2>1. \A q \in Requests : (Held(q) <=> Waiting(q))'
    BY <1>8 DEF HeldInv, HeldIffWaiting, Held, Waiting
  <2>2. DurableIsOk'
    BY <1>8 DEF HeldInv, DurableIsOk
  <2> QED BY <1>8, <2>1, <2>2 DEF HeldInv, HeldOnce, HeldIffWaiting, ResultIsAwaited
<1>9. ASSUME Run PROVE HeldInv'
  <2>1. CASE Drain
    <3>0. next = NoRequest /\ ~Resolving
      BY <2>1 DEF Drain, CommitterInv, Control, NextInHand, InFlush, Resolving
    <3>1. \A q : Contains(window', q) <=> Contains(window, q) \/ Contains(pending, q)
      BY <1>0, <2>1, ContainsConcat DEF TypeOK, Drain, AllQueued
    <3>2. \A q : ~(Contains(pending, q) /\ Contains(window, q))
      BY <1>0 DEF TypeOK, HeldInv, HeldOnce, Contains
    <3>3. IsInjective(window') /\ IsInjective(pending')
      <4>1. window \in Seq(Requests) /\ pending \in Seq(Requests)
        BY <1>0 DEF TypeOK
      <4>2. IsInjective(window \o pending)
        BY <4>1, <3>2, OnceConcat DEF HeldInv, HeldOnce
      <4> QED BY <2>1, <4>2 DEF Drain, AllQueued, IsInjective
    <3>4. \A q : ~Contains(pending', q)
      BY <2>1, ContainsEmpty DEF Drain
    <3>5. HeldOnce'
      BY <2>1, <3>0, <3>3, <3>4 DEF Drain, HeldOnce
    <3>6. HeldIffWaiting'
      BY <2>1, <3>0, <3>1, <3>4 DEF Drain, HeldInv, HeldIffWaiting, Held, Waiting
    <3>7. DurableIsOk'
      BY <2>1, <3>0 DEF Drain, HeldInv, DurableIsOk, Resolving
    <3> QED BY <2>1, <3>5, <3>6, <3>7 DEF Drain, HeldInv, ResultIsAwaited, BatchIsKnown,
                  NothingAfterDone, Resolving, InFlush
  <2>2. CASE Dequeue
    <3>0. next = NoRequest /\ ~Resolving /\ ~Resolving' /\ pending \in Seq(Requests)
      BY <1>0, <2>2 DEF Dequeue, CommitterInv, Control, NextInHand, InFlush, Resolving, TypeOK
    <3>1. \A q : Contains(pending, q) <=> q = next' \/ Contains(pending', q)
      BY <2>2, <3>0, ContainsTail DEF Dequeue
    <3>2. IsInjective(pending') /\ ~Contains(pending', next')
      BY <2>2, <3>0, OnceTail DEF Dequeue, HeldInv, HeldOnce
    <3>3. next' \in Requests
      BY <2>2, <3>0, HeadTailProperties DEF Dequeue
    <3>4. HeldOnce'
      BY <2>2, <3>1, <3>2, <3>3 DEF Dequeue, HeldInv, HeldOnce
    <3>5. HeldIffWaiting'
      BY <2>2, <3>0, <3>1, RequestAssumption DEF Dequeue, HeldInv, HeldIffWaiting, Held, Waiting
    <3>6. DurableIsOk'
      BY <2>2, <3>0 DEF Dequeue, HeldInv, DurableIsOk
    <3> QED BY <2>2, <3>4, <3>5, <3>6 DEF Dequeue, HeldInv, ResultIsAwaited, BatchIsKnown,
                  NothingAfterDone, Resolving, InFlush
  <2>3. CASE FoundEmpty
    BY <2>3, <1>8
       DEF FoundEmpty, StepWhenIdle, Resolving, InFlush, HeldInv, BatchIsKnown, NothingAfterDone
  <2>4. CASE AddToWindow
    <3>0. next \in Requests /\ next # NoRequest /\ ~Resolving /\ ~Resolving' /\ window \in Seq(Requests)
      BY <1>0, <2>4 DEF AddToWindow, CommitterInv, Control, NextInHand, InFlush, Resolving, TypeOK
    <3>1. \A q : Contains(window', q) <=> Contains(window, q) \/ q = next
      BY <2>4, <3>0, ContainsAppend DEF AddToWindow
    <3>2. IsInjective(window')
      BY <2>4, <3>0, OnceAppend DEF AddToWindow, HeldInv, HeldOnce
    <3>3. HeldOnce'
      BY <2>4, <3>0, <3>1, <3>2 DEF AddToWindow, HeldInv, HeldOnce
    <3>4. HeldIffWaiting'
      BY <2>4, <3>1, RequestAssumption DEF AddToWindow, HeldInv, HeldIffWaiting, Held, Waiting
    <3>5. DurableIsOk'
      BY <2>4, <3>0 DEF AddToWindow, HeldInv, DurableIsOk
    <3> QED BY <2>4, <3>3, <3>4, <3>5 DEF AddToWindow, HeldInv, ResultIsAwaited, BatchIsKnown,
                  NothingAfterDone, Resolving, InFlush
  <2>5. CASE FlushEmpty
    BY <1>0, <2>5, <1>8
       DEF FlushEmpty, TypeOK, Resolving, InFlush, HeldInv, BatchIsKnown, NothingAfterDone
  <2>6. CASE FlushCancelled
    BY <2>6, <1>8
       DEF FlushCancelled, FailBatch, Resolving, InFlush, HeldInv, BatchIsKnown, NothingAfterDone
  <2>7. CASE FlushBegins
    BY <2>7, <1>8 DEF FlushBegins, Resolving, InFlush, HeldInv, BatchIsKnown, NothingAfterDone
  <2>8. CASE CommitSucceeds
    <3>0. ~Resolving /\ Resolving' /\ window \in Seq(Requests) /\ durable \in Seq(Requests)
      BY <1>0, <2>8 DEF CommitSucceeds, Resolving, TypeOK
    <3>1. \A q : Contains(durable', q) <=> Contains(durable, q) \/ Contains(window, q)
      BY <2>8, <3>0, ContainsConcat DEF CommitSucceeds, PersistBatch
    <3>2. HeldIffWaiting'
      BY <2>8 DEF CommitSucceeds, HeldInv, HeldIffWaiting, Held, Waiting
    <3>3. DurableIsOk'
      BY <2>8, <3>0, <3>1 DEF CommitSucceeds, HeldInv, DurableIsOk
    <3> QED BY <2>8, <3>2, <3>3
       DEF CommitSucceeds, HeldInv, HeldOnce, ResultIsAwaited, BatchIsKnown,
                  NothingAfterDone, Resolving, InFlush
  <2>9. CASE CommitFails
    BY <2>9, <1>8
       DEF CommitFails, FailBatch, Resolving, InFlush, HeldInv, BatchIsKnown, NothingAfterDone
  <2>10. CASE Resolve
    BY <2>10, <1>8 DEF Resolve, Release, Resolving, InFlush, HeldInv, BatchIsKnown, NothingAfterDone
  <2>11. CASE Deliver
    <3>0. Resolving /\ batchErr # "none" /\ \A q : ~Contains(window', q)
      BY <2>11, ContainsEmpty DEF Deliver, Resolving, HeldInv, BatchIsKnown
    <3>1. \A q \in Requests : result'[q] = IF Contains(window, q) THEN batchErr ELSE result[q]
      BY <2>11 DEF Deliver
    <3>2. \A q \in Requests : Contains(window, q) => call[q] \in {"signal", "await"} /\ result[q] = "none"
      BY DEF HeldInv, HeldIffWaiting, Held, Waiting
    <3>3. HeldOnce'
      BY <2>11, <3>0 DEF Deliver, HeldInv, HeldOnce, IsInjective
    <3>4. HeldIffWaiting'
      <4> SUFFICES ASSUME NEW q \in Requests PROVE (Held(q) <=> Waiting(q))'
        BY DEF HeldIffWaiting
      <4>1. CASE Contains(window, q)
        <5>1. ~Contains(pending, q) /\ next # q
          BY <4>1, RequestAssumption DEF HeldInv, HeldOnce
        <5> QED BY <2>11, <3>0, <3>1, <4>1, <5>1 DEF Deliver, Held, Waiting
      <4>2. CASE ~Contains(window, q)
        BY <2>11, <3>0, <3>1, <4>2 DEF Deliver, Held, Waiting, HeldInv, HeldIffWaiting
      <4> QED BY <4>1, <4>2
    <3>5. ResultIsAwaited'
      BY <2>11, <3>1, <3>2 DEF Deliver, HeldInv, ResultIsAwaited
    <3>6. DurableIsOk'
      BY <2>11, <3>0, <3>1, <3>2 DEF Deliver, HeldInv, DurableIsOk
    <3>7. ~Resolving' /\ work' \in {"top", "add", "exit", "done"}
      BY <1>0, <2>11 DEF Deliver, TypeOK, Resolving
    <3>8. next = NoRequest \/ after = "add"
      BY <2>11 DEF Deliver, CommitterInv, Control, NextInHand, InFlush
    <3>9. BatchIsKnown' /\ NothingAfterDone'
      BY <2>11, <3>7, <3>8 DEF Deliver, HeldInv, BatchIsKnown, NothingAfterDone, InFlush
    <3> QED BY <3>3, <3>4, <3>5, <3>6, <3>9 DEF HeldInv
  <2>12. CASE Exit
    <3>1. window = <<>> /\ pending = <<>> /\ next = NoRequest
      BY <1>0, <2>12 DEF Exit, CommitterInv, Control, TimerCoversWindow, NothingLeftAtExit,
         NextInHand, InFlush
    <3>2. work' = "done" => cancelled'
      BY <2>12 DEF Exit
    <3> QED BY <2>12, <3>1, <3>2, <1>8 DEF Exit, Resolving, InFlush, HeldInv, BatchIsKnown,
                  NothingAfterDone
  <2>13. CASE WakeReady
    BY <2>13, <1>8 DEF WakeReady, Resolving, InFlush, HeldInv, BatchIsKnown, NothingAfterDone
  <2>14. CASE WakeTimer
    BY <2>14, <1>8 DEF WakeTimer, Resolving, InFlush, HeldInv, BatchIsKnown, NothingAfterDone
  <2>15. CASE WakeCancelled
    BY <2>15, <1>8 DEF WakeCancelled, Resolving, InFlush, HeldInv, BatchIsKnown, NothingAfterDone
  <2> QED BY <1>9, <2>1, <2>2, <2>3, <2>4, <2>5, <2>6, <2>7, <2>8, <2>9, <2>10,
             <2>11, <2>12, <2>13, <2>14, <2>15 DEF Run
<1> QED BY <1>1, <1>2, <1>4, <1>5, <1>6, <1>7, <1>9 DEF Next, CommitExport

\* At first nobody is held.
LEMMA HeldInit == Init => HeldInv
<1> SUFFICES ASSUME Init PROVE HeldInv
  OBVIOUS
<1>1. \A q : ~Contains(pending, q) /\ ~Contains(window, q) /\ ~Contains(durable, q)
  BY ContainsEmpty DEF Init
<1>2. HeldOnce
  BY <1>1 DEF Init, HeldOnce, IsInjective
<1>3. HeldIffWaiting
  BY <1>1, RequestAssumption DEF Init, HeldIffWaiting, Held, Waiting
<1> QED BY <1>1, <1>2, <1>3 DEF Init, HeldInv, ResultIsAwaited, DurableIsOk, BatchIsKnown,
           NothingAfterDone, Resolving, InFlush

\* Who is held, and what became of the exports, in every reachable state.
LEMMA HeldInvariant == Spec => [](CommitterInv /\ HeldInv)
<1>1. Init /\ CommitterInv => HeldInv
  BY HeldInit
<1>2. CommitterInv /\ HeldInv /\ [Next]_vars => HeldInv'
  BY HeldStep
<1> QED BY <1>1, <1>2, CommitterInvariant, PTL DEF Spec

\* A call that waits for its result is held by the committer exactly once and
\* run has not returned, so the answer of resolve reaches every admitted
\* caller and nobody twice, for any requests and any policy.
THEOREM NobodyIsStranded == Spec => []NobodyStranded
<1>1. CommitterInv /\ HeldInv => NobodyStranded
  <2> SUFFICES ASSUME CommitterInv, HeldInv, NEW r \in Requests, Waiting(r)
               PROVE  /\ work # "done"
                      /\ Contains(pending, r) \/ next = r \/ Contains(window, r)
                      /\ IsInjective(window \o InHand \o pending)
    BY DEF NobodyStranded
  <2>0. window \in Seq(Requests) /\ pending \in Seq(Requests) /\ next \in Requests \cup {NoRequest}
    BY DEF CommitterInv, TypeOK
  <2>1. Held(r)
    BY DEF HeldInv, HeldIffWaiting
  <2>2. work # "done"
    BY <2>1, ContainsEmpty, RequestAssumption DEF HeldInv, NothingAfterDone, Held
  <2>3. InHand \in Seq(Requests) /\ IsInjective(InHand)
    BY <2>0 DEF InHand, IsInjective
  <2>4. \A x : Contains(InHand, x) <=> x = next /\ next # NoRequest
    BY DEF InHand, Contains
  <2>5. \A x : ~(Contains(window, x) /\ Contains(pending, x))
    BY <2>0 DEF HeldInv, HeldOnce, Contains
  <2>6. window \o InHand \in Seq(Requests)
    BY <2>0, <2>3
  <2>7. IsInjective(window \o InHand)
    BY <2>0, <2>3, <2>4, OnceConcat DEF HeldInv, HeldOnce
  <2>8. \A x : ~(Contains(window \o InHand, x) /\ Contains(pending, x))
    BY <2>0, <2>3, <2>4, <2>5, ContainsConcat DEF HeldInv, HeldOnce
  <2>9. IsInjective(window \o InHand \o pending)
    BY <2>0, <2>6, <2>7, <2>8, OnceConcat DEF HeldInv, HeldOnce
  <2> QED BY <2>1, <2>2, <2>9 DEF Held
<1> QED BY <1>1, HeldInvariant, PTL

-----------------------------------------------------------------------------
(* How much is held *)

\* A window that takes another request has room for it.
WindowHasRoom ==
    /\ work \notin {"resolve", "deliver"} => Len(window) <= WindowExports
    /\ work = "add" => Len(window) < WindowExports
    /\ work = "commit" => window # <<>>

CountsInv == unresolvedExports <= AdmissionExports /\ WindowHasRoom

\* Every step keeps the counts (admit, add, resolve).
LEMMA CountsStep == CommitterInv /\ HeldInv /\ CountsInv /\ [Next]_vars => CountsInv'
<1> SUFFICES ASSUME CommitterInv, HeldInv, CountsInv, [Next]_vars PROVE CountsInv'
  OBVIOUS
<1> USE DEF muVars, chanVars, callerVars, closerVars, workerVars
<1>0. TypeOK
  BY DEF CommitterInv
<1>1. unresolvedExports \in Int /\ Len(window) \in Nat /\ Len(pending) \in Nat
  BY <1>0 DEF TypeOK
<1>2. ASSUME UNCHANGED <<unresolvedExports, window, work>> PROVE CountsInv'
  BY <1>2 DEF CountsInv, WindowHasRoom
<1>3. ASSUME NEW r \in Requests, CommitExport(r) PROVE CountsInv'
  <2>1. CASE Admit(r)
    <3>1. unresolvedExports < AdmissionExports /\ unresolvedExports' = unresolvedExports + 1
      BY <2>1 DEF Admit, Fits
    <3> QED BY <1>1, <2>1, <3>1, PolicyAssumption DEF Admit, CountsInv, WindowHasRoom
  <2>2. CASE ~Admit(r)
    BY <1>2, <1>3, <2>2 DEF CommitExport, CallProceeds, StartCall, AdmitClosed, AdmitExpired,
       Block, BlockedExpires, BlockedRetries, SignalAdmitted, ReceiveResult
  <2> QED BY <2>1, <2>2
<1>4. ASSUME NEW r \in Requests, CallerContextEnds(r) PROVE CountsInv'
  BY <1>2, <1>4 DEF CallerContextEnds
<1>5. ASSUME NEW c \in Closers, Close(c) PROVE CountsInv'
  BY <1>2, <1>5 DEF Close, CloseProceeds, CloseFirst, CloseDeadline, CloseSignals, CloseAgain,
     CloseForceSignals, CloseReturns
<1>6. ASSUME TimerFires \/ UNCHANGED vars PROVE CountsInv'
  BY <1>2, <1>6 DEF TimerFires, vars
<1>7. ASSUME Run PROVE CountsInv'
  <2> USE DEF CountsInv, WindowHasRoom
  <2>1. CASE Drain
    BY <2>1 DEF Drain
  <2>2. CASE Dequeue
    <3>1. work' = "add" => Len(window) < WindowExports
      <4>1. CASE window = <<>>
        BY <4>1, PolicyAssumption
      <4>2. CASE window # <<>>
        BY <1>1, <2>2, <4>2, PolicyAssumption DEF Dequeue
      <4> QED BY <4>1, <4>2
    <3> QED BY <2>2, <3>1 DEF Dequeue
  <2>3. CASE AddToWindow
    <3>1. Len(window') = Len(window) + 1
      BY <1>0, <2>3 DEF AddToWindow, TypeOK, CommitterInv, Control, NextInHand
    <3>2. work' \in {"flush", "top"}
      BY <2>3 DEF AddToWindow
    <3> QED BY <1>1, <2>3, <3>1, <3>2, PolicyAssumption DEF AddToWindow
  <2>4. CASE FoundEmpty
    BY <2>4 DEF FoundEmpty, StepWhenIdle
  <2>5. CASE FlushEmpty
    BY <1>1, <2>5, PolicyAssumption DEF FlushEmpty, CommitterInv, TypeOK
  <2>6. CASE FlushCancelled \/ CommitSucceeds \/ CommitFails
    BY <2>6 DEF FlushCancelled, CommitSucceeds, CommitFails
  <2>7. CASE FlushBegins
    BY <2>7 DEF FlushBegins
  <2>8. CASE Resolve
    BY <1>1, <2>8, PolicyAssumption DEF Resolve, Release
  <2>9. CASE Deliver
    <3>1. Len(window') = 0 /\ work' # "commit" /\ unresolvedExports' = unresolvedExports
      BY <1>0, <2>9, EmptySeq DEF Deliver, TypeOK
    <3>2. 0 < WindowExports
      BY PolicyAssumption
    <3>3. 0 <= WindowExports
      BY <3>2, PolicyAssumption
    <3> QED BY <3>1, <3>2, <3>3
  <2>10. CASE Exit \/ WakeReady \/ WakeTimer \/ WakeCancelled
    BY <2>10 DEF Exit, WakeReady, WakeTimer, WakeCancelled
  <2> QED BY <1>7, <2>1, <2>2, <2>3, <2>4, <2>5, <2>6, <2>7, <2>8, <2>9, <2>10 DEF Run
<1> QED BY <1>3, <1>4, <1>5, <1>6, <1>7 DEF Next

\* The number of exports the committer counts as unresolved is the number it
\* holds, it never exceeds the admission limit, and a batch never exceeds that
\* of the window, whatever the sizes, failures and shutdowns (CommitExport,
\* run, resolve): the part of Accounting that counts exports.
THEOREM CountsNeverDrift == Spec => []CountsAreExact
<1>1. Init => CountsInv
  BY PolicyAssumption DEF Init, CountsInv, WindowHasRoom
<1>2. CommitterInv /\ HeldInv /\ CountsInv /\ [Next]_vars => CountsInv'
  BY CountsStep
<1>3. CommitterInv /\ CountsInv => CountsAreExact
  <2> SUFFICES ASSUME CommitterInv, CountsInv PROVE CountsAreExact
    OBVIOUS
  <2>1. window \in Seq(Requests) /\ pending \in Seq(Requests) /\ next \in Requests \cup {NoRequest}
    BY DEF CommitterInv, TypeOK
  <2>2. InHand \in Seq(Requests) /\ Len(InHand) = IF next = NoRequest THEN 0 ELSE 1
    BY <2>1 DEF InHand
  <2> DEFINE kept == IF work = "deliver" THEN <<>> ELSE window
  <2>3. kept \in Seq(Requests) /\ Len(kept) = IF work = "deliver" THEN 0 ELSE Len(window)
    BY <2>1
  <2>4. kept \o InHand \in Seq(Requests) /\ Len(kept \o InHand) = Len(kept) + Len(InHand)
    BY <2>2, <2>3, ConcatProperties
  <2>5. Len(Unresolved) = Len(kept) + Len(InHand) + Len(pending)
    BY <2>1, <2>4, ConcatProperties DEF Unresolved
  <2>6. unresolvedExports = Len(Unresolved)
    BY <2>2, <2>3, <2>5 DEF CommitterInv, Control, CountedExports
  <2>7. work = "commit" => Len(window) \in 1..WindowExports
    BY <2>1, EmptySeq, PolicyAssumption DEF CountsInv, WindowHasRoom
  <2> QED BY <2>6, <2>7 DEF CountsAreExact, CountsInv
<1> QED BY <1>1, <1>2, <1>3, HeldInvariant, PTL DEF Spec

-----------------------------------------------------------------------------
(* How many bytes are held *)

\* The sizes of what the committer holds: the window until it is resolved, the
\* request in hand, and the pending ones.
WindowTotal == IF work = "deliver" THEN 0 ELSE TotalBytes(window)
InHandTotal == IF next = NoRequest THEN 0 ELSE Bytes[next]

CountedBytes ==
    /\ unresolvedBytes = WindowTotal + InHandTotal + TotalBytes(pending)
    /\ unresolvedBytes <= AdmissionBytes

\* run's own count is that of its window, except while it answers what a drain
\* has put there; and a request it takes up fits into the window.
CountedWindow ==
    /\ windowBytes = TotalBytes(window) \/ (Resolving /\ after = "done")
    /\ ~Resolving => TotalBytes(window) <= WindowBytes
    /\ work = "add" => TotalBytes(window) + Bytes[next] <= WindowBytes

\* An export that no window could hold is refused before it asks for admission.
NobodyOversize ==
    \A r \in Requests : call[r] \in {"admit", "blocked", "signal", "await"} => Bytes[r] <= WindowBytes

BytesInv == CountedBytes /\ CountedWindow /\ NobodyOversize

\* The sizes are numbers.
LEMMA TotalsAreNumbers ==
  ASSUME TypeOK
  PROVE  /\ TotalBytes(window) \in Nat /\ TotalBytes(pending) \in Nat
         /\ WindowTotal \in Nat /\ InHandTotal \in Nat
         /\ unresolvedBytes = WindowTotal + InHandTotal + TotalBytes(pending) => unresolvedBytes \in Nat
<1>1. TotalBytes(window) \in Nat /\ TotalBytes(pending) \in Nat
  BY TotalType DEF TypeOK
<1>2. WindowTotal \in Nat
  BY <1>1 DEF WindowTotal
<1>3. InHandTotal \in Nat
  BY RequestAssumption DEF TypeOK, InHandTotal
<1> QED BY <1>1, <1>2, <1>3

\* A request that the committer holds fits into an empty window.
LEMMA HeldFits ==
  ASSUME HeldInv, NobodyOversize, NEW r \in Requests, Held(r)
  PROVE  Bytes[r] <= WindowBytes
BY DEF HeldInv, HeldIffWaiting, Waiting, NobodyOversize

\* A request may only enter the committer after its size was checked.
LEMMA OversizeStep ==
  ASSUME TypeOK, NobodyOversize, [Next]_vars PROVE NobodyOversize'
<1> USE DEF muVars, chanVars, callerVars, closerVars, workerVars
<1>1. ASSUME NEW r \in Requests, CommitExport(r) PROVE NobodyOversize'
  <2>1. CASE StartCall(r)
    <3>1. /\ \/ call' = [call EXCEPT ![r] = "returned"]
             \/ call' = [call EXCEPT ![r] = "admit"] /\ Bytes[r] <= WindowBytes
      <4>1. Bytes[r] \in Nat /\ WindowBytes \in Nat
        BY RequestAssumption, PolicyAssumption
      <4>2. CASE Bytes[r] > WindowBytes \/ Bytes[r] > AdmissionBytes
        BY <2>1, <4>2 DEF StartCall, Return
      <4>3. CASE ~(Bytes[r] > WindowBytes \/ Bytes[r] > AdmissionBytes)
        BY <2>1, <4>1, <4>3 DEF StartCall
      <4> QED BY <4>2, <4>3
    <3> QED BY <3>1 DEF TypeOK, NobodyOversize
  <2>2. CASE CallProceeds(r)
    <3>1. \/ call' = [call EXCEPT ![r] = "returned"]
          \/ /\ call[r] \in {"admit", "blocked", "signal", "await"}
             /\ \E pc \in {"admit", "blocked", "signal", "await"} : call' = [call EXCEPT ![r] = pc]
      BY <2>2 DEF CallProceeds, AdmitClosed, AdmitExpired, Admit, Block, BlockedExpires,
         BlockedRetries, SignalAdmitted, ReceiveResult, Return
    <3> QED BY <3>1 DEF TypeOK, NobodyOversize
  <2> QED BY <1>1, <2>1, <2>2 DEF CommitExport
<1>2. ASSUME call' = call PROVE NobodyOversize'
  BY <1>2 DEF NobodyOversize
<1>3. ASSUME NEW r \in Requests, CallerContextEnds(r) PROVE NobodyOversize'
  BY <1>2, <1>3 DEF CallerContextEnds
<1>4. ASSUME NEW c \in Closers, Close(c) PROVE NobodyOversize'
  BY <1>2, <1>4 DEF Close, CloseProceeds, CloseFirst, CloseDeadline, CloseSignals, CloseAgain,
     CloseForceSignals, CloseReturns
<1>5. ASSUME TimerFires \/ UNCHANGED vars PROVE NobodyOversize'
  BY <1>2, <1>5 DEF TimerFires, vars
<1>6. ASSUME Run PROVE NobodyOversize'
  BY <1>2, <1>6 DEF Run, Drain, Dequeue, FoundEmpty, AddToWindow, FlushEmpty, FlushCancelled,
     FlushBegins, CommitSucceeds, CommitFails, Resolve, Deliver, Exit, WakeReady, WakeTimer,
     WakeCancelled
<1> QED BY <1>1, <1>3, <1>4, <1>5, <1>6 DEF Next

\* The callers change what is held by admitting a request, whose size is added.
LEMMA BytesCaller ==
  ASSUME CommitterInv, BytesInv, NEW r \in Requests, CommitExport(r) \/ CallerContextEnds(r)
  PROVE  CountedBytes' /\ CountedWindow'
<1> USE DEF muVars, chanVars, callerVars, closerVars, workerVars
<1>0. TypeOK
  BY DEF CommitterInv
<1>1. CASE Admit(r)
  <2>1. TotalBytes(pending') = TotalBytes(pending) + Bytes[r]
    BY <1>0, <1>1, TotalAppend DEF Admit, TypeOK
  <2>2. WindowTotal' = WindowTotal /\ InHandTotal' = InHandTotal
    BY <1>1 DEF Admit, WindowTotal, InHandTotal
  <2>3. /\ unresolvedBytes + Bytes[r] <= AdmissionBytes
        /\ unresolvedBytes' = unresolvedBytes + Bytes[r]
    BY <1>1 DEF Admit, Fits
  <2>4. Bytes[r] \in Nat
    BY RequestAssumption
  <2>5. CountedBytes'
    BY <1>0, <2>1, <2>2, <2>3, <2>4, TotalsAreNumbers DEF BytesInv, CountedBytes
  <2>6. CountedWindow'
    BY <1>1 DEF Admit, BytesInv, CountedWindow, Resolving
  <2> QED BY <2>5, <2>6
<1>2. CASE ~Admit(r)
  <2>1. UNCHANGED <<unresolvedBytes, pending, window, next, work, windowBytes, after>>
    BY <1>2 DEF CommitExport, CallProceeds, StartCall, AdmitClosed, AdmitExpired,
       Block, BlockedExpires, BlockedRetries, SignalAdmitted, ReceiveResult, CallerContextEnds
  <2> QED BY <2>1 DEF BytesInv, CountedBytes, CountedWindow, WindowTotal, InHandTotal, Resolving
<1> QED BY <1>1, <1>2

\* run moves requests from pending to its window, and gives their capacity back
\* when their batch has ended.
LEMMA BytesRun ==
  ASSUME CommitterInv, HeldInv, BytesInv, Run
  PROVE  CountedBytes' /\ CountedWindow'
<1> USE DEF muVars, chanVars, callerVars, closerVars, workerVars
<1>0. TypeOK
  BY DEF CommitterInv
<1>a. /\ TotalBytes(window) \in Nat /\ TotalBytes(pending) \in Nat
      /\ WindowTotal \in Nat /\ InHandTotal \in Nat /\ unresolvedBytes \in Nat
  BY <1>0, TotalsAreNumbers DEF BytesInv, CountedBytes
<1>b. WindowBytes \in Nat /\ AdmissionBytes \in Nat /\ (0 <= WindowBytes)
  BY PolicyAssumption
<1>c. window \in Seq(Requests) /\ pending \in Seq(Requests)
  BY <1>0 DEF TypeOK
<1>1. CASE Drain
  <2>1. TotalBytes(window') = TotalBytes(window) + TotalBytes(pending) /\ TotalBytes(pending') = 0
    BY <1>1, <1>c, TotalConcat, TotalEmpty DEF Drain, AllQueued
  <2>2. work = "top" /\ work' = "resolve" /\ after' = "done" /\ next' = next /\ unresolvedBytes' = unresolvedBytes
    BY <1>1 DEF Drain
  <2>3. CountedBytes'
    BY <1>a, <2>1, <2>2 DEF BytesInv, CountedBytes, WindowTotal, InHandTotal
  <2>4. CountedWindow'
    BY <2>2 DEF CountedWindow, Resolving
  <2> QED BY <2>3, <2>4
<1>2. CASE Dequeue
  <2>1. /\ Head(pending) \in Requests /\ Tail(pending) \in Seq(Requests)
        /\ TotalBytes(pending) = Bytes[Head(pending)] + TotalBytes(Tail(pending))
    BY <1>2, <1>c, TotalTail DEF Dequeue
  <2>2. /\ work = "top" /\ work' \in {"add", "flush"} /\ after' = "add"
        /\ next' = Head(pending) /\ pending' = Tail(pending)
        /\ UNCHANGED <<unresolvedBytes, window, windowBytes>>
        /\ work' = "add" => window = <<>> \/ ~(windowBytes + Bytes[Head(pending)] > WindowBytes)
    BY <1>2 DEF Dequeue
  <2>3. next = NoRequest
    BY <1>0, <2>2 DEF CommitterInv, Control, NextInHand, InFlush
  <2>4. Head(pending) # NoRequest /\ Bytes[Head(pending)] \in Nat
    BY <2>1, RequestAssumption
  <2>5. CountedBytes'
    <3>1. InHandTotal = 0 /\ InHandTotal' = Bytes[Head(pending)]
      BY <2>2, <2>3, <2>4 DEF InHandTotal
    <3>2. WindowTotal' = WindowTotal
      BY <2>2 DEF WindowTotal
    <3>3. TotalBytes(Tail(pending)) \in Nat
      BY <2>1, TotalType
    <3>4. TotalBytes(pending') = TotalBytes(Tail(pending))
      BY <2>2
    <3>5. unresolvedBytes = WindowTotal + 0 + TotalBytes(pending) /\ unresolvedBytes <= AdmissionBytes
      BY <3>1 DEF BytesInv, CountedBytes
    <3>6. unresolvedBytes' = WindowTotal' + InHandTotal' + TotalBytes(pending')
      BY <1>a, <2>1, <2>2, <2>4, <3>1, <3>2, <3>3, <3>4, <3>5
    <3> QED BY <2>2, <3>5, <3>6 DEF CountedBytes
  <2>6. windowBytes = TotalBytes(window) /\ TotalBytes(window) <= WindowBytes
    BY <2>2 DEF BytesInv, CountedWindow, Resolving
  <2>7. work' = "add" => TotalBytes(window) + Bytes[Head(pending)] <= WindowBytes
    <3>1. CASE window = <<>>
      <4>1. TotalBytes(window) = 0
        BY <3>1, TotalEmpty
      <4>2. Contains(pending, Head(pending))
        BY <1>2, <1>c, ContainsTail DEF Dequeue
      <4>3. Bytes[Head(pending)] <= WindowBytes
        BY <2>1, <4>2, HeldFits DEF BytesInv, Held
      <4> QED BY <2>4, <4>1, <4>3
    <3>2. CASE window # <<>>
      BY <1>a, <1>b, <2>2, <2>4, <2>6, <3>2
    <3> QED BY <3>1, <3>2
  <2>8. CountedWindow'
    BY <2>2, <2>6, <2>7 DEF CountedWindow, Resolving
  <2> QED BY <2>5, <2>8
<1>3. CASE AddToWindow
  <2>1. /\ work = "add" /\ work' \in {"flush", "top"} /\ after' = "top" /\ next' = NoRequest
        /\ window' = Append(window, next) /\ windowBytes' = windowBytes + Bytes[next]
        /\ UNCHANGED <<unresolvedBytes, pending>>
    BY <1>3 DEF AddToWindow
  <2>2. next \in Requests /\ next # NoRequest /\ Bytes[next] \in Nat
    BY <1>0, <2>1, RequestAssumption DEF CommitterInv, Control, NextInHand, TypeOK
  <2>3. TotalBytes(window') = TotalBytes(window) + Bytes[next]
    BY <1>c, <2>1, <2>2, TotalAppend
  <2>4. WindowTotal = TotalBytes(window) /\ WindowTotal' = TotalBytes(window')
    BY <2>1 DEF WindowTotal
  <2>5. InHandTotal = Bytes[next] /\ InHandTotal' = 0
    BY <2>1, <2>2 DEF InHandTotal
  <2>6. CountedBytes'
    BY <1>a, <2>1, <2>2, <2>3, <2>4, <2>5 DEF BytesInv, CountedBytes
  <2>7. windowBytes = TotalBytes(window) /\ TotalBytes(window) + Bytes[next] <= WindowBytes
    BY <2>1 DEF BytesInv, CountedWindow, Resolving
  <2>8. CountedWindow'
    BY <2>1, <2>3, <2>7 DEF CountedWindow, Resolving
  <2> QED BY <2>6, <2>8
<1>4. CASE FlushEmpty
  <2>1. /\ work = "flush" /\ window = <<>> /\ work' = after
        /\ UNCHANGED <<unresolvedBytes, pending, next, window, windowBytes, after>>
    BY <1>4 DEF FlushEmpty
  <2>2. TotalBytes(window) = 0 /\ work' \in {"top", "add", "exit", "done"}
    BY <1>0, <2>1, TotalEmpty DEF TypeOK
  <2>3. CountedBytes'
    BY <2>1, <2>2 DEF BytesInv, CountedBytes, WindowTotal, InHandTotal
  <2>4. windowBytes = TotalBytes(window)
    BY <2>1 DEF BytesInv, CountedWindow, Resolving
  <2>5. work' = "add" => TotalBytes(window) + Bytes[next] <= WindowBytes
    <3> SUFFICES ASSUME after = "add" PROVE TotalBytes(window) + Bytes[next] <= WindowBytes
      BY <2>1
    <3>1. next \in Requests
      BY <1>0, <2>1 DEF CommitterInv, Control, NextInHand, InFlush, TypeOK
    <3>2. Bytes[next] <= WindowBytes /\ Bytes[next] \in Nat
      BY <3>1, HeldFits, RequestAssumption DEF BytesInv, Held
    <3> QED BY <2>2, <3>2
  <2>6. CountedWindow'
    BY <1>b, <2>1, <2>2, <2>4, <2>5 DEF CountedWindow, Resolving
  <2> QED BY <2>3, <2>6
<1>5. CASE Resolve
  <2>1. /\ work = "resolve" /\ work' = "deliver"
        /\ UNCHANGED <<pending, next, window, windowBytes, after>>
        /\ unresolvedBytes' = unresolvedBytes - TotalBytes(window)
    <3>1. CASE window = <<>>
      BY <1>a, <1>5, <3>1, TotalEmpty DEF Resolve
    <3>2. CASE window # <<>>
      BY <1>5, <3>2 DEF Resolve, Release
    <3> QED BY <3>1, <3>2
  <2>2. WindowTotal = TotalBytes(window) /\ WindowTotal' = 0 /\ InHandTotal' = InHandTotal
    BY <2>1 DEF WindowTotal, InHandTotal
  <2>3. CountedBytes'
    BY <1>a, <1>b, <2>1, <2>2 DEF BytesInv, CountedBytes
  <2>4. CountedWindow'
    BY <2>1 DEF BytesInv, CountedWindow, Resolving
  <2> QED BY <2>3, <2>4
<1>6. CASE Deliver
  <2>1. /\ work = "deliver" /\ work' = after /\ window' = <<>> /\ windowBytes' = 0
        /\ UNCHANGED <<unresolvedBytes, pending, next, after>>
    BY <1>6 DEF Deliver
  <2>2. TotalBytes(window') = 0 /\ work' \in {"top", "add", "exit", "done"}
    BY <1>0, <2>1, TotalEmpty DEF TypeOK
  <2>3. CountedBytes'
    BY <2>1, <2>2 DEF BytesInv, CountedBytes, WindowTotal, InHandTotal
  <2>4. work' = "add" => 0 + Bytes[next] <= WindowBytes
    <3> SUFFICES ASSUME after = "add" PROVE 0 + Bytes[next] <= WindowBytes
      BY <2>1
    <3>1. next \in Requests
      BY <1>0, <2>1 DEF CommitterInv, Control, NextInHand, InFlush, TypeOK
    <3>2. Bytes[next] <= WindowBytes /\ Bytes[next] \in Nat
      BY <3>1, HeldFits, RequestAssumption DEF BytesInv, Held
    <3> QED BY <3>2
  <2>5. CountedWindow'
    BY <1>b, <2>1, <2>2, <2>4 DEF CountedWindow, Resolving
  <2> QED BY <2>3, <2>5
<1>7. CASE \/ FoundEmpty \/ FlushCancelled \/ FlushBegins \/ CommitSucceeds \/ CommitFails
           \/ Exit \/ WakeReady \/ WakeTimer \/ WakeCancelled
  <2>1. /\ UNCHANGED <<unresolvedBytes, pending, next, window, windowBytes>>
        /\ work # "deliver" /\ work # "resolve" /\ work' # "deliver" /\ work' # "add"
    BY <1>7 DEF FoundEmpty, StepWhenIdle, FlushCancelled, FlushBegins, CommitSucceeds, CommitFails,
       FailBatch, Exit, WakeReady, WakeTimer, WakeCancelled
  <2>2. CountedBytes'
    BY <2>1 DEF BytesInv, CountedBytes, WindowTotal, InHandTotal
  <2>3. CountedWindow'
    BY <2>1 DEF BytesInv, CountedWindow, Resolving
  <2> QED BY <2>2, <2>3
<1> QED BY <1>1, <1>2, <1>3, <1>4, <1>5, <1>6, <1>7 DEF Run

\* Every step keeps the bytes (admit, add, resolve).
LEMMA BytesStep == CommitterInv /\ HeldInv /\ BytesInv /\ [Next]_vars => BytesInv'
<1> SUFFICES ASSUME CommitterInv, HeldInv, BytesInv, [Next]_vars PROVE BytesInv'
  OBVIOUS
<1> USE DEF muVars, chanVars, callerVars, closerVars, workerVars
<1>1. NobodyOversize'
  BY OversizeStep DEF CommitterInv, BytesInv
<1>2. ASSUME UNCHANGED <<unresolvedBytes, pending, window, next, work, windowBytes, after>>
      PROVE  CountedBytes' /\ CountedWindow'
  BY <1>2 DEF BytesInv, CountedBytes, CountedWindow, WindowTotal, InHandTotal, Resolving
<1>3. ASSUME NEW c \in Closers, Close(c) PROVE CountedBytes' /\ CountedWindow'
  BY <1>2, <1>3 DEF Close, CloseProceeds, CloseFirst, CloseDeadline, CloseSignals, CloseAgain,
     CloseForceSignals, CloseReturns
<1>4. ASSUME TimerFires \/ UNCHANGED vars PROVE CountedBytes' /\ CountedWindow'
  BY <1>2, <1>4 DEF TimerFires, vars
<1>5. CountedBytes' /\ CountedWindow'
  BY <1>3, <1>4, BytesCaller, BytesRun DEF Next
<1> QED BY <1>1, <1>5 DEF BytesInv

\* The sizes of what is held, in one sequence.
LEMMA TotalUnresolved ==
  ASSUME TypeOK PROVE TotalBytes(Unresolved) = WindowTotal + InHandTotal + TotalBytes(pending)
<1> DEFINE kept == IF work = "deliver" THEN <<>> ELSE window
<1>1. kept \in Seq(Requests) /\ pending \in Seq(Requests)
  BY DEF TypeOK
<1>2. TotalBytes(kept) = WindowTotal
  BY TotalEmpty DEF WindowTotal
<1>3. InHand \in Seq(Requests) /\ TotalBytes(InHand) = InHandTotal
  <2>1. CASE next = NoRequest
    BY <2>1, TotalEmpty DEF InHand, InHandTotal
  <2>2. CASE next # NoRequest
    <3>1. next \in Requests
      BY <2>2 DEF TypeOK
    <3> QED BY <2>2, <3>1, TotalOne DEF InHand, InHandTotal
  <2> QED BY <2>1, <2>2
<1>4. Unresolved = kept \o InHand \o pending
  BY DEF Unresolved
<1> HIDE DEF kept
<1>5. kept \o InHand \in Seq(Requests)
  BY <1>1, <1>3
<1>6. TotalBytes(kept \o InHand) = WindowTotal + InHandTotal
  BY <1>1, <1>2, <1>3, TotalConcat
<1>7. TotalBytes((kept \o InHand) \o pending) = TotalBytes(kept \o InHand) + TotalBytes(pending)
  BY <1>1, <1>5, TotalConcat
<1> QED BY <1>4, <1>6, <1>7

\* Neither admission counter ever drifts from the requests really held, what is
\* held stays within the admission limits in number and in size, and every batch
\* handed to the destination within those of the window, for any requests, any
\* sizes and any policy (CommitExport, run, resolve).
THEOREM AccountsAreExact == Spec => []Accounting
<1>1. Init => BytesInv
  <2> SUFFICES ASSUME Init PROVE BytesInv
    OBVIOUS
  <2>1. CountedBytes /\ CountedWindow
    BY TotalEmpty, PolicyAssumption DEF Init, CountedBytes, CountedWindow, WindowTotal, InHandTotal, Resolving
  <2>2. NobodyOversize
    BY DEF Init, NobodyOversize
  <2> QED BY <2>1, <2>2 DEF BytesInv
<1>2. CommitterInv /\ HeldInv /\ BytesInv /\ [Next]_vars => BytesInv'
  BY BytesStep
<1>3. CommitterInv /\ BytesInv => BytesAreExact
  <2> SUFFICES ASSUME CommitterInv, BytesInv PROVE BytesAreExact
    OBVIOUS
  <2>1. TotalBytes(Unresolved) = WindowTotal + InHandTotal + TotalBytes(pending)
    BY TotalUnresolved DEF CommitterInv
  <2>2. unresolvedBytes = TotalBytes(Unresolved) /\ TotalBytes(Unresolved) <= AdmissionBytes
    BY <2>1 DEF BytesInv, CountedBytes
  <2>3. work = "commit" => TotalBytes(window) <= WindowBytes
    BY DEF BytesInv, CountedWindow, Resolving
  <2> QED BY <2>2, <2>3 DEF BytesAreExact
<1>4. Spec => []BytesInv
  BY <1>1, <1>2, HeldInvariant, PTL DEF Spec
<1>5. CountsAreExact /\ BytesAreExact => Accounting
  BY DEF Accounting
<1> QED BY <1>3, <1>4, <1>5, CommitterInvariant, CountsNeverDrift, PTL

-----------------------------------------------------------------------------
(* What a Close may claim *)

\* Some Close reached its deadline.
Forced == \E c \in Closers : close[c] \in {"force", "drain"} \/ "deadline" \in closeResult[c]

\* A failed request is one that waits to be told so, or was told.
Failed(r) == {result[r], returned[r]} \cap {"failed", "cancelled"} # {}

FailuresAreKept ==
    /\ cancelled => Forced \/ work = "done"
    /\ Resolving /\ batchErr # "ok" => commitError # "none" \/ Forced
    /\ \A r \in Requests : Failed(r) => commitError # "none" \/ Forced

ReturnedIsDone ==
    \A c \in Closers :
        /\ close[c] = "returned" => work = "done"
        /\ close[c] = "returned" /\ closeResult[c] = {} => commitError = "none"
        /\ close[c] # "returned" => closeResult[c] = {}

CloseInv == FailuresAreKept /\ ReturnedIsDone

\* Every step keeps what a Close may claim.
LEMMA CloseStep == CommitterInv /\ HeldInv /\ CloseInv /\ [Next]_vars => CloseInv'
<1> SUFFICES ASSUME CommitterInv, HeldInv, CloseInv, [Next]_vars PROVE CloseInv'
  OBVIOUS
<1> USE DEF muVars, chanVars, callerVars, closerVars, workerVars
<1>0. TypeOK
  BY DEF CommitterInv
\* The callers only pass their results on.
<1>1. ASSUME UNCHANGED <<close, closeResult, cancelled, work, batchErr, commitError>>,
             \A r \in Requests : Failed(r)' => Failed(r)
      PROVE  CloseInv'
  BY <1>1 DEF CloseInv, FailuresAreKept, ReturnedIsDone, Forced, Resolving
<1>2. ASSUME NEW r \in Requests, CommitExport(r) PROVE CloseInv'
  <2>1. UNCHANGED <<close, closeResult, cancelled, work, batchErr, commitError>>
    BY <1>2 DEF CommitExport, CallProceeds, StartCall, AdmitClosed, AdmitExpired, Admit, Block,
       BlockedExpires, BlockedRetries, SignalAdmitted, ReceiveResult
  <2>2. ASSUME NEW q \in Requests PROVE Failed(q)' => Failed(q)
    <3>1. CASE StartCall(r) \/ AdmitClosed(r) \/ AdmitExpired(r) \/ BlockedExpires(r)
      BY <1>0, <3>1 DEF StartCall, AdmitClosed, AdmitExpired, BlockedExpires, Return, TypeOK, Failed
    <3>2. CASE Admit(r) \/ Block(r) \/ BlockedRetries(r) \/ SignalAdmitted(r)
      BY <3>2 DEF Admit, Block, BlockedRetries, SignalAdmitted, Failed
    <3>3. CASE ReceiveResult(r)
      BY <1>0, <3>3 DEF ReceiveResult, Return, TypeOK, Failed
    <3> QED BY <1>2, <3>1, <3>2, <3>3 DEF CommitExport, CallProceeds
  <2> QED BY <1>1, <2>1, <2>2
<1>3. ASSUME NEW r \in Requests, CallerContextEnds(r) PROVE CloseInv'
  BY <1>1, <1>3 DEF CallerContextEnds, Failed
<1>4. ASSUME TimerFires \/ UNCHANGED vars PROVE CloseInv'
  BY <1>1, <1>4 DEF TimerFires, vars, Failed
<1>5. ASSUME NEW c \in Closers, Close(c) PROVE CloseInv'
  <2>1. /\ UNCHANGED <<work, batchErr, commitError, result, returned>>
        /\ cancelled' => cancelled \/ close'[c] = "force"
        /\ \A d \in Closers \ {c} : close'[d] = close[d] /\ closeResult'[d] = closeResult[d]
    BY <1>0, <1>5 DEF TypeOK, Close, CloseProceeds, CloseFirst, StopAdmission, CloseDeadline,
       CloseSignals, CloseAgain, CloseForceSignals, CloseReturns
  <2>2. CASE CloseReturns(c)
    <3>1. /\ close'[c] = "returned" /\ work = "done" /\ closeResult[c] = {}
          /\ closeResult'[c] = ({commitError} \ {"none"}) \cup
                               (IF close[c] = "drain" THEN {"deadline"} ELSE {})
      BY <1>0, <2>2 DEF TypeOK, CloseReturns, CloseInv, ReturnedIsDone
    <3>2. closeResult'[c] = {} => commitError = "none"
      BY <3>1
    <3>3. Forced => Forced'
      BY <2>1, <2>2, <3>1 DEF Forced, CloseReturns
    <3>4. ReturnedIsDone'
      BY <2>1, <3>1, <3>2 DEF CloseInv, ReturnedIsDone
    <3> QED BY <2>1, <2>2, <3>3, <3>4 DEF CloseReturns, CloseInv, FailuresAreKept, Resolving, Failed
  <2>3. CASE ~CloseReturns(c)
    <3>1. closeResult'[c] = closeResult[c] /\ close[c] # "returned" /\ close'[c] # "returned"
          /\ (close[c] \in {"force", "drain"} => close'[c] \in {"force", "drain"})
      BY <1>0, <1>5, <2>3 DEF TypeOK, Close, CloseProceeds, CloseFirst, StopAdmission,
         CloseDeadline, CloseSignals, CloseAgain, CloseForceSignals
    <3>2. Forced \/ close'[c] = "force" => Forced'
      BY <2>1, <3>1 DEF Forced
    <3> QED BY <2>1, <3>1, <3>2 DEF CloseInv, FailuresAreKept, ReturnedIsDone, Resolving, Failed
  <2> QED BY <2>2, <2>3
<1>6. ASSUME Run PROVE CloseInv'
  <2>1. work # "done" /\ UNCHANGED <<close, closeResult, returned>> /\ Forced' = Forced
    BY <1>6 DEF Run, Drain, Dequeue, FoundEmpty, AddToWindow, FlushEmpty, FlushCancelled,
       FlushBegins, CommitSucceeds, CommitFails, Resolve, Deliver, Exit, WakeReady, WakeTimer,
       WakeCancelled, Forced
  <2>2. ReturnedIsDone'
    BY <2>1 DEF CloseInv, ReturnedIsDone
  <2>3. /\ cancelled' => cancelled \/ work' = "done"
        /\ commitError # "none" => commitError' # "none"
        /\ \A r \in Requests : Failed(r)' => Failed(r) \/ (Resolving /\ batchErr # "ok")
        /\ Resolving' /\ batchErr' # "ok" =>
              commitError' # "none" \/ cancelled \/ (Resolving /\ batchErr # "ok")
        => CloseInv'
    <3>1. (Resolving => work # "done") /\ (Forced => Forced')
      BY <2>1 DEF Resolving
    <3>2. CloseInv' <=> FailuresAreKept'
      BY <2>2 DEF CloseInv
    <3> QED BY <2>1, <3>1, <3>2 DEF CloseInv, FailuresAreKept
  <2>4. CASE Drain \/ Dequeue \/ FoundEmpty \/ AddToWindow \/ FlushBegins \/ CommitSucceeds
    <3>1. /\ cancelled' => cancelled
          /\ commitError' = commitError
          /\ Resolving' /\ batchErr' # "ok" => cancelled
      BY <2>4 DEF Drain, Dequeue, FoundEmpty, StepWhenIdle, AddToWindow, FlushBegins,
         CommitSucceeds, Resolving
    <3>2. \A r \in Requests : Failed(r)' => Failed(r)
      BY <2>4 DEF Drain, Dequeue, FoundEmpty, AddToWindow, FlushBegins, CommitSucceeds, Failed
    <3> QED BY <2>1, <2>3, <3>1, <3>2
  <2>5. CASE FlushEmpty \/ Resolve \/ WakeReady \/ WakeTimer \/ WakeCancelled
    <3>1. /\ cancelled' => cancelled
          /\ commitError' = commitError
          /\ Resolving' => Resolving /\ batchErr' = batchErr
      BY <1>0, <2>5 DEF FlushEmpty, Resolve, WakeReady, WakeTimer, WakeCancelled, TypeOK, Resolving
    <3>2. \A r \in Requests : Failed(r)' => Failed(r)
      BY <2>5 DEF FlushEmpty, Resolve, WakeReady, WakeTimer, WakeCancelled, Failed
    <3> QED BY <2>1, <2>3, <3>1, <3>2
  <2>6. CASE FlushCancelled \/ CommitFails
    <3>1. (cancelled' => cancelled) /\ commitError' # "none"
      BY <2>6 DEF FlushCancelled, CommitFails, FailBatch
    <3>2. \A r \in Requests : Failed(r)' => Failed(r)
      BY <2>6 DEF FlushCancelled, CommitFails, Failed
    <3> QED BY <2>1, <2>3, <3>1, <3>2
  <2>7. CASE Deliver
    <3>1. /\ Resolving /\ ~Resolving'
          /\ cancelled' => cancelled \/ work' = "done"
          /\ commitError' = commitError
      BY <1>0, <2>7 DEF Deliver, TypeOK, Resolving
    <3>2. ASSUME NEW r \in Requests, Failed(r)' PROVE Failed(r) \/ batchErr # "ok"
      BY <2>1, <2>7, <3>2 DEF Deliver, Failed
    <3> QED BY <2>3, <3>1, <3>2
  <2>8. CASE Exit
    <3>1. /\ ~Resolving /\ ~Resolving'
          /\ cancelled' => cancelled \/ work' = "done"
          /\ commitError' = commitError
      BY <2>8 DEF Exit, Resolving
    <3>2. \A r \in Requests : Failed(r)' => Failed(r)
      BY <2>8 DEF Exit, Failed
    <3> QED BY <2>3, <3>1, <3>2
  <2> QED BY <1>6, <2>2, <2>4, <2>5, <2>6, <2>7, <2>8 DEF Run, CloseInv
<1> QED BY <1>2, <1>3, <1>4, <1>5, <1>6 DEF Next

\* A Close that reports no error, when no Close forced the shutdown, means that
\* every export ever admitted was committed and its caller told so
\* (closeError and recordCommitError).
THEOREM CleanCloseMeansDurable == Spec => []CleanCloseIsDurable
<1>1. Init => CloseInv
  <2> SUFFICES ASSUME Init PROVE CloseInv
    OBVIOUS
  <2>1. ~cancelled /\ work = "top" /\ \A r \in Requests : ~Failed(r)
    BY DEF Init, Failed
  <2> QED BY <2>1 DEF Init, CloseInv, FailuresAreKept, ReturnedIsDone, Resolving
<1>2. CommitterInv /\ HeldInv /\ CloseInv /\ [Next]_vars => CloseInv'
  BY CloseStep
<1>3. CommitterInv /\ HeldInv /\ CloseInv => CleanCloseIsDurable
  <2> SUFFICES ASSUME CommitterInv, HeldInv, CloseInv, NEW c \in Closers,
                      close[c] = "returned", closeResult[c] = {}, ~Forced, NEW r \in Requests
               PROVE  ~Waiting(r) /\ ~Failed(r)
    BY DEF CleanCloseIsDurable, Forced, Failed
  <2>1. work = "done" /\ commitError = "none"
    BY DEF CloseInv, ReturnedIsDone
  <2>2. ~Held(r)
    BY <2>1, ContainsEmpty, RequestAssumption DEF HeldInv, NothingAfterDone, Held
  <2> QED BY <2>1, <2>2 DEF HeldInv, HeldIffWaiting, CloseInv, FailuresAreKept
<1> QED BY <1>1, <1>2, <1>3, HeldInvariant, PTL DEF Spec

-----------------------------------------------------------------------------
(* The refinement of ExportLedger *)

\* The ledger's variables in terms of the committer.
Taken == {r \in Requests : \/ call[r] \in {"signal", "await"}
                           \/ returned[r] \in {"ok", "failed", "cancelled"}}
Committed == {r \in Requests : Contains(durable, r)}
Answer(r) ==
    IF result[r] = "none" /\ returned[r] = "none" THEN "none"
    ELSE IF "ok" \in {result[r], returned[r]} THEN "ok" ELSE "error"

\* The four kinds of ledger steps.
LEMMA LedgerStutters ==
    ASSUME Taken' = Taken, Committed' = Committed, \A r \in Requests : Answer(r)' = Answer(r)
    PROVE  UNCHANGED Ledger!ledgerVars
BY DEF Taken, Committed, Answer, Ledger!ledgerVars

\* Taking an export is a step of the ledger.
LEMMA LedgerTakes ==
    ASSUME NEW r \in Requests, r \notin Taken, Answer(r) = "none", Taken' = Taken \cup {r},
           Committed' = Committed, \A q \in Requests : Answer(q)' = Answer(q)
    PROVE  Ledger!LedgerNext
<1>1. Ledger!Take(r)
  BY DEF Taken, Committed, Answer, Ledger!Take
<1> QED BY <1>1 DEF Ledger!LedgerNext

\* Making a group durable is a step of the ledger.
LEMMA LedgerPersists ==
    ASSUME NEW group \in SUBSET Requests, group # {}, group \subseteq Taken \ Committed,
           \A r \in group : Answer(r) = "none", Committed' = Committed \cup group,
           Taken' = Taken, \A q \in Requests : Answer(q)' = Answer(q)
    PROVE  Ledger!LedgerNext
<1>1. Ledger!Persist(group)
  BY DEF Taken, Committed, Answer, Ledger!Persist
<1> QED BY <1>1 DEF Ledger!LedgerNext

\* Telling a group what became of it is a step of the ledger.
LEMMA LedgerTells ==
    ASSUME NEW group \in SUBSET Requests, group # {}, \A r \in group : Answer(r) = "none",
           \A q \in Requests : Answer(q)' = IF q \notin group THEN Answer(q)
                                            ELSE IF q \in Committed THEN "ok" ELSE "error",
           Taken' = Taken, Committed' = Committed
    PROVE  Ledger!LedgerNext
<1>1. Ledger!Tell(group)
  BY DEF Taken, Committed, Answer, Ledger!Tell
<1> QED BY <1>1 DEF Ledger!LedgerNext

\* Every step of the committer is one of the ledger, or changes nothing of it.
LEMMA LedgerStep ==
    CommitterInv /\ HeldInv /\ [Next]_vars => [Ledger!LedgerNext]_(Ledger!ledgerVars)
<1> SUFFICES ASSUME CommitterInv, HeldInv, [Next]_vars
             PROVE  Ledger!LedgerNext \/ UNCHANGED Ledger!ledgerVars
  OBVIOUS
<1> USE DEF muVars, chanVars, callerVars, closerVars, workerVars
<1>0. TypeOK
  BY DEF CommitterInv
<1>1. ASSUME UNCHANGED <<call, result, returned, durable>>
      PROVE  UNCHANGED Ledger!ledgerVars
  BY <1>1, LedgerStutters DEF Taken, Committed, Answer
\* A call that was refused is told an error for an export never taken.
<1>2. ASSUME NEW r \in Requests, NEW outcome \in {"oversize", "closed", "expired"},
             call[r] \in {"new", "admit", "blocked"}, Return(r, outcome), UNCHANGED <<result, durable>>
      PROVE  Ledger!LedgerNext
  <2>1. result[r] = "none" /\ returned[r] = "none" /\ ~Contains(durable, r)
    BY <1>2, NotWaiting
  <2>2. Committed' = Committed /\ r \notin Committed
    BY <1>2, <2>1 DEF Committed
  <2>3. Taken' = Taken
    BY <1>0, <1>2, <2>1 DEF Taken, Return, TypeOK
  <2>4. \A q \in Requests : Answer(q)' = IF q \notin {r} THEN Answer(q)
                                         ELSE IF q \in Committed THEN "ok" ELSE "error"
    BY <1>0, <1>2, <2>1, <2>2 DEF Answer, Return, TypeOK
  <2>5. Answer(r) = "none"
    BY <2>1 DEF Answer
  <2> QED BY <2>2, <2>3, <2>4, <2>5, LedgerTells
<1>3. ASSUME NEW r \in Requests, StartCall(r) PROVE Ledger!LedgerNext \/ UNCHANGED Ledger!ledgerVars
  <2>1. CASE Return(r, "oversize")
    BY <1>2, <1>3, <2>1 DEF StartCall
  <2>2. CASE call' = [call EXCEPT ![r] = "admit"] /\ UNCHANGED returned
    BY <1>0, <1>3, <2>2, LedgerStutters DEF StartCall, TypeOK, Taken, Committed, Answer
  <2> QED BY <1>3, <2>1, <2>2 DEF StartCall
<1>4. ASSUME NEW r \in Requests, CallProceeds(r)
      PROVE  Ledger!LedgerNext \/ UNCHANGED Ledger!ledgerVars
  <2>1. CASE AdmitClosed(r)
    BY <1>2, <2>1 DEF AdmitClosed
  <2>2. CASE AdmitExpired(r)
    BY <1>2, <2>2 DEF AdmitExpired
  <2>3. CASE BlockedExpires(r)
    BY <1>2, <2>3 DEF BlockedExpires
  <2>4. CASE Admit(r)
    <3>1. result[r] = "none" /\ returned[r] = "none"
      BY <2>4, NotWaiting DEF Admit
    <3>2. r \notin Taken /\ Taken' = Taken \cup {r}
      BY <1>0, <2>4, <3>1 DEF Taken, Admit, TypeOK
    <3>3. Committed' = Committed /\ Answer(r) = "none" /\ \A q \in Requests : Answer(q)' = Answer(q)
      BY <2>4, <3>1 DEF Admit, Committed, Answer
    <3> QED BY <3>2, <3>3, LedgerTakes
  <2>5. CASE Block(r) \/ BlockedRetries(r) \/ SignalAdmitted(r)
    <3>1. Taken' = Taken
      BY <1>0, <2>5 DEF Taken, Block, BlockedRetries, SignalAdmitted, TypeOK
    <3>2. Committed' = Committed /\ \A q \in Requests : Answer(q)' = Answer(q)
      BY <2>5 DEF Block, BlockedRetries, SignalAdmitted, Committed, Answer
    <3> QED BY <3>1, <3>2, LedgerStutters
  \* The result moves from its channel to the caller.
  <2>6. CASE ReceiveResult(r)
    <3>1. returned[r] = "none" /\ result[r] \in {"ok", "failed", "cancelled"}
      BY <1>0, <2>6 DEF ReceiveResult, TypeOK
    <3>2. /\ call' = [call EXCEPT ![r] = "returned"] /\ returned' = [returned EXCEPT ![r] = result[r]]
          /\ result' = [result EXCEPT ![r] = "none"] /\ durable' = durable /\ call[r] = "await"
      BY <2>6 DEF ReceiveResult, Return
    <3>3. Taken' = Taken
      BY <1>0, <3>1, <3>2 DEF Taken, TypeOK
    <3>4. Committed' = Committed /\ \A q \in Requests : Answer(q)' = Answer(q)
      BY <1>0, <3>1, <3>2 DEF Committed, Answer, TypeOK
    <3> QED BY <3>3, <3>4, LedgerStutters
  <2> QED BY <1>4, <2>1, <2>2, <2>3, <2>4, <2>5, <2>6 DEF CallProceeds
<1>5. ASSUME NEW r \in Requests, CallerContextEnds(r) PROVE UNCHANGED Ledger!ledgerVars
  BY <1>1, <1>5 DEF CallerContextEnds
<1>6. ASSUME NEW c \in Closers, Close(c) PROVE UNCHANGED Ledger!ledgerVars
  BY <1>1, <1>6 DEF Close, CloseProceeds, CloseFirst, CloseDeadline, CloseSignals, CloseAgain,
     CloseForceSignals, CloseReturns
<1>7. ASSUME TimerFires \/ UNCHANGED vars PROVE UNCHANGED Ledger!ledgerVars
  BY <1>1, <1>7 DEF TimerFires, vars
\* The whole window becomes durable at once.
<1>8. ASSUME CommitSucceeds PROVE Ledger!LedgerNext
  <2> DEFINE group == {q \in Requests : Contains(window, q)}
  <2>1. window \in Seq(Requests) /\ durable \in Seq(Requests) /\ window # <<>> /\ ~Resolving
    BY <1>0, <1>8 DEF TypeOK, CommitSucceeds, HeldInv, BatchIsKnown, Resolving
  <2>2. group # {}
    <3>1. Contains(window, Head(window)) /\ Head(window) \in Requests
      BY <2>1, ContainsTail, HeadTailProperties
    <3> QED BY <3>1
  <2>3. \A q \in group : call[q] \in {"signal", "await"} /\ result[q] = "none" /\ returned[q] = "none"
    BY <1>0 DEF HeldInv, HeldIffWaiting, Held, Waiting, TypeOK
  <2>4. group \subseteq Taken \ Committed /\ \A q \in group : Answer(q) = "none"
    BY <2>1, <2>3 DEF Taken, Committed, Answer, HeldInv, DurableIsOk
  <2>5. Committed' = Committed \cup group
    BY <1>8, <2>1, ContainsConcat DEF CommitSucceeds, PersistBatch, Committed
  <2>6. Taken' = Taken /\ \A q \in Requests : Answer(q)' = Answer(q)
    BY <1>8 DEF CommitSucceeds, Taken, Answer
  <2> HIDE DEF group
  <2>7. group \in SUBSET Requests
    BY DEF group
  <2> QED BY <2>2, <2>4, <2>5, <2>6, <2>7, LedgerPersists
\* Everybody in the window is told what became of it.
<1>9. ASSUME Deliver PROVE Ledger!LedgerNext \/ UNCHANGED Ledger!ledgerVars
  <2> DEFINE group == {q \in Requests : Contains(window, q)}
  <2>1. Resolving /\ batchErr \in {"ok", "failed", "cancelled"}
    BY <1>0, <1>9 DEF Deliver, TypeOK, Resolving, HeldInv, BatchIsKnown
  <2>2. \A q \in group : call[q] \in {"signal", "await"} /\ result[q] = "none" /\ returned[q] = "none"
    BY <1>0 DEF HeldInv, HeldIffWaiting, Held, Waiting, TypeOK
  <2>3. \A q \in group : q \in Committed <=> batchErr = "ok"
    BY <2>1, <2>2 DEF Committed, HeldInv, DurableIsOk
  <2>4. \A q \in Requests : Answer(q)' = IF q \notin group THEN Answer(q)
                                         ELSE IF q \in Committed THEN "ok" ELSE "error"
    <3> SUFFICES ASSUME NEW q \in Requests
                 PROVE  Answer(q)' = IF q \notin group THEN Answer(q)
                                     ELSE IF q \in Committed THEN "ok" ELSE "error"
      OBVIOUS
    <3>1. result'[q] = (IF q \in group THEN batchErr ELSE result[q]) /\ returned'[q] = returned[q]
      BY <1>9 DEF Deliver
    <3> HIDE DEF group
    <3> QED BY <2>1, <2>2, <2>3, <3>1 DEF Answer
  <2>5. Taken' = Taken /\ Committed' = Committed
    BY <1>9 DEF Deliver, Taken, Committed
  <2>6. \A q \in group : Answer(q) = "none"
    BY <2>2 DEF Answer
  <2>7. group \in SUBSET Requests
    OBVIOUS
  <2> HIDE DEF group
  <2>8. CASE group = {}
    BY <2>4, <2>5, <2>8, LedgerStutters
  <2>9. CASE group # {}
    BY <2>4, <2>5, <2>6, <2>7, <2>9, LedgerTells
  <2> QED BY <2>8, <2>9
<1>10. ASSUME Run, ~CommitSucceeds, ~Deliver PROVE UNCHANGED Ledger!ledgerVars
  BY <1>1, <1>10 DEF Run, Drain, Dequeue, FoundEmpty, AddToWindow, FlushEmpty, FlushCancelled,
     FlushBegins, CommitFails, Resolve, Exit, WakeReady, WakeTimer, WakeCancelled
<1> QED BY <1>3, <1>4, <1>5, <1>6, <1>7, <1>8, <1>9, <1>10 DEF Next, CommitExport

\* The committer implements the ledger: exports become durable in atomic
\* batches of admitted ones, and every caller gets one answer, "ok" exactly for
\* what is durable, for any requests, sizes, policies and closers.
THEOREM CommitterKeepsTheLedger == Spec => ImplementsLedger
<1>1. Init => Ledger!LedgerInit
  BY ContainsEmpty DEF Init, Ledger!LedgerInit
<1>2. CommitterInv /\ HeldInv /\ [Next]_vars => [Ledger!LedgerNext]_(Ledger!ledgerVars)
  BY LedgerStep
<1> QED BY <1>1, <1>2, HeldInvariant, PTL DEF Spec, ImplementsLedger, Ledger!LedgerSpec

=============================================================================
