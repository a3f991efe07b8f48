---------------------------- MODULE ProjectionFeed ----------------------------
(***************************************************************************)
(* The projection feed of the store and one WatchProjectionChanges stream   *)
(* that reads it.                                                           *)
(*                                                                         *)
(* Every transaction that changes what queries show appends one row to the  *)
(* feed: the targets it touched.  A watcher sends its subscriber windows of *)
(* rows, and sleeps on a channel the writer closes after its commit.  Rows  *)
(* are pruned; a subscriber that fell behind them, or whose position belongs*)
(* to a database that was replaced, is told to reload what it shows.        *)
(*                                                                         *)
(* A target is one session or trace, or the coarse target that stands for a *)
(* whole kind of them.  A position is a generation, the identity of the     *)
(* database file, and a sequence in its feed.                               *)
(***************************************************************************)
EXTENDS Integers, Sequences, FiniteSets, FiniteSetsExt, SequencesExt

CONSTANTS
    Targets,        \* the sessions and traces
    Kinds,          \* the kinds of targets; a kind is also the coarse target of its kind
    KindOf,         \* the kind of every target
    Changes,        \* the sets of targets that one commit may touch
    CommitLimit,    \* rows in one window
    TargetLimit,    \* targets in one window, before they are made coarse
    RetainEvery,    \* the feed is pruned at every sequence divisible by this
    Retained,       \* the rows a pruning keeps
    MaxCommits,     \* bound: rows ever appended
    MaxGeneration   \* bound: databases ever installed

ASSUME FeedAssumption ==
    /\ KindOf \in [Targets -> Kinds]
    /\ Changes \subseteq (SUBSET (Targets \cup Kinds)) \ {{}}
    /\ IsFiniteSet(Kinds)
    /\ \A targets \in Changes : IsFiniteSet(targets)
    /\ {CommitLimit, TargetLimit, RetainEvery, Retained, MaxGeneration} \subseteq Nat \ {0}
    /\ MaxCommits \in Nat

VARIABLES
    log,            \* every row ever appended, over all databases
    base,           \* the length of log when a generation began
    generation,     \* the generation of the installed database
    first,          \* the earliest sequence the feed retains
    unsignalled,    \* a commit whose writer has not signalled yet
    watch,          \* the watch handler, and whether the channel it took has been closed
    wire            \* the window that is sent and not received, if any

feedVars == <<log, base, generation, first, unsignalled>>
streamVars == <<watch, wire>>

-----------------------------------------------------------------------------
(* Positions and targets *)

Position == [generation : 0..MaxGeneration, sequence : 0..(MaxCommits + MaxGeneration)]

\* The empty cursor of a client that has no position yet.
NoCursor == [generation |-> 0, sequence |-> 0]

\* The newest position of the feed.
Current == [generation |-> generation, sequence |-> Len(log) - base[generation]]

\* Where a position lies among all the rows.
Absolute(position) == base[position.generation] + position.sequence

Kind(target) == IF target \in Kinds THEN target ELSE KindOf[target]

\* The set that stands for the targets of set once all of their kinds are made coarse.
Coarse(set) == {Kind(target) : target \in set}

\* One target added to a window: a coarse one replaces those of its kind, and
\* a kind or a window with too many targets is made coarse.
AddToWindow(target, set) ==
    LET added == set \cup {target}
        ofKind == {other \in added : Kind(other) = Kind(target)}
        narrowed == IF Cardinality(ofKind) > TargetLimit
                      THEN (added \ ofKind) \cup {Kind(target)}
                      ELSE added
    IN  IF target \in Kinds THEN {other \in added : other = target \/ Kind(other) # target}
        ELSE IF Kind(target) \in set THEN set
        ELSE IF Cardinality(narrowed) > TargetLimit THEN Coarse(narrowed)
        ELSE narrowed

\* The targets of the retained rows after one position and up to another.
WindowTargets(from, to) ==
    LET start == Max({Absolute(from) + 1, base[generation] + first})
    IN  FoldLeft(LAMBDA set, row : FoldSet(AddToWindow, set, row), {}, SubSeq(log, start, Absolute(to)))

\* No handler runs.
Closed == [pc |-> "off", position |-> NoCursor, closed |-> FALSE]

Window(targets, through, resync) == [targets |-> targets, through |-> through, resync |-> resync]

-----------------------------------------------------------------------------
FeedInit ==
    /\ log = <<>>
    /\ base = [g \in 0..MaxGeneration |-> 0]
    /\ generation = 1
    /\ first = 1
    /\ unsignalled = FALSE
    /\ watch = Closed
    /\ wire = <<>>

(* The writer: it holds the write gate from its commit to its signal. *)

\* Rows that a pruning at this sequence leaves.
FirstRetained(sequence) ==
    IF sequence % RetainEvery = 0 THEN Max({first, sequence - Retained + 1}) ELSE first

Commit(targets) ==
    /\ ~unsignalled
    /\ Len(log) < MaxCommits
    /\ log' = Append(log, targets)
    /\ first' = FirstRetained(Current.sequence + 1)
    /\ unsignalled' = TRUE
    /\ UNCHANGED <<base, generation, streamVars>>

\* It closes the channel that waiters have taken, and leaves a new one.
Signal ==
    /\ unsignalled
    /\ unsignalled' = FALSE
    /\ watch' = [watch EXCEPT !.closed = watch.pc \in {"second", "wait"}]
    /\ UNCHANGED <<log, base, generation, first, wire>>

-----------------------------------------------------------------------------
(* The watch handler *)

Goto(pc) == watch' = [watch EXCEPT !.pc = pc]

Send(window) == wire' = <<window>>

\* The last message of a stream: reload everything, and go on from here.
SendResync ==
    /\ Send(Window({}, Current, TRUE))
    /\ watch' = Closed

\* A subscriber without a position is told to load everything once.
Begin ==
    /\ watch.pc = "begin"
    /\ IF watch.position = NoCursor
         THEN /\ Send(Window(Kinds, Current, FALSE))
              /\ watch' = [watch EXCEPT !.pc = "check", !.position = Current]
         ELSE /\ Goto("check")
              /\ UNCHANGED wire
    /\ UNCHANGED feedVars

\* ValidateProjectionPosition, then wait if there is nothing new.
Check ==
    /\ watch.pc = "check"
    /\ IF \/ watch.position.generation # generation
          \/ watch.position.sequence > Current.sequence
         THEN SendResync
         ELSE /\ Goto(IF watch.position = Current THEN "take" ELSE "read")
              /\ UNCHANGED wire
    /\ UNCHANGED feedVars

\* WaitForProjectionChange takes the channel first ...
TakeChannel ==
    /\ watch.pc = "take"
    /\ watch' = [watch EXCEPT !.pc = "second", !.closed = FALSE]
    /\ UNCHANGED <<feedVars, wire>>

\* ... and looks again before it sleeps on it.
\* Fault: it sleeps at once.
SleepAtOnce ==
    /\ watch.pc = "second"
    /\ Goto("wait")
    /\ UNCHANGED <<feedVars, wire>>
CheckAgain ==
    /\ watch.pc = "second"
    /\ watch' = IF watch.position = Current
                   THEN [watch EXCEPT !.pc = "wait"]
                   ELSE [watch EXCEPT !.pc = "read", !.closed = FALSE]
    /\ UNCHANGED <<feedVars, wire>>

WakeUp ==
    /\ watch.pc = "wait"
    /\ watch.closed
    /\ watch' = [watch EXCEPT !.pc = "read", !.closed = FALSE]
    /\ UNCHANGED <<feedVars, wire>>

\* The rows after the position are no longer all there.
\* Fault: one row too few is counted.
ExpiredLater == watch.position.sequence < first - 2
Expired == watch.position.sequence < first - 1

ReadWindow ==
    LET through == [watch.position EXCEPT
                      !.sequence = Min({@ + CommitLimit, Current.sequence})]
    IN  /\ watch.pc = "read"
        /\ IF Expired THEN SendResync
           ELSE IF through = watch.position
             THEN /\ Goto("check")
                  /\ UNCHANGED wire
             ELSE /\ Send(Window(WindowTargets(watch.position, through), through, FALSE))
                  /\ watch' = [watch EXCEPT !.pc = "check", !.position = through]
        /\ UNCHANGED feedVars

\* The handler's loop.  It is taken up again when the window it sent was
\* received: what a handler does earlier than that, its subscriber cannot tell
\* from what it does after.
HandlerStep ==
    /\ wire = <<>>
    /\ (Begin \/ Check \/ TakeChannel \/ CheckAgain \/ WakeUp \/ ReadWindow)

\* The connection is gone; the window on its way may still arrive.
Disconnect ==
    /\ watch.pc # "off"
    /\ wire' \in {wire, <<>>}
    /\ watch' = Closed

\* The service is started again, perhaps over a database rebuilt by a
\* compaction, whose replay has filled a feed of its own.
RestartFeed(rebuilt) ==
    /\ rebuilt => generation < MaxGeneration
    /\ generation' = IF rebuilt THEN generation + 1 ELSE generation
    /\ log' = IF rebuilt THEN Append(log, Kinds) ELSE log
    /\ base' = IF rebuilt THEN [base EXCEPT ![generation + 1] = Len(log)] ELSE base
    /\ first' = IF rebuilt THEN 1 ELSE first
    /\ unsignalled' = FALSE

-----------------------------------------------------------------------------
\* A handler never sleeps through a change: when it waits behind the feed, the
\* channel it waits on has been closed, or the writer that committed is about
\* to close it (projection_feed.go:453-473).
WaiterIsSignalled ==
    (watch.pc = "wait" /\ watch.position # Current) => (watch.closed \/ unsignalled)
=============================================================================
