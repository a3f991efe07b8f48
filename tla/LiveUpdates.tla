----------------------------- MODULE LiveUpdates -----------------------------
(***************************************************************************)
(* How the web interface follows the projection feed.                       *)
(*                                                                         *)
(* The live update controller keeps one watch stream open, collects the     *)
(* targets of its windows, and hands them to the views in render windows    *)
(* that a timer closes.  A view that is affected reads its data again; when *)
(* all of them have, the controller acknowledges the position its stream    *)
(* resumes from.  Views come and go meanwhile, change what they ask for, and *)
(* fail; the stream breaks and the service restarts.                        *)
(*                                                                         *)
(* The views are the session list and the trace catalog.  What a view shows *)
(* is the newest feed row, of those it depends on, that its data includes.  *)
(***************************************************************************)
EXTENDS ProjectionFeed

CONSTANTS
    Views,          \* the views of the page
    Reads,          \* the kinds of targets every view depends on
    Catalogs,       \* the views that keep a failed read to themselves: the trace catalog
    Mishaps,        \* of {"fault", "break", "restart", "rebuild"}
    MaxMishaps,     \* bound: mishaps in a behaviour
    MaxMoves,       \* bound: what the user does with the page
    FirstPage       \* the view the address names

ASSUME ViewAssumption ==
    /\ Reads \in [Views -> SUBSET Kinds]
    /\ Catalogs \subseteq Views
    /\ Mishaps \subseteq {"fault", "break", "restart", "rebuild"}
    /\ {MaxMishaps, MaxMoves} \subseteq Nat

VARIABLES
    started,        \* the controller has not been stopped
    cursor,         \* the acknowledged position
    through,        \* the newest position received
    pending,        \* targets received and not handed to the views
    resync,         \* a reload was asked for and not handed to the views
    timer,          \* the render timer is running
    applying,       \* the render window the views are working on, or NoWindow
    view,           \* what every view shows, and its read
    page,           \* the view in front of the user
    mishaps, moves,
    acknowledged    \* history: the newest place of the feed ever acknowledged

cursorVars == <<cursor, acknowledged>>
controllerVars == <<started, cursorVars, through, pending, resync, timer, applying>>
boundVars == <<mishaps, moves>>
vars == <<feedVars, streamVars, controllerVars, view, page, boundVars>>

NoWindow == [targets |-> {}, resync |-> FALSE, through |-> NoCursor, waiting |-> {}]

Idle == applying = NoWindow

ASSUME PageAssumption == FirstPage \in Views

-----------------------------------------------------------------------------
(* Views *)

Affected(v, targets) == \E target \in targets : Kind(target) \in Reads[v]

\* The newest row, up to one place of the feed, that a view depends on.
Needed(v, place) == Max({0} \cup {i \in 1..place : Affected(v, log[i])})

Reading(state) == [state EXCEPT !.request = "sent", !.failed = FALSE, !.stale = FALSE]

\* A view that has not read anything for the present query.
Unread == [stale |-> TRUE, request |-> "none", seen |-> 0, shown |-> 0, failed |-> FALSE]

\* Views that read again: the one in front replaces the read it has under way,
\* a hidden one remembers that it has to.
\* Fault: a hidden view ignores the window.
RefreshedInFront(vs) ==
    [v \in Views |-> IF v \in vs \cap {page} THEN Reading(view[v]) ELSE view[v]]
Refreshed(vs) ==
    [v \in Views |-> IF v \notin vs THEN view[v]
                     ELSE IF v = page THEN Reading(view[v])
                     ELSE [view[v] EXCEPT !.stale = TRUE]]

\* The reads of views that end without an answer.
Failing(vs) ==
    [v \in Views |-> IF v \in vs THEN [view[v] EXCEPT !.request = "none", !.seen = 0, !.failed = TRUE]
                     ELSE view[v]]

Init ==
    /\ FeedInit
    /\ started = TRUE
    /\ cursor = NoCursor
    /\ acknowledged = Absolute(NoCursor)
    /\ through = NoCursor
    /\ pending = {}
    /\ resync = FALSE
    /\ timer = FALSE
    /\ applying = NoWindow
    /\ page = FirstPage
    /\ view = [v \in Views |-> IF v = page THEN Reading(Unread) ELSE Unread]
    /\ mishaps = 0
    /\ moves = 0

-----------------------------------------------------------------------------
(* The controller *)

\* It resumes from its cursor, some time after a stream ended or broke and its
\* last window was received.
Connect ==
    /\ started
    /\ wire = <<>>
    /\ watch.pc = "off"
    /\ watch' = [pc |-> "begin", position |-> cursor, closed |-> FALSE]
    /\ UNCHANGED <<feedVars, wire, controllerVars, view, page, boundVars>>

\* One received target: nothing if its kind is pending already, and the kinds
\* alone once there are too many.
AddTarget(target, set) ==
    IF Kind(target) \in set THEN set
    ELSE IF Cardinality(set \cup {target}) <= TargetLimit THEN set \cup {target}
    ELSE Coarse(set \cup {target})

AddTargets(targets, set) == FoldSet(AddTarget, set, targets)

\* Every window holds targets or asks for a reload, so each starts the timer,
\* and the timer never fires with nothing to hand over.
Receive ==
    /\ wire # <<>>
    /\ LET window == Head(wire) IN
         /\ through' = window.through
         /\ resync' = (resync \/ window.resync)
         /\ pending' = AddTargets(window.targets, pending) \cup (IF window.resync THEN Kinds ELSE {})
    /\ wire' = Tail(wire)
    /\ timer' = TRUE
    /\ UNCHANGED <<feedVars, watch, started, cursorVars, applying, view, page, boundVars>>

\* What is left to do after a window starts the timer again.
\* Fault: the end of a window leaves the timer alone.
LeaveTimer == UNCHANGED timer
Reschedule == timer' = (timer \/ pending' # {} \/ resync' \/ through # cursor')

\* The stream resumes from this position, which may be older than one that was
\* acknowledged before: that of a window received again after a reconnect.
ResumeFrom(position) ==
    /\ cursor' = position
    /\ acknowledged' = Max({acknowledged, Absolute(position)})

\* The views have all applied the window: its position is acknowledged.
Acknowledge(window) ==
    /\ ResumeFrom(window.through)
    /\ applying' = NoWindow
    /\ UNCHANGED <<pending, resync>>
    /\ Reschedule

\* A view has refused the window: its targets are pending again.
\* Fault: they are dropped.
Drop(window) ==
    /\ applying' = NoWindow
    /\ UNCHANGED <<cursorVars, pending, resync>>
    /\ Reschedule
GiveBack(window) ==
    /\ pending' = AddTargets(window.targets, pending)
    /\ resync' = (resync \/ window.resync)
    /\ applying' = NoWindow
    /\ UNCHANGED cursorVars
    /\ Reschedule

\* The window that is being applied no longer waits for these views, some of
\* which refused it; the first refusal ends it, and so does the last success.
Release(vs, refused) ==
    LET window == [applying EXCEPT !.waiting = @ \ vs]
    IN  CASE Idle -> UNCHANGED <<cursorVars, pending, resync, timer, applying>>
          [] ~Idle /\ applying.waiting \cap refused # {} -> GiveBack(window)
          [] ~Idle /\ applying.waiting \cap refused = {} /\ window.waiting = {} -> Acknowledge(window)
          [] OTHER -> applying' = window /\ UNCHANGED <<cursorVars, pending, resync, timer>>

\* The render timer fires while a window is being applied: nothing is done, and
\* the end of that window starts the timer again.
FlushNothing ==
    /\ timer
    /\ ~Idle
    /\ timer' = FALSE
    /\ UNCHANGED <<feedVars, streamVars, started, cursorVars, through, pending, resync, applying, view, page, boundVars>>

\* The render timer hands what is pending to the views.  A hidden view does not
\* delay the window, but a session list that had failed before it was hidden
\* refuses it.
Flush ==
    LET affected == {v \in Views : resync \/ Affected(v, pending)}
        window == [targets |-> pending, resync |-> resync, through |-> through,
                   waiting |-> affected \cap {page}]
        refused == \E v \in affected \ ({page} \cup Catalogs) : view[v].failed
    IN  /\ timer
        /\ Idle
        /\ view' = Refreshed(affected)
        /\ IF refused
             THEN UNCHANGED <<cursorVars, pending, resync, timer, applying>>
             ELSE /\ pending' = {}
                  /\ resync' = FALSE
                  /\ IF window.waiting = {}
                       THEN applying' = NoWindow /\ ResumeFrom(through)
                       ELSE applying' = window /\ UNCHANGED cursorVars
                  /\ timer' = FALSE
        /\ UNCHANGED <<feedVars, streamVars, started, through, page, boundVars>>

-----------------------------------------------------------------------------
(* The reads of the views *)

\* The store answers a read from the state it is in.
ServeRead(v) ==
    /\ view[v].request = "sent"
    /\ view' = [view EXCEPT ![v].request = "read", ![v].seen = Needed(v, Len(log))]
    /\ UNCHANGED <<feedVars, streamVars, controllerVars, page, boundVars>>

ShowAnswer(v) ==
    /\ view[v].request = "read"
    /\ view' = [view EXCEPT ![v].request = "none", ![v].seen = 0,
                            ![v].shown = view[v].seen, ![v].failed = FALSE]
    /\ Release({v}, {})
    /\ UNCHANGED <<feedVars, streamVars, started, through, page, boundVars>>

-----------------------------------------------------------------------------
(* The user *)

Move ==
    /\ moves < MaxMoves
    /\ moves' = moves + 1
    /\ UNCHANGED <<feedVars, mishaps>>

\* Another page comes to the front.  The view that is left goes on with its
\* read; the one that comes back reads what it missed, and the trace catalog
\* also repeats a read that failed.
Navigate(next) ==
    LET again == {v \in {next} : view[v].stale \/ (v \in Catalogs /\ view[v].failed)}
    IN  /\ started
        /\ next # page
        /\ page' = next
        /\ view' = [v \in Views |-> IF v \in again THEN Reading(view[v]) ELSE view[v]]
        /\ Release(again, {})
        /\ UNCHANGED <<streamVars, started, through>>
        /\ Move

\* Another range or source: every view drops its rows and the read that was
\* under way, and the one in front reads again.
Refilter ==
    /\ started
    /\ view' = [v \in Views |-> IF v = page THEN Reading(Unread) ELSE Unread]
    /\ Release(Views, {})
    /\ UNCHANGED <<streamVars, started, through, page>>
    /\ Move

\* The page is taken down: stop() forgets what it has not handed over, and the
\* window that is being applied no longer counts.
Stop ==
    /\ started
    /\ started' = FALSE
    /\ watch' = Closed
    /\ wire' = <<>>
    /\ pending' = {}
    /\ resync' = FALSE
    /\ timer' = FALSE
    /\ through' = cursor
    /\ applying' = NoWindow
    /\ view' = [v \in Views |-> [view[v] EXCEPT !.request = "none", !.seen = 0]]
    /\ UNCHANGED <<cursorVars, page>>
    /\ Move

\* The page is put up again: it resumes from its cursor, and every view reads.
Start ==
    /\ ~started
    /\ started' = TRUE
    /\ view' = Refreshed(Views)
    /\ UNCHANGED <<feedVars, streamVars, cursorVars, through, pending, resync, timer, applying, page, boundVars>>

UserStep == (\E next \in Views : Navigate(next)) \/ Refilter \/ Stop \/ Start

-----------------------------------------------------------------------------
(* Mishaps *)

Mishap(kind) ==
    /\ kind \in Mishaps
    /\ mishaps < MaxMishaps
    /\ mishaps' = mishaps + 1
    /\ UNCHANGED <<moves, started, through, page>>

\* A read fails.  The session list refuses the window it was part of.
ReadFails(v) ==
    /\ view[v].request # "none"
    /\ view' = Failing({v})
    /\ Release({v}, {v} \ Catalogs)
    /\ UNCHANGED <<feedVars, streamVars>>
    /\ Mishap("fault")

StreamBreaks ==
    /\ Disconnect
    /\ UNCHANGED <<feedVars, cursorVars, pending, resync, timer, applying, view>>
    /\ Mishap("break")

\* The service goes down and comes back: its stream breaks, and the reads it
\* had not answered fail.
ServiceRestarts ==
    LET unanswered == {v \in Views : view[v].request = "sent"}
    IN  /\ Disconnect \/ (watch.pc = "off" /\ UNCHANGED streamVars)
        /\ view' = Failing(unanswered)
        /\ Release(unanswered, unanswered \ Catalogs)
        /\ \E rebuilt \in BOOLEAN :
             /\ RestartFeed(rebuilt)
             /\ Mishap(IF rebuilt THEN "rebuild" ELSE "restart")

Next ==
    \/ (\E targets \in Changes : Commit(targets)) /\ UNCHANGED <<controllerVars, view, page, boundVars>>
    \/ Signal /\ UNCHANGED <<controllerVars, view, page, boundVars>>
    \/ HandlerStep /\ UNCHANGED <<controllerVars, view, page, boundVars>>
    \/ Connect \/ Receive \/ FlushNothing \/ Flush
    \/ \E v \in Views : ServeRead(v) \/ ShowAnswer(v) \/ ReadFails(v)
    \/ UserStep
    \/ StreamBreaks
    \/ ServiceRestarts

Spec == Init /\ [][Next]_vars

\* Nobody has to commit, move or fail.  The rest goes on by itself: the writer
\* signals what it committed, the handler's loop and the browser's event loop
\* run, timers fire, and an unhindered read is answered.
Fairness ==
    /\ WF_vars(Signal /\ UNCHANGED <<controllerVars, view, page, boundVars>>)
    /\ WF_vars(HandlerStep /\ UNCHANGED <<controllerVars, view, page, boundVars>>)
    /\ WF_vars(Connect)
    /\ WF_vars(Receive)
    /\ WF_vars(FlushNothing \/ Flush)
    /\ \A v \in Views : WF_vars(ServeRead(v)) /\ WF_vars(ShowAnswer(v))

FairSpec == Spec /\ Fairness

-----------------------------------------------------------------------------
(* Properties *)

\* What a view will show when its read under way has ended.
Showing(v) ==
    CASE view[v].request = "none" -> view[v].shown
      [] view[v].request = "sent" -> Len(log)
      [] view[v].request = "read" -> view[v].seen

\* The position the stream resumes from is never ahead of what the page shows:
\* whatever breaks, restarts, falls behind the retained rows or is superseded,
\* a view in front of the user that reports no error shows, or is loading,
\* every change up to the acknowledged cursor
\* (live-update-controller.ts:101-134, projection_feed.go:407-448).
AcknowledgedIsShown ==
    \A v \in Views :
      (started /\ v = page /\ ~view[v].failed) => Showing(v) >= Needed(v, Absolute(cursor))

\* A view that is hidden and up to date, by its own account, is not behind the
\* cursor either, so coming back to it shows nothing old
\* (session-list-controller.ts:36-64, trace-catalog.ts:70-100).
HiddenIsStaleOrCurrent ==
    \A v \in Views :
      (started /\ v # page /\ ~view[v].stale /\ ~view[v].failed)
        => Showing(v) >= Needed(v, Absolute(cursor))

\* A position is acknowledged only after the views that had to apply its window
\* have applied it (live-telemetry-updates.md:98-100: "A frontend cursor is
\* acknowledged only after every mounted affected projection applies the window
\* successfully").
AcknowledgedIsApplied ==
    [][(~Idle /\ applying' = NoWindow /\ cursor' # cursor) =>
         \A v \in applying.waiting : ~view'[v].failed]_vars

\* No change the controller received gets lost between the stream and the
\* views: until a position at or after it has been acknowledged once, it is
\* pending or in the window being applied, also when a view refused the window
\* that held it; and what is collected, or sent in one window, stays within the
\* target limit, however far the client is behind
\* (live-update-controller.ts:65-77, 101-134).
ReceivedIsKept ==
    /\ started =>
          \A i \in (acknowledged + 1)..Absolute(through) :
            \/ resync \/ applying.resync
            \/ \A target \in log[i] :
                 {target, Kind(target)} \cap (pending \cup applying.targets) # {}
    /\ \A targets \in {pending} \cup {wire[i].targets : i \in DOMAIN wire} :
          Cardinality(targets \ Kinds) <= TargetLimit

\* A session list whose read failed, and that was hidden then, refuses every
\* window that would affect it.
RefusesWhileHidden(v) == v # page /\ v \notin Catalogs /\ view[v].failed

\* With the page up for good, the view in front of the user ends up showing
\* everything that was committed, or an error, whatever went wrong before, and
\* the stream would resume from the newest position; unless a hidden list
\* keeps refusing (live-telemetry-updates.md:61-64, "final convergence is
\* required").
Converged ==
    /\ \A v \in Views : (v = page /\ ~view[v].failed) => view[v].shown >= Needed(v, Len(log))
    /\ cursor = Current

Converges == <>[](~started \/ Converged \/ \E v \in Views : RefusesWhileHidden(v))
=============================================================================
