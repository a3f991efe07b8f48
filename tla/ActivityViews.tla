----------------------------- MODULE ActivityViews -----------------------------
(***************************************************************************)
(* An open conversation or trace of the web interface, kept up to date from *)
(* the changes the store publishes (activity_sync.go and the controllers).  *)
(*                                                                         *)
(* A window names the scopes that changed up to a position.  A view it      *)
(* concerns pages through the mutations between its cursor and the          *)
(* position, each page in a snapshot of its own, then loads the head of its *)
(* scope and lays the mutations over what it shows.  A view without a       *)
(* cursor, or one whose members may have changed, loads instead.  One head  *)
(* holds the whole scope here: older pages are left out.                    *)
(***************************************************************************)
EXTENDS TelemetryStore

CONSTANTS
    PageSize,    \* mutations in a page of a synchronisation
    MaxPages     \* pages after which a view gives up and loads

ASSUME ViewAssumption == PageSize \in Nat \ {0} /\ MaxPages \in Nat \ {0}

VARIABLES
    view,    \* the open view: its scope, what it shows, and how far it is
    stream   \* the generation and the sequence up to which windows were received

viewVars == <<view, stream>>

NoCursor == [generation |-> 0, sequence |-> 0]

Position == [generation |-> generation, sequence |-> Len(db.feed)]

IsTrace(scope) == scope[1] = "trace"

\* The sessions whose activities a conversation shows.
Members(scope) == GroupOf(db.memberships, scope[2])

InScope(row, scope) == IF IsTrace(scope) THEN row.trace = scope[2] ELSE row.session \in Members(scope)

\* What a reader of an activity sees of its row and of the call it belongs to.
Activity(row) ==
    [field \in DOMAIN row \ {"sequence", "export"} |-> row[field]] @@ [call |-> CallRelation(db, row)]

\* A conversation leaves out activities of an unknown kind.
LoadedActivities(scope) ==
    {Activity(row) : row \in {r \in db.spans \cup db.logs : InScope(r, scope) /\ (IsTrace(scope) \/ r.known)}}

\* The head of a scope that holds something also says what its calls cost.
CostHeader == <<"cost">>
Cost(scope) ==
    [activity |-> CostHeader, known |-> TRUE,
     summary |-> IF IsTrace(scope) THEN TraceCostSummary(db, scope[2]) ELSE SessionCostSummary(db, Members(scope))]

Loaded(scope) == LET found == LoadedActivities(scope) IN IF found = {} THEN {} ELSE found \cup {Cost(scope)}

-----------------------------------------------------------------------------
(* A page of mutations *)

\* The feed's mutations of some scopes between two positions, the last one of each activity.
LatestMutations(scopes, after, through) ==
    LET all == FlattenSeq([n \in 1..(through - after) |-> db.feed[after + n].mutations])
        own == SelectSeq(all, LAMBDA m : m.scope \in scopes)
        last == {n \in DOMAIN own : \A later \in DOMAIN own : later > n => own[later].activity # own[n].activity}
    IN  [n \in 1..Cardinality(last) |-> own[SetToSortSeq(last, <)[n]]]

\* A mutation with the activity as it is now: one that left the scope is removed.
Materialized(m, scope) ==
    LET rows == {row \in db.spans \cup db.logs : row.activity = m.activity /\ InScope(row, scope)}
    IN  [activity |-> m.activity, now |-> IF m.operation = "upsert" THEN {Activity(row) : row \in rows} ELSE {}]

SyncScopes(scope) == IF IsTrace(scope) THEN {scope} ELSE {SessionScope(s) : s \in Members(scope)}

SyncPage(scope, after, through, offset) ==
    LET found == LatestMutations(SyncScopes(scope), after, through)
        size == Min({PageSize, Len(found) - offset})
    IN  [mutations |-> [n \in 1..Max({0, size}) |-> Materialized(found[offset + n], scope)],
         more |-> Len(found) > offset + PageSize]

-----------------------------------------------------------------------------
(* The view *)

NoWork == [through |-> NoCursor, overlay |-> FALSE, mutations |-> << >>, pages |-> 0]

ViewInit ==
    /\ StoreInit
    /\ view = [status |-> "unopened", scope |-> AllTraces, target |-> "", shown |-> {}, cursor |-> NoCursor,
               merged |-> FALSE, work |-> NoWork]
    /\ stream = NoCursor

\* A view is opened on what its scope holds; a conversation is named by its root.
\* The windows received so far may be behind what was loaded.
Open(scope) ==
    /\ view.status = "unopened"
    /\ Loaded(scope) # {}
    /\ view' = [view EXCEPT !.status = "idle", !.scope = scope, !.shown = Loaded(scope),
                            !.target = IF IsTrace(scope) THEN scope[2] ELSE RootOf(db.memberships, scope[2])]
    /\ \E sequence \in 0..Len(db.feed) : stream' = [generation |-> generation, sequence |-> sequence]
    /\ UNCHANGED storeVars

Affects(targets) ==
    {<<view.scope[1], view.target>>, <<view.scope[1], "all">>} \cap targets # {}

\* A window arrives.  It concerns another scope; or the view pages from its
\* cursor; or it loads the head, which a conversation without a cursor lays
\* over what it shows and any other view takes instead.
Receive ==
    LET resync == stream.generation # generation
        targets == IF resync THEN {} ELSE UNION {db.feed[n].targets : n \in (stream.sequence + 1)..Len(db.feed)}
        reload == resync \/ (~IsTrace(view.scope) /\ AllSessions \in targets)
        paged == ~reload /\ view.cursor # NoCursor
        first == ~reload /\ view.cursor = NoCursor
    IN  /\ view.status = "idle"
        /\ stream # Position
        /\ stream' = Position
        /\ view' = IF ~resync /\ ~Affects(targets) THEN view
                   ELSE [view EXCEPT
                           !.status = IF paged THEN "paging" ELSE "loading",
                           !.work = [NoWork EXCEPT !.through = Position,
                                                   !.overlay = paged \/ (first /\ ~IsTrace(view.scope))]]
        /\ UNCHANGED storeVars

\* The view gives up paging and takes the head; the cursor of the answer is where it is then.
GiveUp(through) == [view EXCEPT !.status = "loading", !.work = [NoWork EXCEPT !.through = through]]

\* One page; a store of another generation asks for a load.
Page ==
    LET page == SyncPage(view.scope, view.cursor.sequence, view.work.through.sequence, view.work.pages * PageSize)
        grown == [view EXCEPT !.work.mutations = @ \o page.mutations, !.work.pages = @ + 1]
    IN  /\ view.status = "paging"
        /\ view' = CASE view.cursor.generation # generation -> GiveUp(Position)
                     [] ~page.more -> [grown EXCEPT !.status = "loading"]
                     [] grown.work.pages = MaxPages -> GiveUp(view.work.through)
                     [] OTHER -> grown
        /\ UNCHANGED <<storeVars, stream>>

\* What is shown, with the loaded activities in place of what was known of them.
Overlaid(shown, loaded) == {a \in shown : ~\E b \in loaded : b.activity = a.activity} \cup loaded

Mutated(shown, m) == {a \in shown : a.activity # m.activity} \cup m.now

\* The head arrives; a scope that holds nothing any more closes its view.
LoadHead ==
    LET head == Loaded(view.scope)
        shown == IF view.work.overlay
                   THEN FoldLeft(Mutated, Overlaid(view.shown, head), view.work.mutations)
                   ELSE head
    IN  /\ view.status = "loading"
        /\ view' = IF head = {} THEN [view EXCEPT !.status = "closed", !.shown = {}, !.work = NoWork]
                   ELSE [view EXCEPT !.status = "idle", !.shown = shown, !.cursor = view.work.through,
                                     !.merged = view.work.overlay /\ (@ \/ view.cursor = NoCursor),
                                     !.work = NoWork]
        /\ UNCHANGED <<storeVars, stream>>

ViewNext ==
    \/ StoreNext /\ UNCHANGED viewVars
    \/ \E scope \in universe.views : Open(scope)
    \/ Receive
    \/ Page
    \/ LoadHead

ViewSpec == ViewInit /\ [][ViewNext]_<<storeVars, viewVars>>

-----------------------------------------------------------------------------
(* Properties *)

CaughtUp == view.status = "idle" /\ stream = Position

\* The activities a fresh view would count; a span of an unknown kind is sent to
\* the open conversations of its session and not loaded by new ones.
Counted(activities) == {a \in activities : IsTrace(view.scope) \/ a.known}

\* A view that has applied every change shows what a fresh one would: no
\* revision, move, attribution, archive or restore slips between its windows
\* and pages (live-telemetry-updates.md, acceptance criterion 10).  A
\* conversation that laid its first head over what it showed is left out.
ViewIsFresh == CaughtUp /\ ~view.merged => Counted(view.shown) = Loaded(view.scope)

=============================================================================
