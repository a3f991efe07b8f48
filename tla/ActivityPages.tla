----------------------------- MODULE ActivityPages -----------------------------
(***************************************************************************)
(* The order in which activities are listed, and the pages of such a list.  *)
(*                                                                         *)
(* A page is cut by SQL: each signal is ordered and limited by itself, the  *)
(* two are merged, ordered again, and the page is taken from the result.    *)
(* The identities of traces and spans are ordered as text, here by the      *)
(* place of a name in NameOrder; those of logs by the order they were       *)
(* stored in, which stands for the order of their numbers as text.          *)
(***************************************************************************)
EXTENDS Integers, FiniteSets, Sequences, FiniteSetsExt

CONSTANTS
    NameOrder,        \* the names of sessions, traces and agents, in the order of their text
    AnchorContext     \* how many activities before an anchor a large page shows

ASSUME PagesAssumption == AnchorContext \in Nat

TextRank(name) == CHOOSE n \in DOMAIN NameOrder : NameOrder[n] = name

\* The key that breaks ties, "log:<id>" or "span:<trace>:<span>".
ActivityKey(row) ==
    IF row.signal = "log"
      THEN <<0, IF row.activity[2] = "replayed" THEN 0 ELSE 1, row.activity[3], row.activity[4]>>
      ELSE <<1, TextRank(row.trace), row.id, 0>>

\* A conversation lists the latest first, a trace in the order of time and spans before logs.
SortKey(order, row) ==
    IF order = "newest" THEN <<-row.at>> \o ActivityKey(row)
    ELSE <<row.start, row.at, IF row.signal = "trace" THEN 0 ELSE 1>> \o ActivityKey(row)

Lexicographic(key, other) ==
    \E n \in DOMAIN key : key[n] < other[n] /\ \A m \in 1..(n - 1) : key[m] = other[m]

Precedes(order, row, other) == Lexicographic(SortKey(order, row), SortKey(order, other))

\* ORDER BY ... LIMIT n
FirstRows(rows, n, order) ==
    {row \in rows : Cardinality({other \in rows : Precedes(order, other, row)}) < n}

OfSignal(rows, signal) == {row \in rows : row.signal = signal}

\* Fault: the signals are limited to the page, not to its end.
LimitWithoutOffset(rows, offset, size, order) ==
    LET branches == FirstRows(OfSignal(rows, "trace"), size, order) \cup FirstRows(OfSignal(rows, "log"), size, order)
    IN  FirstRows(branches, offset + size, order) \ FirstRows(branches, offset, order)
\* The rows of a page: as many of each signal as the page could reach, then the page.
ActivitiesWindow(rows, offset, size, order) ==
    LET reach == offset + size
        branches == FirstRows(OfSignal(rows, "trace"), reach, order) \cup FirstRows(OfSignal(rows, "log"), reach, order)
    IN  FirstRows(branches, reach, order) \ FirstRows(branches, offset, order)

\* A page that shows what precedes an anchor without losing the anchor.
OffsetAround(index, size) == Max({0, index - Min({AnchorContext, size \div 2})})

BoundedOffset(total, offset) == Min({total, offset})

\* The span a row is at: a log may name the span it was written in.
SpanOf(row) == IF row.signal = "trace" THEN row.id ELSE row.span

NoAnchor == << >>

AtAnchor(row, anchor) == anchor # NoAnchor /\ <<row.trace, SpanOf(row)>> = anchor

\* How many rows precede the first one at an anchor.
AnchorIndex(rows, anchor, order) ==
    LET first == CHOOSE row \in {r \in rows : AtAnchor(r, anchor)} :
                   ~\E other \in rows : AtAnchor(other, anchor) /\ Precedes(order, other, row)
    IN  Cardinality({row \in rows : Precedes(order, row, first)})

-----------------------------------------------------------------------------
(* The reference *)

\* A list that is read page by page holds every row once, a page never has a row
\* that belongs before one of an earlier page, and the last page says so.
PagesTile(pages, rows, order) ==
    /\ UNION {pages[n].rows : n \in DOMAIN pages} = rows
    /\ \A n \in DOMAIN pages, m \in DOMAIN pages : n < m =>
          \A row \in pages[n].rows, other \in pages[m].rows : Precedes(order, row, other)
    /\ \A n \in DOMAIN pages : pages[n].more <=> n # Len(pages)

===============================================================================
