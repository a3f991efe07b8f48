----------------------------- MODULE SessionGraph -----------------------------
(***************************************************************************)
(* The delegation graph of sessions: which sessions belong to one root.     *)
(*                                                                         *)
(* A link says that a parent session started a child session.  A child that *)
(* has several possible parents, and every session on a cycle, is a root:   *)
(* an ambiguous link groups nothing.                                        *)
(***************************************************************************)
EXTENDS Naturals, FiniteSets, Functions

NoSession == ""

\* A link that says something: both ends are known and differ.
IsLink(link) == NoSession \notin {link.parent, link.child} /\ link.parent # link.child

Nodes(links) == {link.parent : link \in links} \cup {link.child : link \in links}

PossibleParents(links, child) == {link.parent : link \in {l \in links : l.child = child}}

\* The parent of every child that has exactly one possible parent.
SingleParents(links) ==
    [child \in {c \in Nodes(links) : Cardinality(PossibleParents(links, c)) = 1} |->
        CHOOSE p \in PossibleParents(links, child) : TRUE]

\* Where every node gets by following its parents n times; a root stays where it is.
Climb(nodes, parents, n) ==
    LET up[i \in 0..n] ==
          IF i = 0 THEN [node \in nodes |-> node]
          ELSE [node \in nodes |->
                  LET at == up[i - 1][node] IN IF at \in DOMAIN parents THEN parents[at] ELSE at]
    IN  up[n]

\* The sessions whose chain of parents comes back to them.
Cyclic(nodes, parents) ==
    {node \in DOMAIN parents : \E n \in 1..Cardinality(nodes) : Climb(nodes, parents, n)[node] = node}

RemoveCyclicSessionParents(nodes, parents) ==
    Restrict(parents, DOMAIN parents \ Cyclic(nodes, parents))

\* The rows of session_memberships: the root and the direct parent of every linked session.
Memberships(links) ==
    LET nodes == Nodes(links)
        parents == RemoveCyclicSessionParents(nodes, SingleParents(links))
        roots == Climb(nodes, parents, Cardinality(nodes))
    IN  {[session |-> node, root |-> roots[node],
          parent |-> IF node \in DOMAIN parents THEN parents[node] ELSE NoSession] : node \in nodes}

\* The root of a session; a session without links is its own.
RootOf(memberships, session) ==
    IF \E m \in memberships : m.session = session
      THEN (CHOOSE m \in memberships : m.session = session).root
      ELSE session

\* The sessions that one conversation shows: all that have the same root.
GroupOf(memberships, session) ==
    LET root == RootOf(memberships, session)
    IN  {m.session : m \in {other \in memberships : other.root = root}} \cup {root}

=============================================================================
