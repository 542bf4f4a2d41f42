------------------------------- MODULE Query --------------------------------
(***************************************************************************)
(* Queries over a Snapshot of the routing table: selectors, constraints    *)
(* and their Matchers (query/).                                            *)
(*                                                                         *)
(* A selector is a record [sel |-> "all"], [sel |-> "select", ix |-> ix],  *)
(* [sel |-> "from", ix |-> ix] or [sel |-> "failure"].                     *)
(***************************************************************************)
EXTENDS Schema

CONSTANTS
    nil,    \* the record that an exhausted iterator returns
    Panic   \* a call that panics

ASSUME QueryOK ==
    /\ Base \in Nat \ {0}
    /\ Err \notin Texts
    /\ nil \notin Rows /\ Panic \notin Rows /\ nil # Panic

\* What queries are about: each entry of an index of the table has a key of its
\* own.
TableOK(t) ==
    /\ IsFiniteSet(t)
    /\ t \in SUBSET Rows
    /\ \A name \in IndexNames : \A d, e \in schema(t, name) : d.key = e.key => d = e

\* The index of a selector, and the selector.
IndexOK(ix) == ix.name \in IndexNames /\ ix.prefix \in BOOLEAN /\ ix.key \in Texts
ByIndex(s) == s.sel \in {"select", "from"} /\ IndexOK(s.ix)
SelectorOK(s) == s.sel = "all" \/ s.sel = "failure" \/ ByIndex(s)

\* A Snapshot, and Query.Reverse.
Snapshot(rows) == [rows |-> rows, reversed |-> FALSE]
Reversed(q) == [q EXCEPT !.reversed = ~@]

\* A Selector, applied to a Snapshot.  all is the empty prefix of the id.
all == Index("id", TRUE, <<>>)

Select(q, ix) == IF q.reversed THEN GetReverse(q.rows, ix) ELSE Get(q.rows, ix)
From(q, ix) == IF q.reversed THEN ReverseLowerBound(q.rows, ix) ELSE LowerBound(q.rows, ix)

selection(q, s) ==
    CASE s.sel = "all" -> Select(q, all)
      [] s.sel = "select" -> Select(q, s.ix)
      [] s.sel = "from" -> From(q, s.ix)
      [] s.sel = "failure" -> Failed
-----------------------------------------------------------------------------
\* matchIndex: whether the index can be matched, and whether it matches a row.
metaEq(prefix, r, meta) ==
    IF r.meta = <<>> THEN meta = <<>>
    ELSE \A i \in DOMAIN r.meta :
            LET f == ParseField(r.meta[i]) IN
            /\ f # Err
            /\ LET v == MetaGet(meta, f.key) IN
               /\ v # Err
               /\ IF prefix THEN HasPrefix(v, f.value) ELSE v = f.value

matchIndexFails(ix) ==
    ~ \/ ix.name = "id" /\ "PeerIndex" \in ix.as
      \/ ix.name = "host" /\ "HostIndex" \in ix.as
      \/ ix.name = "meta" /\ "Meta" \in ix.as

matchPeer(ix, r) == IF ix.prefix THEN HasPrefix(r.peer, ix.key) ELSE r.peer = ix.key
matchHost(ix, r) == IF ix.prefix THEN r.host = ix.key ELSE HasPrefix(r.host, ix.key)
matchMeta(ix, r) == metaEq(ix.prefix, r, ix.meta)

matchIndex(ix, r) ==
    CASE ix.name = "id" -> matchPeer(ix, r)
      [] ix.name = "host" -> matchHost(ix, r)
      [] ix.name = "meta" -> matchMeta(ix, r)

\* An Index on meta that can be matched.
MetaOf(prefix, meta) ==
    [name |-> "meta", prefix |-> prefix, key |-> <<>>, as |-> {"Meta"}, meta |-> meta]

\* Constraints.
Where(match) == [kind |-> "where", match |-> match]
Limit(k) == [kind |-> "limit", left |-> k, stop |-> FALSE]
To(ix) == [kind |-> "to", ix |-> ix, reached |-> FALSE, stop |-> FALSE]
First == Limit(1)

\* Constraints that no iterator has used.
ConstraintsOK(c) ==
    /\ c \in Seq({c[i] : i \in DOMAIN c})
    /\ \A i \in 1..Len(c) :
          \/ c[i].kind \in {"where", "to"}
          \/ c[i].kind = "limit" /\ c[i].left \in Int /\ c[i] = Limit(c[i].left)

\* A constraint whose Selector is a Failure.
constraintFails(c) ==
    \/ c.kind = "limit" /\ c.left <= 0
    \/ c.kind = "to" /\ matchIndexFails(c.ix)
-----------------------------------------------------------------------------
\* The Matcher that While is given, applied to what the iterator below
\* returned, be it nil: the stage, and whether r matches.
limitMatch(st, r) == [st |-> [st EXCEPT !.left = @ - 1], match |-> st.left > 0, panics |-> FALSE]

leq(st, r) ==
    IF r = nil THEN [st |-> st, match |-> FALSE, panics |-> TRUE]
    ELSE LET m == matchIndex(st.ix, r) IN
         [st |-> [st EXCEPT !.reached = @ \/ m],
          match |-> ~(st.reached \/ m) \/ m, panics |-> FALSE]

Match(st, r) == IF st.kind = "limit" THEN limitMatch(st, r) ELSE leq(st, r)

-----------------------------------------------------------------------------
\* What a query means: its constraints cut the positions of the selected rows
\* down in turn.  Limit(n) keeps the first n.
upTo(P, p) == Cardinality({q \in P : q <= p})

cut(rows, P, c) ==
    CASE c.kind = "where" -> {p \in P : rows[p] \in c.match}
      [] c.kind = "limit" -> {p \in P : upTo(P, p) <= c.left}
      [] c.kind = "to" -> P

kept(rows, c) ==
    LET k[i \in 0..Len(c)] == IF i = 0 THEN 1..Len(rows) ELSE cut(rows, k[i - 1], c[i]) IN k

Meaning(rows, c) == kept(rows, c)[Len(c)]

\* The keys that a selector asks for.
wanted(q, s, k) ==
    CASE s.sel = "select" -> IF s.ix.prefix THEN HasPrefix(k, s.ix.key) ELSE k = s.ix.key
      [] s.sel = "from" /\ ~q.reversed -> ~Before(k, s.ix.key)
      [] s.sel = "from" /\ q.reversed ->
            IF unique(s.ix.name) THEN ~Before(s.ix.key, k)
            ELSE Before(k, s.ix.key) /\ ~HasPrefix(s.ix.key, k)
=============================================================================
