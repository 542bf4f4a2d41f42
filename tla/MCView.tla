------------------------------- MODULE MCView -------------------------------
\* Instances of View for TLC.
EXTENDS View, TLC

Row(p, s, d, h, m) ==
    [peer |-> p, server |-> s, seq |-> s, ttl |-> d, host |-> h, meta |-> m]

\* Hosts <<1>> and <<1, 2>>; fields with the same prefix, and with two
\* separators; the default TTL.
a == Row(<<11, 12>>, 1, 2 * Milli, <<1>>, <<>>)
b == Row(<<12, 11>>, 2, DefaultTTL, <<1, 2>>, << <<3, 0, 1>>, <<3, 0, 2>> >>)
c == Row(<<11, 11>>, 3, Milli, <<>>, << <<3, 0, 0, 1>> >>)

MCTables == {{}, {a, b}, {a, b, c}}

Indexes ==
    {Index("id", FALSE, peerToBytes(b.peer)), Index("id", TRUE, <<1>>),
     Index("server", FALSE, MarshalText(2)), Index("host", FALSE, <<1>>),
     Index("host", TRUE, <<1, 2>>), Index("meta", TRUE, <<3, 0>>),
     [Index("host", FALSE, <<1>>) EXCEPT !.as = {}]}

MCSelectors ==
    {[sel |-> "all"], [sel |-> "failure"]}
        \cup {[sel |-> s, ix |-> ix] : s \in {"select", "from"}, ix \in Indexes}

MCConstraints ==
    {<<>>, <<Limit(0)>>, <<First>>, <<Limit(2)>>, <<Where({b, c})>>,
     <<Where({b, c}), First>>, <<First, Where({b, c})>>, <<Limit(2), Limit(1)>>,
     <<To(Index("host", TRUE, <<1>>))>>, <<To(Index("host", FALSE, <<1>>)), First>>,
     <<To(MetaOf(FALSE, << <<3, 0, 0, 1>> >>))>>, <<To(Index("server", FALSE, <<1, 1>>))>>}
=============================================================================
