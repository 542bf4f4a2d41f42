------------------------------- MODULE Schema -------------------------------
(***************************************************************************)
(* The indexes of the routing table (routing/schema.go), and the reads     *)
(* that a Snapshot makes through them (routing/query.go, stm/txn.go).      *)
(*                                                                         *)
(* Texts are sequences of numbers in which 0 stands for '='.  A row is a   *)
(* record [peer, server, seq, ttl, host, meta]: peer is the raw peer ID,   *)
(* server a number, host a text (<<>>: none) and meta a sequence of texts. *)
(*                                                                         *)
(* An index of go-memdb is a tree of keys in lexicographic order.  A key   *)
(* of an index that is not unique is followed by the row's id.             *)
(***************************************************************************)
EXTENDS Integers, FiniteSets, Sequences

CONSTANTS
    Base,  \* digits of a server ID, of which MarshalText writes two
    Err    \* an error

Texts == Seq(Nat)
Rows ==
    [peer : Texts, server : Nat, seq : Nat, ttl : Nat, host : Texts, meta : Seq(Texts)]

\* strings.HasPrefix, and lexicographic order on texts.
HasPrefix(s, t) == Len(t) <= Len(s) /\ \A i \in 1..Len(t) : s[i] = t[i]

Before(s, t) ==
    \E i \in 1..Len(t) :
        /\ i <= Len(s) + 1
        /\ \A j \in 1..(i - 1) : s[j] = t[j]
        /\ i <= Len(s) => s[i] < t[i]

Reverse(s) == [i \in 1..Len(s) |-> s[(Len(s) - i) + 1]]

\* peerToBytes.  Base 58 keeps peer IDs apart, but neither their order nor
\* their prefixes; the raw IDs are not printable text.
peerToBytes(id) == Reverse([i \in DOMAIN id |-> id[i] % 10])

\* ID.Bytes, big-endian, and the text of an ID: printable digits, of a fixed
\* number.
Bytes(id) == <<id \div Base, id % Base>>
MarshalText(id) == [i \in 1..2 |-> Bytes(id)[i] + 1]
UnmarshalText(t) == (t[1] - 1) * Base + (t[2] - 1)
-----------------------------------------------------------------------------
\* ParseField: split at the first separator; Err if there is none.
ParseField(t) ==
    IF \A i \in DOMAIN t : t[i] # 0 THEN Err
    ELSE LET i == CHOOSE i \in DOMAIN t : t[i] = 0 /\ \A j \in 1..(i - 1) : t[j] # 0
         IN [key |-> SubSeq(t, 1, i - 1), value |-> SubSeq(t, i + 1, Len(t))]

\* MetaField.String.
FieldString(f) == IF f.key = <<>> THEN <<>> ELSE f.key \o <<0>> \o f.value

\* Meta.At
MetaAt(meta, i) == ParseField(meta[i])

\* Meta.Get: the value of the first field with the key, <<>> if there is
\* none, Err if a field before it does not parse.
MetaGet(meta, key) ==
    LET hits == {i \in DOMAIN meta : MetaAt(meta, i) = Err \/ MetaAt(meta, i).key = key}
    IN IF hits = {} THEN <<>>
       ELSE LET f == MetaAt(meta, CHOOSE i \in hits : \A j \in hits : i <= j)
            IN IF f = Err THEN Err ELSE f.value

\* Meta.Index.
MetaIndexes(meta) == {meta[i] : i \in DOMAIN meta}
-----------------------------------------------------------------------------
IndexNames == {"id", "server", "host", "meta"}

\* The FromObject methods of the indexers: a row's keys.
idIndexer(r) == {peerToBytes(r.peer)}
serverIndexer(r) == {MarshalText(r.server)}
hostnameIndexer(r) == IF r.host = <<>> THEN {} ELSE {r.host}
metaIndexer(r) == MetaIndexes(r.meta)

FromObject(name, r) ==
    CASE name = "id" -> idIndexer(r)
      [] name = "server" -> serverIndexer(r)
      [] name = "host" -> hostnameIndexer(r)
      [] name = "meta" -> metaIndexer(r)

unique(name) == name \in {"id", "server"}

\* The entries that the table schema makes for a set of rows.
schema(rows, name) ==
    UNION {{[key |-> IF unique(name) THEN k ELSE k \o peerToBytes(r.peer), row |-> r] :
               k \in FromObject(name, r)} : r \in rows}

\* An Index: its name, whether it is a prefix, the optional interfaces it
\* implements, and the bytes that these return.
Index(name, prefix, key) ==
    [name |-> name, prefix |-> prefix, key |-> key,
     as |-> CASE name = "id" -> {"PeerIndex"}
              [] name = "server" -> {"ServerIndex"}
              [] name = "host" -> {"HostIndex"}
              [] name = "meta" -> {"MetaIndex"}]

\* FromArgs and PrefixFromArgs of the indexers, for an argument that is an Index.
idArgs(ix) == IF "PeerIndex" \in ix.as THEN ix.key ELSE Err
serverArgs(ix) == IF "ServerIndex" \in ix.as THEN ix.key ELSE Err
hostnameArgs(ix) == IF "HostIndex" \in ix.as THEN ix.key ELSE Err
metaArgs(ix) == IF "MetaIndex" \in ix.as THEN ix.key ELSE Err

FromArgs(ix) ==
    CASE ix.name = "id" -> idArgs(ix)
      [] ix.name = "server" -> serverArgs(ix)
      [] ix.name = "host" -> hostnameArgs(ix)
      [] ix.name = "meta" -> metaArgs(ix)
-----------------------------------------------------------------------------
\* The rows of some entries, in the order of their keys.
place(entries, e) == Cardinality({d \in entries : ~Before(e.key, d.key)})

inOrder(entries) ==
    [i \in 1..Cardinality(entries) |-> (CHOOSE e \in entries : place(entries, e) = i).row]

Failed == [ok |-> FALSE, rows |-> <<>>]
Found(rows) == [ok |-> TRUE, rows |-> rows]

\* query.iterate: the rows of the entries that one of Txn.Get, GetReverse,
\* LowerBound and ReverseLowerBound finds.  Get seeks the prefix even if the
\* index is not one.
iterate(ix, entries) ==
    IF FromArgs(ix) = Err THEN Failed ELSE Found(inOrder(entries))

backwards(found) == [found EXCEPT !.rows = Reverse(@)]

Get(rows, ix) ==
    iterate(ix, {e \in schema(rows, ix.name) : HasPrefix(e.key, FromArgs(ix))})

GetReverse(rows, ix) == backwards(Get(rows, ix))

\* Fault: the bound itself is left out.
LowerBoundAfter(rows, ix) ==
    iterate(ix, {e \in schema(rows, ix.name) : Before(FromArgs(ix), e.key)})

LowerBound(rows, ix) ==
    iterate(ix, {e \in schema(rows, ix.name) : ~Before(e.key, FromArgs(ix))})

ReverseLowerBound(rows, ix) ==
    backwards(iterate(ix, {e \in schema(rows, ix.name) : ~Before(FromArgs(ix), e.key)}))
=============================================================================
