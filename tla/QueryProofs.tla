---------------------------- MODULE QueryProofs -----------------------------
(***************************************************************************)
(* What queries on the routing table do, for every table, index, selector  *)
(* and sequence of constraints.                                            *)
(*                                                                         *)
(* The first part is about the iterator of a query: it returns what the    *)
(* constraints Where and Limit leave of the selected rows.  Its invariant, *)
(* QueryInv, relates each stage to the positions that it has dealt with.   *)
(* The second part is about the selection: which rows the indexes find.    *)
(*                                                                         *)
(* Steps are first-order and for Zenon, unless they cite SMT for sequences *)
(* and arithmetic.                                                         *)
(***************************************************************************)
EXTENDS QueryIter, FiniteSetTheorems, TLAPS

USE Zenon

\* A set of numbers has a least one,
LEMMA Least ==
    ASSUME NEW T \in SUBSET Nat, T # {}
    PROVE  \E x \in T : \A m \in T : ~(m < x)
  <1>. DEFINE less == OpToRel(<, Nat)
  <1>1. IsWellFoundedOn(less, Nat)
    BY NatLessThanWellFounded
  <1>. HIDE DEF less
  <1>2. PICK x \in T : \A m \in T : ~(<<m, x>> \in less)
    BY <1>1, WFMin
  <1>3. \A m \in T : m < x => <<m, x>> \in less
    BY DEF less, OpToRel
  <1>. QED
    BY <1>2, <1>3

\* so one that has 0 and with every number the next has them all.
LEMMA Induction ==
    ASSUME NEW M \in Nat, NEW S, 0 \in S, \A x \in 0..(M - 1) : x \in S => x + 1 \in S
    PROVE  \A x \in 0..M : x \in S
  <1>. DEFINE T == {x \in 0..M : x \notin S}
  <1>1. SUFFICES ASSUME T # {} PROVE FALSE
    OBVIOUS
  <1>2. T \in SUBSET Nat
    BY SMT
  <1>3. PICK x \in T : \A m \in T : ~(m < x)
    BY <1>1, <1>2, Least
  <1>4. x \in 0..M /\ x \notin S
    OBVIOUS
  <1>5. x # 0
    BY <1>4
  <1>6. x - 1 \in 0..(M - 1) /\ x - 1 \in 0..M /\ x - 1 < x /\ (x - 1) + 1 = x
    BY <1>4, <1>5, SMT
  <1>7. x - 1 \in S
    BY <1>3, <1>6
  <1>. QED
    BY <1>4, <1>6, <1>7
-----------------------------------------------------------------------------
\* No position after p is left.
none(P, p) == \A q \in P : q <= p

\* Positions up to p are numbered as they come.
LEMMA UpToType ==
    ASSUME NEW N \in Nat, NEW P \in SUBSET (1..N), NEW p \in Nat
    PROVE  /\ IsFiniteSet(P) /\ Cardinality(P) \in Nat
           /\ upTo(P, p) \in Nat
           /\ upTo(P, p) <= Cardinality(P)
           /\ none(P, p) => upTo(P, p) = Cardinality(P)
  <1>1. IsFiniteSet(1..N)
    BY FS_Interval, SMT
  <1>2. IsFiniteSet(P)
    BY <1>1, FS_Subset
  <1>. DEFINE Q == {q \in P : q <= p}
  <1>3. Q \in SUBSET P
    OBVIOUS
  <1>4. IsFiniteSet(Q) /\ Cardinality(Q) <= Cardinality(P)
    BY <1>2, <1>3, FS_Subset
  <1>5. Cardinality(P) \in Nat /\ Cardinality(Q) \in Nat
    BY <1>2, <1>4, FS_CardinalityType
  <1>6. none(P, p) => Q = P
    BY DEF none
  <1>. QED
    BY <1>2, <1>4, <1>5, <1>6 DEF upTo

\* The next position counts if it is in the set.
LEMMA UpToNext ==
    ASSUME NEW N \in Nat, NEW P \in SUBSET (1..N), NEW p \in Nat \ {0}
    PROVE  upTo(P, p) = IF p \in P THEN upTo(P, p - 1) + 1 ELSE upTo(P, p - 1)
  <1>. DEFINE Q == {q \in P : q <= p - 1}
  <1>1. IsFiniteSet(P)
    BY UpToType
  <1>2. Q \in SUBSET P
    OBVIOUS
  <1>3. IsFiniteSet(Q)
    BY <1>1, <1>2, FS_Subset
  <1>4. p \notin Q
    BY SMT
  <1>5. {q \in P : q <= p} = IF p \in P THEN Q \cup {p} ELSE Q
    <2>1. \A q \in P : q <= p <=> q <= p - 1 \/ q = p
      <3>. TAKE q \in P
      <3>1. q \in 1..N
        OBVIOUS
      <3>. QED
        BY <3>1, SMT
    <2>. QED
      BY <2>1
  <1>6. Cardinality(Q \cup {p}) = Cardinality(Q) + 1
    BY <1>3, <1>4, FS_AddElement
  <1>. HIDE DEF Q
  <1>7. upTo(P, p) = IF p \in P THEN Cardinality(Q) + 1 ELSE Cardinality(Q)
    BY <1>5, <1>6 DEF upTo
  <1>. QED
    BY <1>7 DEF upTo, Q

\* A later position has no lower number,
LEMMA UpToMono ==
    ASSUME NEW N \in Nat, NEW P \in SUBSET (1..N), NEW p \in Nat, NEW q \in Nat, p <= q
    PROVE  upTo(P, p) <= upTo(P, q)
  <1>. DEFINE A == {x \in P : x <= p}
              B == {x \in P : x <= q}
  <1>1. IsFiniteSet(P)
    BY UpToType
  <1>2. B \in SUBSET P
    OBVIOUS
  <1>3. IsFiniteSet(B)
    BY <1>1, <1>2, FS_Subset
  <1>4. A \in SUBSET B
    <2>1. \A x \in P : x <= p => x <= q
      <3>. TAKE x \in P
      <3>1. x \in 1..N
        OBVIOUS
      <3>. QED
        BY <3>1, SMT
    <2>. QED
      BY <2>1
  <1>. HIDE DEF A, B
  <1>5. Cardinality(A) <= Cardinality(B)
    BY <1>3, <1>4, FS_Subset
  <1>. QED
    BY <1>5 DEF upTo, A, B

\* and none comes before the first.
LEMMA UpToZero ==
    ASSUME NEW N \in Nat, NEW P \in SUBSET (1..N)
    PROVE  upTo(P, 0) = 0
  <1>1. \A q \in P : ~(q <= 0)
    <2>. TAKE q \in P
    <2>1. q \in 1..N
      OBVIOUS
    <2>. QED
      BY <2>1, SMT
  <1>2. {q \in P : q <= 0} = {}
    BY <1>1
  <1>. QED
    BY <1>2, FS_EmptySet DEF upTo
-----------------------------------------------------------------------------
\* kept is the function that its recursive definition describes.
LEMMA KeptIs ==
    ASSUME NEW rs, NEW c, Len(c) \in Nat
    PROVE  kept(rs, c) =
              [i \in 0..Len(c) |->
                  IF i = 0 THEN 1..Len(rs) ELSE cut(rs, kept(rs, c)[i - 1], c[i])]
  <1>. DEFINE A == 1..Len(rs)
              Is(f, m) == f = [i \in 0..m |-> IF i = 0 THEN A ELSE cut(rs, f[i - 1], c[i])]
              S == {m \in 0..Len(c) : \E f : Is(f, m)}
  <1>1. 0 \in S
    <2>. DEFINE f == [i \in 0..0 |-> A]
    <2>1. \A i \in 0..0 : i = 0
      BY SMT
    <2>2. f = [i \in 0..0 |-> IF i = 0 THEN A ELSE cut(rs, f[i - 1], c[i])]
      BY <2>1
    <2>. HIDE DEF f
    <2>3. Is(f, 0)
      BY <2>2
    <2>4. 0 \in 0..Len(c)
      BY SMT
    <2>. QED
      BY <2>3, <2>4
  <1>2. ASSUME NEW m \in 0..(Len(c) - 1), m \in S PROVE m + 1 \in S
    <2>1. PICK f : Is(f, m)
      BY <1>2
    <2>. DEFINE g == [i \in 0..(m + 1) |->
                        IF i = m + 1 THEN cut(rs, f[m], c[i]) ELSE f[i]]
    <2>2. \A i \in 0..m : g[i] = f[i]
      BY SMT
    <2>3. ASSUME NEW i \in 0..(m + 1)
          PROVE  g[i] = IF i = 0 THEN A ELSE cut(rs, g[i - 1], c[i])
      <3>1. CASE i = 0
        <4>1. g[i] = f[i] /\ i \in 0..m
          BY <3>1, SMT
        <4>2. f[i] = A
          BY <2>1, <3>1, <4>1
        <4>. QED
          BY <3>1, <4>1, <4>2
      <3>2. CASE i # 0 /\ i # m + 1
        <4>1. i \in 0..m /\ i - 1 \in 0..m
          BY <3>2, SMT
        <4>2. f[i] = cut(rs, f[i - 1], c[i])
          BY <2>1, <3>2, <4>1
        <4>. QED
          BY <2>2, <3>2, <4>1, <4>2
      <3>3. CASE i = m + 1
        <4>1. i - 1 = m /\ m \in 0..m /\ i # 0
          BY <3>3, SMT
        <4>2. g[i] = cut(rs, f[m], c[i])
          BY <3>3
        <4>. QED
          BY <2>2, <4>1, <4>2
      <3>. QED
        BY <3>1, <3>2, <3>3
    <2>4. g = [i \in 0..(m + 1) |-> g[i]]
      OBVIOUS
    <2>. HIDE DEF g
    <2>5. Is(g, m + 1)
      BY <2>3, <2>4
    <2>6. m + 1 \in 0..Len(c)
      BY SMT
    <2>. QED
      BY <2>5, <2>6
  <1>. HIDE DEF S
  <1>3. \A m \in 0..Len(c) : m \in S
    BY <1>1, <1>2, Induction
  <1>4. Len(c) \in S
    BY <1>3, SMT
  <1>5. \E f : Is(f, Len(c))
    BY <1>4 DEF S
  <1>6. Is(kept(rs, c), Len(c))
    BY <1>5 DEF kept
  <1>. QED
    BY <1>6

\* Constraints that are not To, as Where and Limit make them.
Fresh(c) ==
    /\ c \in Seq({c[i] : i \in DOMAIN c})
    /\ \A i \in 1..Len(c) :
          \/ c[i].kind = "where"
          \/ c[i].kind = "limit" /\ c[i].left \in Int /\ c[i] = Limit(c[i].left)

\* Each constraint leaves some of the positions that the one before it left.
LEMMA KeptSub ==
    ASSUME NEW rs, NEW c, Len(rs) \in Nat, Fresh(c)
    PROVE  /\ kept(rs, c)[0] = 1..Len(rs)
           /\ \A i \in 1..Len(c) : kept(rs, c)[i] = cut(rs, kept(rs, c)[i - 1], c[i])
           /\ \A i \in 1..Len(c) : kept(rs, c)[i] \subseteq kept(rs, c)[i - 1]
           /\ \A i \in 0..Len(c) : kept(rs, c)[i] \in SUBSET (1..Len(rs))
  <1>0. Len(c) \in Nat
    BY SMT DEF Fresh
  <1>. DEFINE K == kept(rs, c)
  <1>1. K = [i \in 0..Len(c) |-> IF i = 0 THEN 1..Len(rs) ELSE cut(rs, K[i - 1], c[i])]
    BY <1>0, KeptIs, SMT
  <1>. HIDE DEF K
  <1>2. K[0] = 1..Len(rs)
    <2>1. 0 \in 0..Len(c)
      BY <1>0, SMT
    <2>. QED
      BY <1>1, <2>1
  <1>3. ASSUME NEW i \in 1..Len(c) PROVE K[i] = cut(rs, K[i - 1], c[i])
    <2>1. i \in 0..Len(c) /\ i # 0
      BY <1>0, SMT
    <2>. QED
      BY <1>1, <2>1
  <1>4. ASSUME NEW i \in 1..Len(c) PROVE K[i] \subseteq K[i - 1]
    <2>1. c[i].kind = "where" \/ c[i].kind = "limit"
      BY DEF Fresh
    <2>. QED
      BY <1>3, <2>1 DEF cut
  <1>. DEFINE S == {i \in 0..Len(c) : K[i] \in SUBSET (1..Len(rs))}
  <1>5. 0 \in S
    BY <1>0, <1>2, SMT
  <1>6. ASSUME NEW i \in 0..(Len(c) - 1), i \in S PROVE i + 1 \in S
    <2>1. i + 1 \in 1..Len(c) /\ i + 1 \in 0..Len(c) /\ (i + 1) - 1 = i
      BY <1>0, SMT
    <2>2. K[i + 1] \subseteq K[i]
      BY <1>4, <2>1
    <2>. QED
      BY <1>6, <2>1, <2>2
  <1>. HIDE DEF S
  <1>7. \A i \in 0..Len(c) : i \in S
    BY <1>0, <1>5, <1>6, Induction
  <1>. QED
    BY <1>2, <1>3, <1>4, <1>7 DEF S, K

\* So does every later one.
LEMMA KeptDown ==
    ASSUME NEW rs, NEW c, Len(rs) \in Nat, Fresh(c),
           NEW i \in 0..Len(c), NEW j \in 0..Len(c), i <= j
    PROVE  kept(rs, c)[j] \subseteq kept(rs, c)[i]
  <1>0. Len(c) \in Nat
    BY SMT DEF Fresh
  <1>. DEFINE K == kept(rs, c)
              S == {m \in 0..Len(c) : i <= m => K[m] \subseteq K[i]}
  <1>1. \A m \in 1..Len(c) : K[m] \subseteq K[m - 1]
    BY KeptSub
  <1>. HIDE DEF K
  <1>2. 0 \in S
    <2>1. i <= 0 => i = 0
      BY SMT
    <2>2. 0 \in 0..Len(c)
      BY <1>0, SMT
    <2>. QED
      BY <2>1, <2>2
  <1>3. ASSUME NEW m \in 0..(Len(c) - 1), m \in S PROVE m + 1 \in S
    <2>1. m + 1 \in 1..Len(c) /\ m + 1 \in 0..Len(c) /\ (m + 1) - 1 = m
      BY <1>0, SMT
    <2>2. K[m + 1] \subseteq K[m]
      BY <1>1, <2>1
    <2>3. i <= m + 1 => i <= m \/ i = m + 1
      BY SMT
    <2>. QED
      BY <1>3, <2>1, <2>2, <2>3
  <1>. HIDE DEF S
  <1>4. \A m \in 0..Len(c) : m \in S
    BY <1>0, <1>2, <1>3, Induction
  <1>. QED
    BY <1>4 DEF S, K
-----------------------------------------------------------------------------
\* The positions that are left after each constraint, and those that stage i
\* has dealt with.
K == kept(found, cs)
by(i) == IF qpc = "return" /\ ret # nil /\ lvl < i THEN pos - 1 ELSE pos

\* The stages that Limit makes.
Limits == [kind : {"limit"}, left : Int, stop : BOOLEAN]

\* A Limit has counted what came from below, and more only if nothing is left
\* there; it has stopped only if nothing is left for it.
LimitInv(i) ==
    /\ stages[i] \in Limits
    /\ stages[i].left <= cs[i].left - upTo(K[i - 1], by(i))
    /\ stages[i].left = cs[i].left - upTo(K[i - 1], by(i)) \/ none(K[i - 1], by(i))
    /\ stages[i].stop => none(K[i], by(i))

\* A filterIter has no state.
StageInv(i) ==
    /\ cs[i].kind = "where" => stages[i] = cs[i]
    /\ cs[i].kind = "limit" => LimitInv(i)

\* What a stage returns is left by its constraint; or nothing more is.
ReturnInv ==
    qpc = "return" => IF ret = nil THEN none(K[lvl], pos)
                      ELSE pos \in K[lvl] /\ ret = found[pos]

\* What the last stage has returned, when it has dealt with the positions up to p.
SeenUpTo(P, p) ==
    /\ upTo(P, p) <= Len(seen)
    /\ \A i \in 1..upTo(P, p) : \E q \in P : upTo(P, q) = i /\ seen[i] = found[q]
    /\ \A i \in 1..Len(seen) : i > upTo(P, p) => seen[i] = nil /\ none(P, p)

\* It has dealt with what was returned to the caller.
SeenInv == SeenUpTo(K[Len(cs)], by(Len(cs) + 1))

\* An iterator exists, and no call of it panics.
QueryTypeOK ==
    /\ found \in Seq(Rows)
    /\ Fresh(cs)
    /\ pos \in 0..Len(found)
    /\ DOMAIN stages = 1..Len(cs)
    /\ qpc \in {"idle", "call", "return"}
    /\ lvl \in 0..Len(cs)
    /\ seen \in Seq(Rows \cup {nil})

\* The inductive invariant of an iterator without To.
QueryInv ==
    /\ QueryTypeOK
    /\ \A i \in 1..Len(cs) : StageInv(i)
    /\ ReturnInv
    /\ SeenInv

\* What the proofs below use again and again.
LEMMA Positions ==
    ASSUME QueryInv
    PROVE  /\ Len(cs) \in Nat /\ Len(found) \in Nat /\ pos \in Nat
           /\ \A i \in 0..Len(cs) : K[i] \in SUBSET (1..Len(found))
           /\ \A i \in 1..Len(cs) :
                 K[i] = cut(found, K[i - 1], cs[i]) /\ K[i] \subseteq K[i - 1]
           /\ \A i, j \in 0..Len(cs) : i <= j => K[j] \subseteq K[i]
           /\ K[0] = 1..Len(found)
           /\ \A i \in Nat : by(i) \in Nat
  <1>. USE DEF QueryInv
  <1>0. Fresh(cs)
    BY DEF QueryTypeOK
  <1>1. Len(cs) \in Nat
    BY <1>0, SMT DEF Fresh
  <1>2. Len(found) \in Nat
    BY SMT DEF QueryTypeOK
  <1>3. pos \in Nat
    BY <1>2, SMT DEF QueryTypeOK
  <1>4. /\ \A i \in 0..Len(cs) : K[i] \in SUBSET (1..Len(found))
        /\ \A i \in 1..Len(cs) : K[i] = cut(found, K[i - 1], cs[i]) /\ K[i] \subseteq K[i - 1]
        /\ K[0] = 1..Len(found)
    BY <1>0, <1>2, KeptSub, SMT DEF K
  <1>5. \A i, j \in 0..Len(cs) : i <= j => K[j] \subseteq K[i]
    BY <1>0, <1>2, KeptDown DEF K
  <1>6. ASSUME NEW i \in Nat PROVE by(i) \in Nat
    <2>1. CASE qpc = "return" /\ ret # nil /\ lvl < i
      <3>1. pos \in K[lvl]
        BY <2>1 DEF ReturnInv
      <3>2. pos \in 1..Len(found)
        BY <1>4, <3>1 DEF QueryTypeOK
      <3>3. pos - 1 \in Nat
        BY <1>2, <3>2, SMT
      <3>. QED
        BY <2>1, <3>3 DEF by
    <2>. QED
      BY <1>3, <2>1 DEF by
  <1>. QED
    BY <1>1, <1>2, <1>3, <1>4, <1>5, <1>6

\* A stage, and what was returned, keep their invariants if no position that
\* concerns them is dealt with.
Idles(P, i) ==
    \/ by(i)' = by(i)
    \/ by(i) = pos - 1 /\ by(i)' = pos /\ pos \in Nat \ {0} /\ pos \notin P

\* Then they count the same,
LEMMA CountSame ==
    ASSUME NEW N \in Nat, NEW P \in SUBSET (1..N), NEW p \in Nat, NEW q \in Nat,
           q = p \/ (p = q - 1 /\ q \in Nat \ {0} /\ q \notin P)
    PROVE  upTo(P, q) = upTo(P, p) /\ p <= q
  <1>1. CASE q = p
    BY <1>1, SMT
  <1>2. CASE p = q - 1 /\ q \in Nat \ {0} /\ q \notin P
    <2>1. upTo(P, q) = upTo(P, q - 1)
      BY <1>2, UpToNext
    <2>. QED
      BY <1>2, <2>1, SMT
  <1>. QED
    BY <1>1, <1>2

\* and if nothing was left, nothing is.
LEMMA NoneLater ==
    ASSUME NEW N \in Nat, NEW P \in SUBSET (1..N), NEW p \in Nat, NEW q \in Nat,
           p <= q, none(P, p)
    PROVE  none(P, q)
  <1>. SUFFICES ASSUME NEW x \in P PROVE x <= q
    BY DEF none
  <1>1. x \in 1..N /\ x <= p
    BY DEF none
  <1>. QED
    BY <1>1, SMT

\* So a stage keeps its invariant,
LEMMA StageKept ==
    ASSUME QueryInv, cs' = cs, found' = found, NEW i \in 1..Len(cs), stages'[i] = stages[i],
           Idles(K[i - 1], i), by(i)' \in Nat
    PROVE  StageInv(i)'
  <1>. USE Positions
  <1>0. StageInv(i)
    BY DEF QueryInv
  <1>1. K' = K
    BY DEF K
  <1>2. CASE cs[i].kind = "where"
    BY <1>0, <1>2 DEF StageInv
  <1>3. CASE cs[i].kind = "limit"
    <2>1. i - 1 \in 0..Len(cs) /\ i \in 0..Len(cs) /\ i \in Nat
      <3>. HIDE Positions
      <3>1. Len(cs) \in Nat
        BY Positions
      <3>. QED
        BY <3>1, SMT
    <2>. DEFINE p == by(i)
                q == by(i)'
    <2>2. p \in Nat /\ q \in Nat
      BY <2>1
    <2>3. q = p \/ (p = q - 1 /\ q \in Nat \ {0} /\ q \notin K[i - 1])
      BY DEF Idles
    <2>. HIDE DEF p, q
    <2>4. upTo(K[i - 1], q) = upTo(K[i - 1], p) /\ p <= q
      BY <2>1, <2>2, <2>3, CountSame
    <2>5. none(K[i - 1], p) => none(K[i - 1], q)
      BY <2>1, <2>2, <2>4, NoneLater
    <2>6. none(K[i], p) => none(K[i], q)
      BY <2>1, <2>2, <2>4, NoneLater
    <2>7. LimitInv(i)
      BY <1>0, <1>3 DEF StageInv
    <2>8. LimitInv(i)'
      BY <1>1, <2>4, <2>5, <2>6, <2>7 DEF LimitInv, p, q
    <2>. QED
      BY <1>3, <2>8 DEF StageInv
  <1>. QED
    BY <1>2, <1>3 DEF StageInv

\* and so does what the caller has seen.
LEMMA SeenKept ==
    ASSUME QueryInv, cs' = cs, found' = found, seen' = seen,
           NEW top \in Nat, top = Len(cs) + 1, Idles(K[Len(cs)], top), by(top)' \in Nat
    PROVE  SeenInv'
  <1>. USE Positions
  <1>1. K' = K
    BY DEF K
  <1>. DEFINE p == by(top)
              q == by(top)'
              P == K[Len(cs)]
  <1>2. Len(cs) \in 0..Len(cs)
    BY SMT
  <1>3. p \in Nat /\ q \in Nat /\ P \in SUBSET (1..Len(found))
    BY <1>2
  <1>4. q = p \/ (p = q - 1 /\ q \in Nat \ {0} /\ q \notin P)
    BY DEF Idles
  <1>5. SeenUpTo(P, p)
    BY DEF QueryInv, SeenInv
  <1>6. SeenUpTo(P, q) => SeenInv'
    <2>1. SeenInv' <=> SeenUpTo(K[Len(cs)], by(Len(cs) + 1))'
      BY DEF SeenInv
    <2>2. by(Len(cs) + 1)' = q
      BY DEF by
    <2>. QED
      BY <1>1, <2>1, <2>2 DEF SeenUpTo
  <1>. HIDE DEF p, q, P
  <1>7. upTo(P, q) = upTo(P, p) /\ p <= q
    BY <1>3, <1>4, CountSame
  <1>8. none(P, p) => none(P, q)
    BY <1>3, <1>7, NoneLater
  <1>. QED
    BY <1>5, <1>6, <1>7, <1>8 DEF SeenUpTo
-----------------------------------------------------------------------------
\* All that a step has to keep if neither the stages nor what was returned
\* to the caller change.
LEMMA QuietStep ==
    ASSUME QueryInv, UNCHANGED <<cs, found, stages, seen>>, QueryTypeOK', ReturnInv',
           \A i \in 1..(Len(cs) + 1) : by(i)' \in Nat,
           \A i \in 1..(Len(cs) + 1) :
              Idles(K[i - 1], i) \/ (i <= Len(cs) /\ cs[i].kind = "where")
    PROVE  QueryInv'
  <1>0. Len(cs) \in Nat
    BY Positions
  <1>1. ASSUME NEW i \in 1..Len(cs) PROVE StageInv(i)'
    <2>1. i \in 1..(Len(cs) + 1)
      BY <1>0, SMT
    <2>2. CASE cs[i].kind = "where"
      <3>1. StageInv(i)
        BY DEF QueryInv
      <3>. QED
        BY <2>2, <3>1 DEF StageInv
    <2>3. CASE Idles(K[i - 1], i)
      BY <2>1, <2>3, StageKept
    <2>. QED
      BY <2>1, <2>2, <2>3
  <1>2. SeenInv'
    <2>1. PICK top \in Nat : top = Len(cs) + 1
      BY <1>0, SMT
    <2>2. top \in 1..(Len(cs) + 1) /\ ~(top <= Len(cs)) /\ top - 1 = Len(cs)
      BY <1>0, <2>1, SMT
    <2>3. Idles(K[Len(cs)], top) /\ by(top)' \in Nat
      BY <2>2
    <2>. QED
      BY <2>1, <2>3, SeenKept
  <1>3. \A i \in 1..Len(cs') : StageInv(i)'
    BY <1>1
  <1>. QED
    BY <1>2, <1>3 DEF QueryInv

\* A step of somebody else.
LEMMA QueryStutters == ASSUME QueryInv, UNCHANGED qvars PROVE QueryInv'
  <1>1. UNCHANGED <<cs, found, pos, stages, qpc, lvl, ret, seen>>
    BY DEF qvars
  <1>2. QueryTypeOK /\ ReturnInv
    BY DEF QueryInv
  <1>3. QueryTypeOK'
    BY <1>1, <1>2 DEF QueryTypeOK
  <1>4. ReturnInv'
    <2>1. K' = K
      BY <1>1 DEF K
    <2>. QED
      BY <1>1, <1>2, <2>1 DEF ReturnInv
  <1>5. \A i : by(i)' = by(i)
    BY <1>1 DEF by
  <1>6. ASSUME NEW i \in 1..(Len(cs) + 1) PROVE by(i)' \in Nat /\ Idles(K[i - 1], i)
    <2>1. i \in Nat
      BY Positions, SMT
    <2>. QED
      BY <1>5, <2>1, Positions DEF Idles
  <1>. QED
    BY <1>1, <1>3, <1>4, <1>6, QuietStep

\* The caller calls Next.
LEMMA CallKept == ASSUME QueryInv, NextCall PROVE QueryInv'
  <1>. USE DEF NextCall
  <1>1. Len(cs) \in Nat /\ pos \in Nat
    BY Positions
  <1>2. QueryTypeOK'
    <2>1. lvl' \in 0..Len(cs')
      BY <1>1, SMT
    <2>. QED
      BY <2>1 DEF QueryInv, QueryTypeOK
  <1>3. \A i : by(i) = pos /\ by(i)' = pos
    BY DEF by
  <1>4. ReturnInv'
    BY DEF ReturnInv
  <1>. QED
    BY <1>1, <1>2, <1>3, <1>4, QuietStep DEF Idles

\* The table's iterator returns a row, which no stage has dealt with, or nil.
LEMMA IteratorKept == ASSUME QueryInv, iteratorNext PROVE QueryInv'
  <1>. USE DEF iteratorNext
  <1>1. Len(cs) \in Nat /\ Len(found) \in Nat /\ pos \in Nat /\ K[0] = 1..Len(found)
    BY Positions
  <1>2. K' = K
    BY DEF K
  <1>3. pos \in 0..Len(found) /\ found \in Seq(Rows) /\ lvl = 0
    BY DEF QueryInv, QueryTypeOK
  <1>4. pos' \in 0..Len(found)
    BY <1>1, <1>3, SMT
  <1>5. QueryTypeOK'
    BY <1>4 DEF QueryInv, QueryTypeOK
  <1>6. \A i : by(i) = pos
    BY DEF by
  <1>7. CASE pos < Len(found)
    <2>1. pos' = pos + 1 /\ ret' = found[pos + 1] /\ lvl' = 0 /\ qpc' = "return"
      BY <1>3, <1>7
    <2>2. pos + 1 \in 1..Len(found) /\ (pos + 1) - 1 = pos
      BY <1>1, <1>7, SMT
    <2>3. found[pos + 1] \in Rows
      BY <1>3, <2>2, SMT
    <2>4. ret' # nil
      BY <2>1, <2>3, QueryOK
    <2>5. ReturnInv'
      BY <1>1, <1>2, <2>1, <2>2, <2>4 DEF ReturnInv
    <2>6. ASSUME NEW i \in 1..(Len(cs) + 1) PROVE by(i)' = pos
      <3>1. 0 < i
        BY SMT
      <3>. QED
        BY <2>1, <2>2, <2>4, <3>1 DEF by
    <2>. QED
      BY <1>1, <1>5, <1>6, <2>5, <2>6, QuietStep DEF Idles
  <1>8. CASE ~(pos < Len(found))
    <2>1. pos' = pos /\ ret' = nil /\ lvl' = 0 /\ qpc' = "return"
      BY <1>3, <1>8
    <2>2. \A q \in 1..Len(found) : q <= pos
      BY <1>1, <1>8, SMT
    <2>3. ReturnInv'
      BY <1>1, <1>2, <2>1, <2>2 DEF ReturnInv, none
    <2>4. \A i : by(i)' = pos
      BY <2>1 DEF by
    <2>. QED
      BY <1>1, <1>5, <1>6, <2>3, <2>4, QuietStep DEF Idles
  <1>. QED
    BY <1>7, <1>8

\* A stage calls the one below, unless it has stopped.
LEMMA DownKept == ASSUME QueryInv, filterCall \/ predicateCall PROVE QueryInv'
  <1>. USE DEF filterCall, predicateCall
  <1>1. Len(cs) \in Nat /\ Len(found) \in Nat /\ pos \in Nat /\ lvl \in 0..Len(cs)
    BY Positions DEF QueryInv, QueryTypeOK
  <1>2. K' = K
    BY DEF K
  <1>3. UNCHANGED <<cs, found, pos, stages, seen>> /\ qpc = "call" /\ lvl > 0
    OBVIOUS
  <1>4. lvl - 1 \in 0..Len(cs)
    BY <1>1, <1>3, SMT
  <1>5. QueryTypeOK'
    BY <1>3, <1>4 DEF QueryInv, QueryTypeOK
  <1>6. \A i : by(i) = pos
    BY <1>3 DEF by
  <1>7. CASE qpc' = "call"
    <2>1. \A i : by(i)' = pos
      BY <1>3, <1>7 DEF by
    <2>2. ReturnInv'
      BY <1>7 DEF ReturnInv
    <2>. QED
      BY <1>1, <1>3, <1>5, <1>6, <2>1, <2>2, QuietStep DEF Idles
  <1>8. CASE qpc' # "call"
    <2>1. /\ qpc' = "return" /\ ret' = nil /\ lvl' = lvl
          /\ stages[lvl].stop /\ stages[lvl].kind # "where"
      BY <1>3, <1>8
    <2>2. lvl \in 1..Len(cs)
      BY <1>1, <1>3, SMT
    <2>3. StageInv(lvl) /\ (cs[lvl].kind = "where" \/ cs[lvl].kind = "limit")
      BY <2>2 DEF QueryInv, QueryTypeOK, Fresh
    <2>4. LimitInv(lvl)
      BY <2>1, <2>3 DEF StageInv
    <2>5. none(K[lvl], pos)
      BY <1>6, <2>1, <2>4 DEF LimitInv
    <2>6. ReturnInv'
      BY <1>2, <1>3, <2>1, <2>5 DEF ReturnInv
    <2>7. \A i : by(i)' = pos
      BY <1>3, <2>1 DEF by
    <2>. QED
      BY <1>1, <1>3, <1>5, <1>6, <2>6, <2>7, QuietStep DEF Idles
  <1>. QED
    BY <1>7, <1>8

\* A filterIter returns what its Matcher accepts, and asks for more otherwise.
LEMMA FilterKept == ASSUME QueryInv, filterNext PROVE QueryInv'
  <1>. USE DEF filterNext
  <1>1. Len(cs) \in Nat /\ Len(found) \in Nat /\ pos \in Nat /\ lvl \in 0..Len(cs)
    BY Positions DEF QueryInv, QueryTypeOK
  <1>2. K' = K
    BY DEF K
  <1>3. /\ UNCHANGED <<cs, found, pos, stages, ret, seen>> /\ qpc = "return" /\ lvl < Len(cs)
        /\ stages[lvl + 1].kind = "where"
    OBVIOUS
  <1>. DEFINE l == lvl + 1
  <1>4. l \in 1..Len(cs) /\ l \in 0..Len(cs) /\ l - 1 = lvl /\ l \in Nat
    BY <1>1, <1>3, SMT
  <1>5. cs[l].kind = "where" /\ stages[l] = cs[l]
    <2>1. StageInv(l) /\ (cs[l].kind = "where" \/ cs[l].kind = "limit")
      BY <1>4 DEF QueryInv, QueryTypeOK, Fresh
    <2>2. cs[l].kind = "limit" => stages[l].kind = "limit"
      BY <2>1 DEF StageInv, LimitInv, Limits
    <2>. QED
      BY <1>3, <2>1, <2>2 DEF StageInv
  <1>6. K[l] = {p \in K[lvl] : found[p] \in cs[l].match}
    <2>1. K[l] = cut(found, K[l - 1], cs[l])
      BY <1>4, Positions
    <2>. QED
      BY <1>4, <1>5, <2>1 DEF cut
  <1>7. IF ret = nil THEN none(K[lvl], pos) ELSE pos \in K[lvl] /\ ret = found[pos]
    BY <1>3 DEF QueryInv, ReturnInv
  <1>8. ret # Panic
    <2>1. ret # nil => pos \in 1..Len(found)
      BY <1>1, <1>7, Positions
    <2>2. ret # nil => ret \in Rows
      BY <1>7, <2>1, SMT DEF QueryInv, QueryTypeOK
    <2>. QED
      BY <2>2, QueryOK
  <1>. HIDE DEF l
  <1>9. CASE ret = nil \/ ret \in cs[l].match
    <2>1. lvl' = l /\ qpc' = "return"
      BY <1>3, <1>5, <1>9 DEF l
    <2>2. QueryTypeOK'
      BY <1>3, <1>4, <2>1 DEF QueryInv, QueryTypeOK
    <2>3. ReturnInv'
      BY <1>2, <1>3, <1>6, <1>7, <1>9, <2>1 DEF ReturnInv, none
    <2>4. \A i \in 1..(Len(cs) + 1) : lvl < i <=> l < i \/ i = l
      BY <1>1, <1>4, SMT
    <2>5. ASSUME NEW i \in 1..(Len(cs) + 1)
          PROVE  by(i)' = by(i) \/ i = l
      BY <1>3, <2>1, <2>4 DEF by
    <2>6. \A i \in 1..(Len(cs) + 1) : by(i)' \in Nat
      <3>. SUFFICES ASSUME NEW i \in 1..(Len(cs) + 1) PROVE by(i)' \in Nat
        OBVIOUS
      <3>1. i \in Nat
        BY <1>1, SMT
      <3>2. CASE i # l
        BY <2>5, <3>1, <3>2, Positions
      <3>3. CASE i = l
        <4>1. ~(l < l)
          BY <1>4, SMT
        <4>2. by(i)' = pos
          BY <1>3, <2>1, <3>3, <4>1 DEF by
        <4>. QED
          BY <1>1, <4>2
      <3>. QED
        BY <3>2, <3>3
    <2>7. l <= Len(cs)
      BY <1>1, <1>4, SMT
    <2>. QED
      BY <1>3, <1>5, <2>2, <2>3, <2>5, <2>6, <2>7, QuietStep DEF Idles
  <1>10. CASE ~(ret = nil \/ ret \in cs[l].match)
    <2>1. lvl' = lvl /\ qpc' = "call"
      BY <1>3, <1>5, <1>8, <1>10 DEF l
    <2>2. QueryTypeOK'
      BY <1>1, <1>3, <2>1 DEF QueryInv, QueryTypeOK
    <2>3. ReturnInv'
      BY <2>1 DEF ReturnInv
    <2>4. \A i : by(i)' = pos
      BY <1>3, <2>1 DEF by
    <2>5. pos \in Nat \ {0} /\ pos \notin K[l]
      <3>1. pos \in 1..Len(found)
        BY <1>1, <1>7, <1>10, Positions
      <3>2. pos \in Nat \ {0}
        BY <1>1, <3>1, SMT
      <3>. QED
        BY <1>6, <1>7, <1>10, <3>2
    <2>6. ASSUME NEW i \in 1..(Len(cs) + 1) 
          PROVE  Idles(K[i - 1], i) \/ (i <= Len(cs) /\ cs[i].kind = "where")
      <3>1. CASE i <= lvl
        <4>1. ~(lvl < i)
          BY <1>1, <3>1, SMT
        <4>2. by(i) = pos
          BY <4>1 DEF by
        <4>. QED
          BY <2>4, <4>2 DEF Idles
      <3>2. CASE i = l
        <4>1. l <= Len(cs)
          BY <1>1, <1>4, SMT
        <4>. QED
          BY <1>5, <3>2, <4>1
      <3>3. CASE l < i
        <4>1. lvl < i /\ i - 1 \in 0..Len(cs) /\ l <= i - 1
          BY <1>1, <1>4, <3>3, SMT
        <4>2. K[i - 1] \subseteq K[l]
          BY <1>4, <4>1, Positions
        <4>3. by(i) = pos - 1
          BY <1>3, <1>10, <4>1 DEF by
        <4>. QED
          BY <2>4, <2>5, <4>2, <4>3 DEF Idles
      <3>4. i <= lvl \/ i = l \/ l < i
        BY <1>1, <1>4, SMT
      <3>. QED
        BY <3>1, <3>2, <3>3, <3>4
    <2>. QED
      BY <1>1, <1>3, <2>2, <2>3, <2>4, <2>6, QuietStep
  <1>. QED
    BY <1>9, <1>10

\* What the Matcher of a Limit says, and leaves behind.
Counted(st, r) == [Match(st, r).st EXCEPT !.stop = ~Match(st, r).match]

\* It counts down whatever it is given, and stops at the first that it refuses.
LEMMA LimitMatches ==
    ASSUME NEW st \in Limits, NEW r
    PROVE  /\ ~Match(st, r).panics
           /\ Match(st, r).match <=> st.left > 0
           /\ Counted(st, r) \in Limits
           /\ Counted(st, r).left = st.left - 1
           /\ Counted(st, r).stop <=> ~(st.left > 0)
  <1>. DEFINE next == [st EXCEPT !.left = st.left - 1]
              m == st.left > 0
              stop == ~m
  <1>1. Match(st, r) = limitMatch(st, r)
    BY DEF Match, Limits
  <1>2. Match(st, r) = [st |-> next, match |-> m, panics |-> FALSE]
    BY <1>1 DEF limitMatch
  <1>4. next \in Limits /\ next.left = st.left - 1
    BY SMT DEF Limits
  <1>5. stop \in BOOLEAN /\ m \in BOOLEAN
    BY SMT DEF Limits
  <1>. HIDE DEF next, m
  <1>3. ~Match(st, r).panics /\ Match(st, r).match = m /\ Match(st, r).st = next
    BY <1>2, <1>5, SMT
  <1>6. Counted(st, r) = [next EXCEPT !.stop = stop]
    BY <1>3 DEF Counted
  <1>. HIDE DEF stop
  <1>7. /\ [next EXCEPT !.stop = stop] \in Limits
        /\ [next EXCEPT !.stop = stop].left = next.left
        /\ [next EXCEPT !.stop = stop].stop = stop
    BY <1>4, <1>5 DEF Limits
  <1>. QED
    BY <1>3, <1>4, <1>6, <1>7 DEF m, stop

\* A Limit counts what it is given, be it nil, and stops after the last that
\* it may return.
LEMMA PredicateKept == ASSUME QueryInv, predicateNext PROVE QueryInv'
  <1>1. Len(cs) \in Nat /\ Len(found) \in Nat /\ pos \in Nat /\ lvl \in 0..Len(cs)
    BY Positions DEF QueryInv, QueryTypeOK
  <1>2. /\ UNCHANGED <<cs, found, pos, qpc, seen>> /\ qpc = "return" /\ lvl < Len(cs)
        /\ stages[lvl + 1].kind # "where" /\ lvl' = lvl + 1
    BY DEF predicateNext
  <1>3. K' = K
    BY <1>2 DEF K
  <1>l. PICK l \in Nat : l = lvl + 1
    BY <1>1, SMT
  <1>. DEFINE st == stages[l]
              c == Counted(st, ret)
  <1>4. l \in 1..Len(cs) /\ l \in 0..Len(cs) /\ l - 1 = lvl /\ l \in Nat /\ ~(l < l) /\ lvl < l
    BY <1>1, <1>2, <1>l, SMT
  <1>5. cs[l].kind = "limit" /\ cs[l].left \in Int /\ LimitInv(l)
    <2>1. /\ StageInv(l)
          /\ cs[l].kind = "where" \/ (cs[l].kind = "limit" /\ cs[l].left \in Int)
      BY <1>4 DEF QueryInv, QueryTypeOK, Fresh
    <2>2. cs[l].kind = "where" => stages[l].kind = "where"
      BY <2>1 DEF StageInv
    <2>. QED
      BY <1>2, <1>l, <2>1, <2>2 DEF StageInv
  <1>6. /\ st \in Limits
        /\ st.left <= cs[l].left - upTo(K[lvl], by(l))
        /\ st.left = cs[l].left - upTo(K[lvl], by(l)) \/ none(K[lvl], by(l))
        /\ st.stop => none(K[l], by(l))
    BY <1>4, <1>5 DEF LimitInv
  <1>7. /\ K[l] = {p \in K[lvl] : upTo(K[lvl], p) <= cs[l].left}
        /\ K[lvl] \in SUBSET (1..Len(found))
    <2>1. K[l] = cut(found, K[l - 1], cs[l])
      BY <1>4, Positions
    <2>. QED
      BY <1>1, <1>4, <1>5, <2>1, Positions DEF cut
  <1>8. IF ret = nil THEN none(K[lvl], pos) ELSE pos \in K[lvl] /\ ret = found[pos]
    BY <1>2 DEF QueryInv, ReturnInv
  <1>9. ret # Panic
    <2>1. ret # nil => pos \in 1..Len(found)
      BY <1>7, <1>8
    <2>2. ret # nil => ret \in Rows
      BY <1>8, <2>1, SMT DEF QueryInv, QueryTypeOK
    <2>. QED
      BY <2>2, QueryOK
  <1>10. /\ ~Match(st, ret).panics /\ (Match(st, ret).match <=> st.left > 0)
         /\ c \in Limits /\ c.left = st.left - 1 /\ (c.stop <=> ~(st.left > 0))
    BY <1>6, LimitMatches
  <1>11. /\ stages' = [stages EXCEPT ![l] = c]
         /\ ret' = IF st.left > 0 THEN ret ELSE nil
    BY <1>9, <1>10, <1>l DEF predicateNext, Counted
  <1>. HIDE DEF st, c
  <1>12. DOMAIN stages = 1..Len(cs)
    BY DEF QueryInv, QueryTypeOK
  <1>13. stages'[l] = c /\ \A i \in 1..Len(cs) : i # l => stages'[i] = stages[i]
    BY <1>4, <1>11, <1>12
  <1>14. QueryTypeOK'
    <2>1. DOMAIN stages' = 1..Len(cs)
      BY <1>11, <1>12
    <2>. QED
      BY <1>2, <1>4, <1>l, <2>1 DEF QueryInv, QueryTypeOK
  <1>15. st.left \in Int /\ cs[l].left \in Int /\ upTo(K[lvl], pos) \in Nat
    <2>1. st.left \in Int
      BY <1>6 DEF Limits
    <2>. QED
      BY <1>1, <1>5, <1>7, <2>1, UpToType
  <1>16. by(l)' = pos /\ lvl' = l
    BY <1>2, <1>4, <1>l DEF by
  \* what the stage itself keeps
  <1>17. /\ c.left <= cs[l].left - upTo(K[lvl], pos)
         /\ c.left = cs[l].left - upTo(K[lvl], pos) \/ none(K[lvl], pos)
         /\ c.stop => none(K[l], pos)
         /\ ret' = nil => none(K[l], pos)
         /\ ret' # nil => pos \in K[l] /\ ret' = found[pos]
         /\ ret # nil /\ ret' = nil => pos \notin K[l]
    <2>1. CASE ret = nil
      <3>1. by(l) = pos
        BY <2>1 DEF by
      <3>2. none(K[lvl], pos) /\ none(K[l], pos)
        BY <1>7, <1>8, <2>1 DEF none
      <3>3. st.left <= cs[l].left - upTo(K[lvl], pos)
        BY <1>6, <3>1
      <3>4. c.left <= cs[l].left - upTo(K[lvl], pos)
        BY <1>10, <1>15, <3>3, SMT
      <3>5. ret' = nil
        BY <1>11, <2>1
      <3>. QED
        BY <2>1, <3>2, <3>4, <3>5
    <2>2. CASE ret # nil
      <3>1. by(l) = pos - 1
        BY <1>2, <1>4, <2>2 DEF by
      <3>2. pos \in K[lvl] /\ ret = found[pos]
        BY <1>8, <2>2
      <3>3. pos \in 1..Len(found)
        BY <1>7, <3>2
      <3>4. pos \in Nat \ {0} /\ ~(pos <= pos - 1) /\ pos - 1 \in Nat
        BY <1>1, <3>3, SMT
      <3>5. ~none(K[lvl], pos - 1)
        BY <3>2, <3>4 DEF none
      <3>6. upTo(K[lvl], pos) = upTo(K[lvl], pos - 1) + 1
        BY <1>1, <1>7, <3>2, <3>4, UpToNext
      <3>7. st.left = cs[l].left - upTo(K[lvl], pos - 1)
        BY <1>6, <3>1, <3>5
      <3>8. upTo(K[lvl], pos - 1) \in Nat
        BY <1>1, <1>7, <3>4, UpToType
      <3>9. /\ c.left = cs[l].left - upTo(K[lvl], pos)
            /\ c.left <= cs[l].left - upTo(K[lvl], pos)
            /\ st.left > 0 <=> upTo(K[lvl], pos) <= cs[l].left
        BY <1>10, <1>15, <3>6, <3>7, <3>8, SMT
      <3>10. st.left > 0 <=> pos \in K[l]
        BY <1>7, <3>2, <3>9
      <3>11. ~(st.left > 0) => none(K[l], pos)
        <4>. SUFFICES ASSUME ~(st.left > 0), NEW q \in K[l] PROVE q <= pos
          BY DEF none
        <4>1. q \in K[lvl] /\ upTo(K[lvl], q) <= cs[l].left /\ q \in 1..Len(found)
          BY <1>7
        <4>2. q \in Nat
          BY <4>1, SMT
        <4>3. pos <= q => upTo(K[lvl], pos) <= upTo(K[lvl], q)
          BY <1>1, <1>7, <4>2, UpToMono
        <4>4. upTo(K[lvl], q) \in Nat
          BY <1>1, <1>7, <4>2, UpToType
        <4>. QED
          BY <1>1, <1>15, <3>9, <4>1, <4>2, <4>3, <4>4, SMT
      <3>. QED
        BY <1>10, <1>11, <2>2, <3>2, <3>9, <3>10, <3>11
    <2>. QED
      BY <2>1, <2>2
  <1>18. ReturnInv'
    BY <1>2, <1>3, <1>16, <1>17 DEF ReturnInv
  \* the stages above, and the caller
  <1>19. ASSUME NEW i \in 1..(Len(cs) + 1), i # l PROVE Idles(K[i - 1], i) /\ by(i)' \in Nat
    <2>0. i \in Nat
      BY <1>1, SMT
    <2>1. CASE i < l
      <3>1. ~(lvl < i) /\ ~(l < i)
        BY <1>1, <1>4, <2>1, SMT
      <3>2. by(i) = pos /\ by(i)' = pos
        BY <1>2, <1>16, <3>1 DEF by
      <3>. QED
        BY <1>1, <3>2 DEF Idles
    <2>2. CASE l < i
      <3>1. lvl < i /\ i - 1 \in 0..Len(cs) /\ l <= i - 1
        BY <1>1, <1>4, <2>2, SMT
      <3>2. CASE ret = nil \/ ret' # nil
        <4>1. ret = nil <=> ret' = nil
          BY <1>11, <3>2
        <4>2. by(i)' = by(i)
          BY <1>2, <1>16, <2>2, <3>1, <4>1 DEF by
        <4>. QED
          BY <2>0, <4>2, Positions DEF Idles
      <3>3. CASE ret # nil /\ ret' = nil
        <4>1. by(i) = pos - 1 /\ by(i)' = pos
          BY <1>2, <3>1, <3>3 DEF by
        <4>2. pos \notin K[l] /\ pos \in K[lvl]
          BY <1>8, <1>17, <3>3
        <4>3. pos \notin K[i - 1]
          BY <1>4, <3>1, <4>2, Positions
        <4>4. pos \in 1..Len(found)
          BY <1>7, <4>2
        <4>5. pos \in Nat \ {0}
          BY <1>1, <4>4, SMT
        <4>. QED
          BY <4>1, <4>3, <4>5, <1>1 DEF Idles
      <3>. QED
        BY <3>2, <3>3
    <2>3. i < l \/ l < i
      BY <1>4, <1>19, <2>0, SMT
    <2>. QED
      BY <2>1, <2>2, <2>3
  <1>20. ASSUME NEW i \in 1..Len(cs) PROVE StageInv(i)'
    <2>1. i \in 1..(Len(cs) + 1)
      BY <1>1, SMT
    <2>2. CASE i # l
      BY <1>2, <1>13, <1>19, <2>1, <2>2, StageKept
    <2>3. CASE i = l
      <3>1. LimitInv(l)'
        BY <1>2, <1>3, <1>4, <1>10, <1>13, <1>16, <1>17 DEF LimitInv
      <3>. QED
        BY <1>2, <1>5, <2>3, <3>1 DEF StageInv
    <2>. QED
      BY <2>2, <2>3
  <1>21. SeenInv'
    <2>1. PICK top \in Nat : top = Len(cs) + 1
      BY <1>1, SMT
    <2>2. top \in 1..(Len(cs) + 1) /\ top # l /\ top - 1 = Len(cs)
      BY <1>1, <1>4, <2>1, SMT
    <2>3. Idles(K[Len(cs)], top) /\ by(top)' \in Nat
      BY <1>19, <2>2
    <2>. QED
      BY <1>2, <2>1, <2>3, SeenKept
  <1>22. \A i \in 1..Len(cs') : StageInv(i)'
    BY <1>2, <1>20
  <1>. QED
    BY <1>14, <1>18, <1>21, <1>22 DEF QueryInv

\* Next returns to its caller, who has the row of one more position, or nil
\* once none is left.
LEMMA ReturnKept == ASSUME QueryInv, NextReturn PROVE QueryInv'
  <1>1. Len(cs) \in Nat /\ Len(found) \in Nat /\ pos \in Nat
    BY Positions
  <1>2. /\ UNCHANGED <<cs, found, pos, stages, lvl, ret>> /\ qpc = "return" /\ lvl = Len(cs)
        /\ seen' = Append(seen, ret) /\ qpc' = IF ret = Panic THEN "panic" ELSE "idle"
    BY DEF NextReturn
  <1>3. K' = K
    BY <1>2 DEF K
  <1>. DEFINE P == K[Len(cs)]
              p == by(Len(cs) + 1)
              s == Len(seen)
  <1>4. P \in SUBSET (1..Len(found))
    <2>1. Len(cs) \in 0..Len(cs)
      BY <1>1, SMT
    <2>. QED
      BY <2>1, Positions
  <1>5. IF ret = nil THEN none(P, pos) ELSE pos \in P /\ ret = found[pos]
    BY <1>2 DEF QueryInv, ReturnInv
  <1>6. ret \in Rows \cup {nil} /\ ret # Panic
    <2>1. ret # nil => pos \in 1..Len(found)
      BY <1>4, <1>5
    <2>2. ret # nil => ret \in Rows
      BY <1>5, <2>1, SMT DEF QueryInv, QueryTypeOK
    <2>. QED
      BY <2>2, QueryOK
  <1>7. seen \in Seq(Rows \cup {nil})
    BY DEF QueryInv, QueryTypeOK
  <1>8. /\ seen' \in Seq(Rows \cup {nil}) /\ s \in Nat /\ Len(seen') = s + 1 /\ seen'[s + 1] = ret
        /\ \A i \in 1..s : seen'[i] = seen[i]
    BY <1>2, <1>6, <1>7, SMT
  <1>9. qpc' = "idle"
    BY <1>2, <1>6
  <1>10. QueryTypeOK'
    BY <1>2, <1>8, <1>9 DEF QueryInv, QueryTypeOK
  <1>11. ReturnInv'
    BY <1>9 DEF ReturnInv
  <1>12. \A i : by(i)' = pos
    BY <1>2, <1>9 DEF by
  <1>13. ASSUME NEW i \in 1..Len(cs) PROVE StageInv(i)'
    <2>1. ~(Len(cs) < i)
      BY <1>1, SMT
    <2>2. by(i) = pos
      BY <1>2, <2>1 DEF by
    <2>3. Idles(K[i - 1], i) /\ by(i)' \in Nat
      BY <1>1, <1>12, <2>2 DEF Idles
    <2>4. cs' = cs /\ found' = found /\ stages'[i] = stages[i]
      BY <1>2
    <2>. QED
      BY <2>3, <2>4, StageKept
  <1>14. /\ upTo(P, p) <= s
         /\ \A i \in 1..upTo(P, p) : \E q \in P : upTo(P, q) = i /\ seen[i] = found[q]
         /\ \A i \in 1..s : i > upTo(P, p) => seen[i] = nil /\ none(P, p)
    BY DEF QueryInv, SeenInv, SeenUpTo
  <1>15. Len(cs) < Len(cs) + 1
    BY <1>1, SMT
  <1>16. /\ upTo(P, pos) <= s + 1
         /\ \A i \in 1..upTo(P, pos) : \E q \in P : upTo(P, q) = i /\ seen'[i] = found[q]
         /\ \A i \in 1..(s + 1) : i > upTo(P, pos) => seen'[i] = nil /\ none(P, pos)
    <2>0. upTo(P, pos) \in Nat
      BY <1>1, <1>4, UpToType
    <2>1. CASE ret = nil
      <3>1. p = pos
        BY <2>1 DEF by
      <3>2. none(P, pos)
        BY <1>5, <2>1
      <3>. HIDE DEF P, p, s
      <3>3. upTo(P, pos) <= s
        BY <1>14, <3>1
      <3>4. upTo(P, pos) <= s + 1 /\ \A i \in 1..upTo(P, pos) : i \in 1..s
        BY <1>8, <2>0, <3>3, SMT
      <3>5. \A i \in 1..upTo(P, pos) : \E q \in P : upTo(P, q) = i /\ seen'[i] = found[q]
        BY <1>8, <1>14, <3>1, <3>4
      <3>6. \A i \in 1..(s + 1) : i \in 1..s \/ i = s + 1
        BY <1>8, SMT
      <3>7. \A i \in 1..(s + 1) : i > upTo(P, pos) => seen'[i] = nil
        BY <1>8, <1>14, <2>1, <3>1, <3>6
      <3>. QED
        BY <3>2, <3>4, <3>5, <3>7
    <2>2. CASE ret # nil
      <3>1. p = pos - 1
        BY <1>2, <1>15, <2>2 DEF by
      <3>2. pos \in P /\ ret = found[pos]
        BY <1>5, <2>2
      <3>3. pos \in 1..Len(found)
        BY <1>4, <3>2
      <3>4. pos \in Nat \ {0} /\ pos - 1 \in Nat /\ ~(pos <= pos - 1)
        BY <1>1, <3>3, SMT
      <3>. HIDE DEF P, p, s
      <3>5. upTo(P, pos) = upTo(P, p) + 1
        BY <1>1, <1>4, <3>1, <3>2, <3>4, UpToNext
      <3>6. upTo(P, p) \in Nat
        BY <1>1, <1>4, <3>1, <3>4, UpToType
      <3>7. ~none(P, p)
        BY <3>1, <3>2, <3>4 DEF none
      <3>8. ~(s \in 1..s /\ s > upTo(P, p))
        BY <1>14, <3>7
      <3>9. upTo(P, p) = s
        BY <1>8, <1>14, <3>6, <3>8, SMT
      <3>10. upTo(P, pos) = s + 1
        BY <3>5, <3>9
      <3>11. \A i \in 1..(s + 1) : (i \in 1..s \/ i = s + 1) /\ ~(i > s + 1)
        BY <1>8, SMT
      <3>12. \A i \in 1..(s + 1) : \E q \in P : upTo(P, q) = i /\ seen'[i] = found[q]
        <4>1. ASSUME NEW i \in 1..s
              PROVE  \E q \in P : upTo(P, q) = i /\ seen'[i] = found[q]
          BY <1>8, <1>14, <3>9, <4>1
        <4>2. upTo(P, pos) = s + 1 /\ seen'[s + 1] = found[pos]
          BY <1>8, <3>2, <3>10
        <4>. QED
          BY <3>2, <3>11, <4>1, <4>2
      <3>13. s + 1 <= s + 1
        BY <1>8, SMT
      <3>. QED
        BY <3>10, <3>11, <3>12, <3>13
    <2>. QED
      BY <2>1, <2>2
  <1>17. SeenInv'
    <2>1. by(Len(cs) + 1)' = pos
      BY <1>2, <1>9 DEF by
    <2>2. SeenInv' <=> SeenUpTo(K[Len(cs)], by(Len(cs) + 1))'
      BY DEF SeenInv
    <2>. QED
      BY <1>2, <1>3, <1>8, <1>16, <2>1, <2>2 DEF SeenUpTo
  <1>18. \A i \in 1..Len(cs') : StageInv(i)'
    BY <1>2, <1>13
  <1>. QED
    BY <1>10, <1>11, <1>17, <1>18 DEF QueryInv

\* Every step of the iterator keeps the invariant.
LEMMA QueryKept == ASSUME QueryInv, NextCall \/ NextStep PROVE QueryInv'
  BY CallKept, IteratorKept, DownKept, FilterKept, PredicateKept, ReturnKept DEF
     NextStep

\* The iterator that Query.Iter makes has it.
LEMMA QueryStarts ==
    ASSUME QueryInit, NEW rs \in Seq(Rows), NEW c, Fresh(c),
           found' = rs, cs' = c, stages' = c, qpc' = "idle", UNCHANGED <<pos, lvl, ret, seen>>
    PROVE  QueryInv'
  <1>1. Len(rs) \in Nat
    BY SMT
  <1>2. Len(c) \in Nat /\ DOMAIN c = 1..Len(c)
    BY SMT DEF Fresh
  <1>3. pos' = 0 /\ lvl' = 0 /\ seen' = <<>>
    BY DEF QueryInit
  <1>4. QueryTypeOK'
    <2>1. 0 \in 0..Len(rs) /\ 0 \in 0..Len(c) /\ <<>> \in Seq(Rows \cup {nil})
      BY <1>1, <1>2, SMT
    <2>. QED
      BY <1>2, <1>3, <2>1 DEF QueryTypeOK
  <1>5. \A i : by(i)' = 0
    BY <1>3 DEF by
  <1>. DEFINE k == kept(rs, c)
  <1>6. K' = k
    BY DEF K
  <1>7. \A i \in 0..Len(c) : k[i] \in SUBSET (1..Len(rs))
    BY <1>1, KeptSub, SMT
  <1>. HIDE DEF k
  <1>8. \A i \in 0..Len(c) : upTo(k[i], 0) = 0
    BY <1>1, <1>7, UpToZero
  <1>9. ASSUME NEW i \in 1..Len(c) PROVE StageInv(i)'
    <2>1. i - 1 \in 0..Len(c)
      BY <1>2, SMT
    <2>2. CASE c[i].kind = "where"
      BY <2>2 DEF StageInv
    <2>3. CASE c[i].kind # "where"
      <3>1. c[i].kind = "limit" /\ c[i].left \in Int /\ c[i] = Limit(c[i].left)
        BY <2>3 DEF Fresh
      <3>2. ASSUME NEW m \in Int PROVE Limit(m) \in Limits /\ ~Limit(m).stop
        BY SMT DEF Limit, Limits
      <3>3. c[i] \in Limits /\ ~c[i].stop
        BY <3>1, <3>2
      <3>4. c[i].left <= c[i].left - 0 /\ c[i].left = c[i].left - 0
        BY <3>1, SMT
      <3>5. LimitInv(i)'
        BY <1>5, <1>6, <1>8, <2>1, <3>3, <3>4 DEF LimitInv
      <3>. QED
        BY <3>1, <3>5 DEF StageInv
    <2>. QED
      BY <2>2, <2>3
  <1>10. ReturnInv'
    BY DEF ReturnInv
  <1>11. SeenInv'
    <2>1. by(Len(cs) + 1)' = 0
      BY <1>3 DEF by
    <2>2. Len(c) \in 0..Len(c) /\ 0 <= 0 /\ Len(<<>>) = 0 /\ 1..0 = {}
      BY <1>2, SMT
    <2>. QED
      BY <1>3, <1>6, <1>8, <2>1, <2>2 DEF SeenInv, SeenUpTo
  <1>. QED
    BY <1>4, <1>9, <1>10, <1>11 DEF QueryInv

\* Then what has been returned is what the query means.
LEMMA QueryReturns ==
    ASSUME QueryInv, NEW i \in DOMAIN seen
    PROVE  LET P == Meaning(found, cs) IN
           IF i <= Cardinality(P)
           THEN \E p \in P : upTo(P, p) = i /\ seen[i] = found[p]
           ELSE seen[i] = nil
  <1>. DEFINE P == K[Len(cs)]
              p == by(Len(cs) + 1)
  <1>1. P = Meaning(found, cs)
    BY DEF K, Meaning
  <1>2. Len(cs) \in Nat /\ Len(found) \in Nat
    BY Positions
  <1>3. Len(cs) \in 0..Len(cs) /\ Len(cs) + 1 \in Nat
    BY <1>2, SMT
  <1>4. P \in SUBSET (1..Len(found)) /\ p \in Nat
    BY <1>3, Positions
  <1>5. i \in 1..Len(seen) /\ i \in Nat
    BY SMT DEF QueryInv, QueryTypeOK
  <1>6. /\ \A j \in 1..upTo(P, p) : \E q \in P : upTo(P, q) = j /\ seen[j] = found[q]
        /\ \A j \in 1..Len(seen) : j > upTo(P, p) => seen[j] = nil /\ none(P, p)
    BY DEF QueryInv, SeenInv, SeenUpTo
  <1>. HIDE DEF P, p
  <1>7. /\ Cardinality(P) \in Nat /\ upTo(P, p) \in Nat /\ upTo(P, p) <= Cardinality(P)
        /\ none(P, p) => upTo(P, p) = Cardinality(P)
    BY <1>2, <1>4, UpToType
  <1>8. CASE i > upTo(P, p)
    <2>1. seen[i] = nil /\ Cardinality(P) = upTo(P, p)
      BY <1>5, <1>6, <1>7, <1>8
    <2>2. ~(i <= Cardinality(P))
      BY <1>5, <1>7, <1>8, <2>1, SMT
    <2>. QED
      BY <1>1, <2>1, <2>2
  <1>9. CASE ~(i > upTo(P, p))
    <2>1. i \in 1..upTo(P, p) /\ i <= Cardinality(P)
      BY <1>5, <1>7, <1>9, SMT
    <2>. QED
      BY <1>1, <1>6, <2>1
  <1>. QED
    BY <1>8, <1>9

\* A query's iterator keeps its constraints and the rows it goes over.
LEMMA IteratorFrame ==
    ASSUME NextCall \/ NextStep
    PROVE  /\ found' = found /\ cs' = cs
           /\ qpc # "none" /\ qpc # "failed" /\ qpc' # "failed"
  <1>1. CASE NextCall
    BY <1>1 DEF NextCall
  <1>2. CASE iteratorNext
    BY <1>2 DEF iteratorNext
  <1>3. CASE filterCall
    BY <1>3 DEF filterCall
  <1>4. CASE filterNext
    BY <1>4 DEF filterNext
  <1>5. CASE predicateCall
    BY <1>5 DEF predicateCall
  <1>6. CASE predicateNext
    BY <1>6 DEF predicateNext
  <1>7. CASE NextReturn
    BY <1>7 DEF NextReturn
  <1>. QED
    BY <1>1, <1>2, <1>3, <1>4, <1>5, <1>6, <1>7 DEF NextStep

\* First is a Limit of one.
LEMMA FirstIs ==
    /\ Fresh(<<First>>) /\ Len(<<First>>) = 1 /\ DOMAIN <<First>> = {1} /\ <<First>>[1] = First
    /\ First.kind = "limit" /\ First.left = 1
  <1>1. First.kind = "limit" /\ First.left = 1 /\ First = Limit(1)
    BY SMT DEF First, Limit
  <1>2. /\ Len(<<First>>) = 1 /\ DOMAIN <<First>> = {1} /\ <<First>>[1] = First
        /\ \A S : First \in S => <<First>> \in Seq(S)
    BY SMT
  <1>3. <<First>> \in Seq({<<First>>[i] : i \in DOMAIN <<First>>})
    BY <1>2
  <1>4. \A i \in 1..Len(<<First>>) : i = 1
    BY <1>2, SMT
  <1>5. 1 \in Int
    BY SMT
  <1>. QED
    BY <1>1, <1>2, <1>3, <1>4, <1>5 DEF Fresh

\* What a query limited to one returns.
LEMMA FirstReturned ==
    ASSUME QueryInv, cs = <<First>>, seen # <<>>
    PROVE  /\ seen[1] = IF found = <<>> THEN nil ELSE found[1]
           /\ \A i \in DOMAIN seen : i > 1 => seen[i] = nil
  <1>. DEFINE P == Meaning(found, cs)
              L == Len(found)
  <1>1. found \in Seq(Rows) /\ L \in Nat /\ (found = <<>> <=> L = 0)
    BY SMT DEF QueryInv, QueryTypeOK
  <1>2. 1 \in DOMAIN seen
    BY SMT DEF QueryInv, QueryTypeOK
  <1>10. DOMAIN seen \subseteq Nat
    BY SMT DEF QueryInv, QueryTypeOK
  <1>3. P = {p \in 1..L : upTo(1..L, p) <= 1}
    <2>1. 1 \in 1..Len(cs) /\ 1 - 1 = 0 /\ Len(cs) = 1 /\ cs[1] = First
      BY FirstIs, SMT
    <2>2. kept(found, cs)[0] = 1..L /\ kept(found, cs)[1] = cut(found, kept(found, cs)[1 - 1], cs[1])
      BY <1>1, <2>1, FirstIs, KeptSub, SMT
    <2>3. P = cut(found, 1..L, First)
      BY <2>1, <2>2 DEF Meaning
    <2>. QED
      BY <2>3, FirstIs, SMT DEF cut
  <1>4. ASSUME NEW p \in 1..L PROVE upTo(1..L, p) = p
    <2>1. p \in Nat /\ {x \in 1..L : x <= p} = 1..p
      BY <1>1, SMT
    <2>2. Cardinality(1..p) = p
      BY <2>1, FS_Interval, SMT
    <2>. QED
      BY <2>1, <2>2 DEF upTo
  <1>5. P = IF L = 0 THEN {} ELSE {1}
    <2>1. \A p \in 1..L : p <= 1 <=> p = 1
      BY <1>1, SMT
    <2>2. L = 0 => 1..L = {}
      BY <1>1, SMT
    <2>3. L # 0 => 1 \in 1..L
      BY <1>1, SMT
    <2>4. \A p : p \in P <=> p \in 1..L /\ p = 1
      BY <1>3, <1>4, <2>1
    <2>. HIDE DEF P
    <2>. QED
      BY <2>2, <2>3, <2>4
  <1>9. \A i \in DOMAIN seen : i > Cardinality(P) => seen[i] = nil
    <2>1. Cardinality(P) \in Nat
      <3>. HIDE DEF P, L
      <3>1. Cardinality({}) = 0 /\ Cardinality({1}) = 1
        BY FS_EmptySet, FS_Singleton
      <3>2. 0 \in Nat /\ 1 \in Nat
        BY SMT
      <3>. QED
        BY <1>5, <3>1, <3>2
    <2>. HIDE DEF P
    <2>3. ASSUME NEW i \in DOMAIN seen, i > Cardinality(P) PROVE ~(i <= Cardinality(P))
      BY <1>10, <2>1, <2>3, SMT
    <2>. QED
      BY <2>3, QueryReturns DEF P
  <1>6. IF 1 <= Cardinality(P) THEN \E p \in P : upTo(P, p) = 1 /\ seen[1] = found[p]
        ELSE seen[1] = nil
    BY <1>2, QueryReturns
  <1>. HIDE DEF P, L
  <1>7. CASE L = 0
    <2>1. Cardinality(P) = 0
      BY <1>5, <1>7, FS_EmptySet
    <2>2. ~(1 <= 0) /\ \A i \in DOMAIN seen : i > 1 => i > 0
      BY <1>10, SMT
    <2>3. \A i \in DOMAIN seen : i > 1 => seen[i] = nil
      BY <1>9, <2>1, <2>2
    <2>. QED
      BY <1>1, <1>6, <1>7, <2>1, <2>2, <2>3
  <1>8. CASE L # 0
    <2>1. P = {1}
      BY <1>5, <1>8
    <2>2. Cardinality(P) = 1
      BY <2>1, FS_Singleton
    <2>3. 1 <= 1
      BY SMT
    <2>4. \A i \in DOMAIN seen : i > 1 => seen[i] = nil
      BY <1>9, <2>2
    <2>5. found # <<>>
      BY <1>1, <1>8
    <2>6. \E p \in P : seen[1] = found[p]
      BY <1>6, <2>2, <2>3
    <2>7. seen[1] = found[1]
      BY <2>1, <2>6
    <2>. QED
      BY <2>4, <2>5, <2>7
  <1>. QED
    BY <1>7, <1>8

\* A loop that calls Next until it returns nil.
LoopOf == \A i \in DOMAIN seen : i < Len(seen) \/ qpc # "idle" => seen[i] # nil

\* It stops at the first nil.
LEMMA LoopKeeps ==
    ASSUME QueryInv, LoopOf,
           \/ NextCall /\ (seen = <<>> \/ seen[Len(seen)] # nil)
           \/ NextStep
    PROVE  LoopOf'
  <1>1. seen \in Seq(Rows \cup {nil})
    BY DEF QueryInv, QueryTypeOK
  <1>2. DOMAIN seen = 1..Len(seen) /\ Len(seen) \in Nat
    BY <1>1, SMT
  <1>3. CASE NextCall /\ (seen = <<>> \/ seen[Len(seen)] # nil)
    <2>1. \A i \in DOMAIN seen : i < Len(seen) \/ i = Len(seen)
      BY <1>2, SMT
    <2>2. \A i \in DOMAIN seen : seen # <<>>
      BY <1>2, SMT
    <2>3. seen' = seen
      BY <1>3 DEF NextCall
    <2>. QED
      BY <1>3, <2>1, <2>2, <2>3 DEF LoopOf
  <1>4. CASE NextStep /\ ~NextReturn
    <2>1. qpc # "idle" /\ seen' = seen
      BY <1>4 DEF NextStep, iteratorNext, filterCall, filterNext, predicateCall,
         predicateNext
    <2>. QED
      BY <2>1 DEF LoopOf
  <1>5. CASE NextReturn
    <2>1. qpc = "return" /\ qpc' = (IF ret = Panic THEN "panic" ELSE "idle")
          /\ seen' = Append(seen, ret)
      BY <1>5 DEF NextReturn
    <2>2. QueryInv'
      BY <1>5, ReturnKept
    <2>3. qpc' = "idle"
      BY <2>1, <2>2 DEF QueryInv, QueryTypeOK
    <2>4. \A i \in DOMAIN seen' : i < Len(seen') => i \in DOMAIN seen /\ seen'[i] = seen[i]
      BY <1>1, <1>2, <2>1, SMT
    <2>. QED
      BY <2>1, <2>3, <2>4 DEF LoopOf
  <1>. QED
    BY <1>3, <1>4, <1>5

\* The iterator that Iter makes.
LEMMA IterMakes ==
    ASSUME QueryInit, NEW q, NEW s, NEW c, Iter(q, s, c), selection(q, s).rows \in Seq(Rows),
           ~IterFails(q, s, c), Fresh(c)
    PROVE  QueryInv'
  <1>1. /\ cs' = c /\ stages' = c /\ found' = selection(q, s).rows /\ qpc' = "idle"
        /\ UNCHANGED <<pos, lvl, ret, seen>>
    BY DEF Iter
  <1>. QED
    BY <1>1, QueryStarts

-----------------------------------------------------------------------------
\* Where texts differ decides their order.
LEMMA BeforeAt ==
    ASSUME NEW s \in Texts, NEW t \in Texts, NEW i \in 1..Len(t), i <= Len(s) + 1,
           \A j \in 1..(i - 1) : s[j] = t[j], i <= Len(s) => s[i] < t[i]
    PROVE  Before(s, t)
  BY DEF Before

\* A text has a length, and its symbols are numbers.
LEMMA TextIs ==
    ASSUME NEW s \in Texts
    PROVE  Len(s) \in Nat /\ \A i \in 1..Len(s) : s[i] \in Nat
  BY SMT DEF Texts

\* The order of texts is a strict order,
LEMMA BeforeIrreflexive ==
    ASSUME NEW s \in Texts
    PROVE  ~Before(s, s)
  <1>1. \A i \in 1..Len(s) : i <= Len(s) /\ ~(s[i] < s[i])
    BY TextIs, SMT
  <1>. QED
    BY <1>1 DEF Before

\* transitive: the first of the two differences decides,
LEMMA BeforeTransitive ==
    ASSUME NEW s \in Texts, NEW t \in Texts, NEW u \in Texts, Before(s, t), Before(t, u)
    PROVE  Before(s, u)
  <1>0. /\ Len(s) \in Nat /\ Len(t) \in Nat /\ Len(u) \in Nat
        /\ \A i \in 1..Len(s) : s[i] \in Nat
        /\ \A i \in 1..Len(t) : t[i] \in Nat
        /\ \A i \in 1..Len(u) : u[i] \in Nat
    BY TextIs
  <1>1. PICK i \in 1..Len(t) : /\ i <= Len(s) + 1 /\ \A m \in 1..(i - 1) : s[m] = t[m]
                               /\ i <= Len(s) => s[i] < t[i]
    BY DEF Before
  <1>2. PICK j \in 1..Len(u) : /\ j <= Len(t) + 1 /\ \A m \in 1..(j - 1) : t[m] = u[m]
                               /\ j <= Len(t) => t[j] < u[j]
    BY DEF Before
  <1>3. CASE i < j
    <2>1. i \in 1..Len(u) /\ i \in 1..(j - 1) /\ \A m \in 1..(i - 1) : m \in 1..(j - 1)
      BY <1>0, <1>3, SMT
    <2>2. \A m \in 1..(i - 1) : s[m] = u[m]
      BY <1>1, <1>2, <2>1
    <2>3. t[i] = u[i]
      BY <1>2, <2>1
    <2>4. i <= Len(s) => s[i] < u[i]
      BY <1>1, <2>3
    <2>. QED
      BY <1>1, <2>1, <2>2, <2>4, BeforeAt
  <1>4. CASE j < i
    <2>1. j \in 1..(i - 1) /\ j <= Len(s) + 1 /\ j <= Len(t) /\ \A m \in 1..(j - 1) : m \in 1..(i - 1)
      BY <1>0, <1>1, <1>4, SMT
    <2>2. \A m \in 1..(j - 1) : s[m] = u[m]
      BY <1>1, <1>2, <2>1
    <2>3. s[j] = t[j] /\ t[j] < u[j]
      BY <1>1, <1>2, <2>1
    <2>4. j <= Len(s) => s[j] < u[j]
      BY <2>3
    <2>. QED
      BY <2>1, <2>2, <2>4, BeforeAt
  <1>5. CASE i = j
    <2>1. \A m \in 1..(i - 1) : s[m] = u[m]
      BY <1>1, <1>2, <1>5
    <2>2. i <= Len(t) /\ i \in 1..Len(u)
      BY <1>0, <1>5, SMT
    <2>3. t[i] < u[i] /\ t[i] \in Nat /\ u[i] \in Nat
      BY <1>0, <1>2, <1>5, <2>2
    <2>4. i <= Len(s) => s[i] < u[i]
      <3>. SUFFICES ASSUME i <= Len(s) PROVE s[i] < u[i]
        OBVIOUS
      <3>1. i \in 1..Len(s)
        BY <1>0, SMT
      <3>2. s[i] \in Nat /\ s[i] < t[i]
        BY <1>0, <1>1, <3>1
      <3>. QED
        BY <2>3, <3>2, SMT
    <2>. QED
      BY <1>1, <2>1, <2>2, <2>4, BeforeAt
  <1>6. i < j \/ j < i \/ i = j
    BY <1>0, SMT
  <1>. QED
    BY <1>3, <1>4, <1>5, <1>6

\* and a total one: texts that differ do so at a first position, or one ends.
LEMMA BeforeTotal ==
    ASSUME NEW s \in Texts, NEW t \in Texts, s # t
    PROVE  Before(s, t) \/ Before(t, s)
  <1>0. /\ Len(s) \in Nat /\ Len(t) \in Nat
        /\ \A i \in 1..Len(s) : s[i] \in Nat
        /\ \A i \in 1..Len(t) : t[i] \in Nat
    BY TextIs
  <1>. DEFINE T == {i \in Nat \ {0} : i <= Len(s) /\ i <= Len(t) /\ s[i] # t[i]}
  <1>1. CASE T # {}
    <2>1. T \in SUBSET Nat
      BY SMT
    <2>2. PICK i \in T : \A m \in T : ~(m < i)
      BY <1>1, <2>1, Least
    <2>3. i \in Nat \ {0} /\ i <= Len(s) /\ i <= Len(t) /\ s[i] # t[i]
      OBVIOUS
    <2>4. i \in 1..Len(s) /\ i \in 1..Len(t) /\ i <= Len(s) + 1 /\ i <= Len(t) + 1
      BY <1>0, <2>3, SMT
    <2>5. ASSUME NEW m \in 1..(i - 1) PROVE s[m] = t[m] /\ t[m] = s[m]
      <3>1. m \in Nat \ {0} /\ m <= Len(s) /\ m <= Len(t) /\ m < i
        BY <1>0, <2>3, SMT
      <3>. QED
        BY <2>2, <3>1
    <2>6. s[i] \in Nat /\ t[i] \in Nat
      BY <1>0, <2>4
    <2>7. s[i] < t[i] \/ t[i] < s[i]
      BY <2>3, <2>6, SMT
    <2>. QED
      BY <2>4, <2>5, <2>7, BeforeAt
  <1>2. CASE T = {}
    <2>1. ASSUME NEW m \in Nat \ {0}, m <= Len(s), m <= Len(t) PROVE s[m] = t[m]
      BY <1>2, <2>1
    <2>. HIDE DEF T
    <2>2. CASE Len(s) < Len(t)
      <3>1. /\ Len(s) + 1 \in 1..Len(t) /\ Len(s) + 1 <= Len(s) + 1 /\ ~(Len(s) + 1 <= Len(s))
            /\ (Len(s) + 1) - 1 = Len(s)
        BY <1>0, <2>2, SMT
      <3>2. ASSUME NEW m \in 1..((Len(s) + 1) - 1) PROVE s[m] = t[m]
        <4>1. m \in Nat \ {0} /\ m <= Len(s) /\ m <= Len(t)
          BY <1>0, <2>2, SMT
        <4>. QED
          BY <2>1, <4>1
      <3>. QED
        BY <3>1, <3>2, BeforeAt
    <2>3. CASE Len(t) < Len(s)
      <3>1. /\ Len(t) + 1 \in 1..Len(s) /\ Len(t) + 1 <= Len(t) + 1 /\ ~(Len(t) + 1 <= Len(t))
            /\ (Len(t) + 1) - 1 = Len(t)
        BY <1>0, <2>3, SMT
      <3>2. ASSUME NEW m \in 1..((Len(t) + 1) - 1) PROVE t[m] = s[m]
        <4>1. m \in Nat \ {0} /\ m <= Len(s) /\ m <= Len(t)
          BY <1>0, <2>3, SMT
        <4>. QED
          BY <2>1, <4>1
      <3>. QED
        BY <3>1, <3>2, BeforeAt
    <2>4. CASE Len(s) = Len(t)
      <3>1. ASSUME NEW m \in 1..Len(s) PROVE s[m] = t[m]
        <4>1. m \in Nat \ {0} /\ m <= Len(s) /\ m <= Len(t)
          BY <1>0, <2>4, SMT
        <4>. QED
          BY <2>1, <4>1
      <3>2. s = t
        BY <2>4, <3>1, SMT DEF Texts
      <3>. QED
        BY <3>2
    <2>5. Len(s) < Len(t) \/ Len(t) < Len(s) \/ Len(s) = Len(t)
      BY <1>0, SMT
    <2>. QED
      BY <2>2, <2>3, <2>4, <2>5
  <1>. QED
    BY <1>1, <1>2
-----------------------------------------------------------------------------
\* Entries of a tree: no two have the same key.
Tree(E) ==
    /\ IsFiniteSet(E)
    /\ \A e \in E : e.key \in Texts /\ e.row \in Rows
    /\ \A d, e \in E : d.key = e.key => d = e

\* An entry that comes before another has another place.
LEMMA PlaceBelow ==
    ASSUME NEW E, Tree(E), NEW d \in E, NEW e \in E, Before(d.key, e.key)
    PROVE  place(E, d) # place(E, e)
  <1>. DEFINE A == {x \in E : ~Before(d.key, x.key)}
              B == {x \in E : ~Before(e.key, x.key)}
  <1>0. d.key \in Texts /\ e.key \in Texts /\ IsFiniteSet(E)
    BY DEF Tree
  <1>1. A \in SUBSET B
    <2>. SUFFICES ASSUME NEW x \in E, Before(e.key, x.key) PROVE Before(d.key, x.key)
      OBVIOUS
    <2>1. x.key \in Texts
      BY DEF Tree
    <2>. QED
      BY <1>0, <2>1, BeforeTransitive
  <1>2. e \notin A
    OBVIOUS
  <1>3. e \in B
    BY <1>0, BeforeIrreflexive
  <1>4. IsFiniteSet(B)
    <2>1. B \in SUBSET E
      OBVIOUS
    <2>. QED
      BY <1>0, <2>1, FS_Subset
  <1>. HIDE DEF A, B
  <1>5. Cardinality(A) # Cardinality(B)
    BY <1>1, <1>2, <1>3, <1>4, FS_Subset
  <1>. QED
    BY <1>5 DEF place, A, B

\* Every entry has a place of its own, and every place an entry.
LEMMA PlaceIs ==
    ASSUME NEW E, Tree(E)
    PROVE  /\ Cardinality(E) \in Nat
           /\ \A e \in E : place(E, e) \in 1..Cardinality(E)
           /\ \A d, e \in E : place(E, d) = place(E, e) => d = e
           /\ \A i \in 1..Cardinality(E) : \E e \in E : place(E, e) = i
  <1>0. IsFiniteSet(E)
    BY DEF Tree
  <1>. DEFINE N == Cardinality(E)
  <1>1. N \in Nat
    BY <1>0, FS_CardinalityType
  <1>2. ASSUME NEW e \in E PROVE place(E, e) \in 1..N
    <2>. DEFINE B == {x \in E : ~Before(e.key, x.key)}
    <2>1. B \in SUBSET E
      OBVIOUS
    <2>2. e \in B
      BY BeforeIrreflexive DEF Tree
    <2>. HIDE DEF B
    <2>3. IsFiniteSet(B) /\ Cardinality(B) <= N
      BY <1>0, <2>1, FS_Subset
    <2>4. Cardinality(B) \in Nat /\ Cardinality(B) # 0
      BY <2>2, <2>3, FS_CardinalityType, FS_EmptySet
    <2>5. Cardinality(B) \in 1..N
      BY <1>1, <2>3, <2>4, SMT
    <2>. QED
      BY <2>5 DEF place, B
  <1>3. ASSUME NEW d \in E, NEW e \in E, place(E, d) = place(E, e) PROVE d = e
    <2>1. ~Before(d.key, e.key) /\ ~Before(e.key, d.key)
      BY <1>3, PlaceBelow
    <2>2. d.key = e.key
      BY <2>1, BeforeTotal DEF Tree
    <2>. QED
      BY <2>2 DEF Tree
  <1>. DEFINE f == [e \in E |-> place(E, e)]
  <1>. HIDE DEF N
  <1>4. f \in Injection(E, 1..N)
    <2>1. f \in [E -> 1..N]
      BY <1>2
    <2>2. \A d, e \in DOMAIN f : f[d] = f[e] => d = e
      BY <1>3
    <2>. QED
      BY <2>1, <2>2 DEF Injection, IsInjective
  <1>5. IsFiniteSet(1..N) /\ Cardinality(1..N) = N
    <2>1. IsFiniteSet(1..N) /\ Cardinality(1..N) = IF 1 > N THEN 0 ELSE N - 1 + 1
      BY <1>1, FS_Interval, SMT
    <2>. QED
      BY <1>1, <2>1, SMT
  <1>. HIDE DEF f
  <1>6. f \in Surjection(E, 1..N)
    BY <1>4, <1>5, FS_Injection DEF N
  <1>7. \A i \in 1..N : \E e \in E : place(E, e) = i
    BY <1>6 DEF Surjection, f
  <1>. QED
    BY <1>1, <1>2, <1>3, <1>7 DEF N

\* inOrder gives a row for every entry.
LEMMA InOrderIs ==
    ASSUME NEW E, Tree(E)
    PROVE  /\ inOrder(E) \in Seq(Rows)
           /\ Len(inOrder(E)) = Cardinality(E)
           /\ \A e \in E : inOrder(E)[place(E, e)] = e.row
           /\ \A i \in 1..Cardinality(E) : \E e \in E : inOrder(E)[i] = e.row
  <1>0. /\ Cardinality(E) \in Nat
        /\ \A e \in E : place(E, e) \in 1..Cardinality(E)
        /\ \A d, e \in E : place(E, d) = place(E, e) => d = e
        /\ \A i \in 1..Cardinality(E) : \E e \in E : place(E, e) = i
    BY PlaceIs
  <1>. DEFINE N == Cardinality(E)
              at(i) == CHOOSE e \in E : place(E, e) = i
  <1>1. \A i \in 1..N : at(i) \in E /\ place(E, at(i)) = i
    BY <1>0
  <1>2. \A e \in E : at(place(E, e)) = e
    BY <1>0, <1>1
  <1>3. inOrder(E) = [i \in 1..N |-> at(i).row]
    BY DEF inOrder
  <1>. HIDE DEF at
  <1>4. \A e \in E : inOrder(E)[place(E, e)] = e.row
    BY <1>0, <1>2, <1>3
  <1>9. \A i \in 1..N : \E e \in E : inOrder(E)[i] = e.row
    BY <1>1, <1>3
  <1>5. \A i \in 1..N : at(i).row \in Rows
    BY <1>1 DEF Tree
  <1>. HIDE DEF N
  <1>6. N \in Nat
    BY <1>0 DEF N
  <1>7. inOrder(E) \in [1..N -> Rows]
    BY <1>3, <1>5
  <1>8. inOrder(E) \in Seq(Rows) /\ Len(inOrder(E)) = N
    BY <1>6, <1>7, SMT
  <1>. QED
    BY <1>4, <1>8, <1>9 DEF N

\* Sets that a function maps one to one have as many elements.
LEMMA OneToOne ==
    ASSUME NEW S, NEW T, NEW f \in [S -> T], IsFiniteSet(S),
           \A x, y \in S : f[x] = f[y] => x = y, \A y \in T : \E x \in S : f[x] = y
    PROVE  IsFiniteSet(T) /\ Cardinality(T) = Cardinality(S)
  <1>1. f \in Injection(S, T)
    BY DEF Injection, IsInjective
  <1>2. f \in Surjection(S, T)
    BY DEF Surjection
  <1>. QED
    BY <1>1, <1>2, FS_Surjection

\* The positions of a row
hits(s, r) == {i \in DOMAIN s : s[i] = r}

\* are as many as its entries, forwards
LEMMA InOrderCount ==
    ASSUME NEW E, Tree(E), NEW r
    PROVE  Cardinality(hits(inOrder(E), r)) = Cardinality({e \in E : e.row = r})
  <1>. DEFINE S == {e \in E : e.row = r}
              T == hits(inOrder(E), r)
              f == [e \in S |-> place(E, e)]
  <1>0. /\ Cardinality(E) \in Nat
        /\ \A e \in E : place(E, e) \in 1..Cardinality(E)
        /\ \A d, e \in E : place(E, d) = place(E, e) => d = e
        /\ \A i \in 1..Cardinality(E) : \E e \in E : place(E, e) = i
    BY PlaceIs
  <1>1. \A e \in E : inOrder(E)[place(E, e)] = e.row
    BY InOrderIs
  <1>2. DOMAIN inOrder(E) = 1..Cardinality(E)
    BY DEF inOrder
  <1>3. IsFiniteSet(S)
    <2>1. S \in SUBSET E
      OBVIOUS
    <2>. QED
      BY <2>1, FS_Subset DEF Tree
  <1>4. f \in [S -> T]
    BY <1>0, <1>1, <1>2 DEF hits
  <1>5. \A x, y \in S : f[x] = f[y] => x = y
    BY <1>0
  <1>6. \A y \in T : \E x \in S : f[x] = y
    BY <1>0, <1>1, <1>2 DEF hits
  <1>. HIDE DEF S, T, f
  <1>7. Cardinality(T) = Cardinality(S)
    BY <1>3, <1>4, <1>5, <1>6, OneToOne
  <1>. QED
    BY <1>7 DEF S, T

\* and backwards.
LEMMA ReverseIs ==
    ASSUME NEW s \in Seq(Rows)
    PROVE  /\ Reverse(s) \in Seq(Rows) /\ Len(Reverse(s)) = Len(s)
           /\ \A i \in 1..Len(s) : \E j \in 1..Len(s) : Reverse(s)[i] = s[j]
           /\ \A r : Cardinality(hits(Reverse(s), r)) = Cardinality(hits(s, r))
  <1>1. Len(s) \in Nat /\ DOMAIN s = 1..Len(s)
    BY SMT
  <1>2. /\ Reverse(s) \in Seq(Rows) /\ Len(Reverse(s)) = Len(s) /\ DOMAIN Reverse(s) = 1..Len(s)
        /\ \A i \in 1..Len(s) : Reverse(s)[i] = s[(Len(s) - i) + 1]
    BY SMT DEF Reverse
  <1>3. ASSUME NEW r PROVE Cardinality(hits(Reverse(s), r)) = Cardinality(hits(s, r))
    <2>. DEFINE S == hits(s, r)
                T == hits(Reverse(s), r)
                f == [i \in S |-> (Len(s) - i) + 1]
    <2>1. \A i \in 1..Len(s) : (Len(s) - i) + 1 \in 1..Len(s) /\ (Len(s) - ((Len(s) - i) + 1)) + 1 = i
      BY <1>1, SMT
    <2>2. S \in SUBSET (1..Len(s)) /\ T \in SUBSET (1..Len(s))
      BY <1>1, <1>2 DEF hits
    <2>3. IsFiniteSet(S)
      <3>1. IsFiniteSet(1..Len(s))
        BY <1>1, FS_Interval, SMT
      <3>. QED
        BY <2>2, <3>1, FS_Subset
    <2>4. f \in [S -> T]
      BY <1>1, <1>2, <2>1 DEF hits
    <2>5. \A x, y \in S : f[x] = f[y] => x = y
      BY <2>1, <2>2
    <2>6. ASSUME NEW y \in T PROVE \E x \in S : f[x] = y
      <3>1. y \in 1..Len(s) /\ Reverse(s)[y] = r
        BY <1>2 DEF hits
      <3>2. (Len(s) - y) + 1 \in S
        BY <1>1, <1>2, <2>1, <3>1 DEF hits
      <3>. QED
        BY <2>1, <3>1, <3>2
    <2>. HIDE DEF S, T, f
    <2>7. Cardinality(T) = Cardinality(S)
      BY <2>3, <2>4, <2>5, <2>6, OneToOne
    <2>. QED
      BY <2>7 DEF S, T
  <1>4. \A i \in 1..Len(s) : (Len(s) - i) + 1 \in 1..Len(s)
    BY <1>1, SMT
  <1>. QED
    BY <1>2, <1>3, <1>4
-----------------------------------------------------------------------------
\* A row's keys are finitely many texts.
LEMMA PeerText ==
    ASSUME NEW p \in Texts
    PROVE  peerToBytes(p) \in Texts
  <1>. DEFINE s == [i \in DOMAIN p |-> p[i] % 10]
  <1>1. s \in Seq(Nat)
    BY SMT DEF Texts
  <1>. HIDE DEF s
  <1>2. Reverse(s) \in Seq(Nat)
    BY <1>1, SMT DEF Reverse
  <1>. QED
    BY <1>2 DEF peerToBytes, Texts, s

\* The text of a server ID.
LEMMA ServerText ==
    ASSUME NEW id \in Nat
    PROVE  MarshalText(id) \in Texts
  <1>1. id \div Base \in Nat /\ id % Base \in Nat
    BY QueryOK, SMT
  <1>2. Bytes(id)[1] \in Nat /\ Bytes(id)[2] \in Nat
    BY <1>1, SMT DEF Bytes
  <1>3. \A i \in 1..2 : Bytes(id)[i] + 1 \in Nat
    BY <1>2, SMT
  <1>4. [i \in 1..2 |-> Bytes(id)[i] + 1] \in Seq(Nat)
    BY <1>3, SMT
  <1>. QED
    BY <1>4 DEF MarshalText, Texts

\* The fields of a row.
LEMMA RowIs ==
    ASSUME NEW r \in Rows
    PROVE  /\ r.peer \in Texts /\ r.server \in Nat /\ r.seq \in Nat /\ r.ttl \in Nat
           /\ r.host \in Texts /\ r.meta \in Seq(Texts)
  BY SMT DEF Rows

\* An interval is finite.
LEMMA UpToFinite ==
    ASSUME NEW m \in Nat
    PROVE  IsFiniteSet(1..m)
  BY FS_Interval, SMT

\* The range of a function on a finite set is finite.
LEMMA RangeFinite ==
    ASSUME NEW S, IsFiniteSet(S), NEW U, NEW f \in [S -> U]
    PROVE  IsFiniteSet({f[x] : x \in S})
  <1>. DEFINE T == {f[x] : x \in S}
  <1>1. f \in [S -> T]
    OBVIOUS
  <1>2. f \in Surjection(S, T)
    BY <1>1 DEF Surjection
  <1>. HIDE DEF T
  <1>3. IsFiniteSet(T)
    BY <1>2, FS_Surjection
  <1>. QED
    BY <1>3 DEF T

\* So the keys of a row, whatever the index, are finitely many texts.
LEMMA KeysAre ==
    ASSUME NEW name \in IndexNames, NEW r \in Rows
    PROVE  FromObject(name, r) \in SUBSET Texts /\ IsFiniteSet(FromObject(name, r))
  <1>. DEFINE Good(S) == S \in SUBSET Texts /\ IsFiniteSet(S)
  <1>0. ASSUME NEW k \in Texts PROVE Good({k})
    BY FS_Singleton
  <1>1. CASE name = "id"
    <2>1. FromObject(name, r) = {peerToBytes(r.peer)}
      BY <1>1, SMT DEF FromObject, idIndexer
    <2>2. peerToBytes(r.peer) \in Texts
      BY RowIs, PeerText
    <2>3. Good({peerToBytes(r.peer)})
      BY <1>0, <2>2
    <2>. QED
      BY <2>1, <2>3
  <1>2. CASE name = "server"
    <2>1. FromObject(name, r) = {MarshalText(r.server)}
      BY <1>2, SMT DEF FromObject, serverIndexer
    <2>2. MarshalText(r.server) \in Texts
      BY RowIs, ServerText
    <2>3. Good({MarshalText(r.server)})
      BY <1>0, <2>2
    <2>. QED
      BY <2>1, <2>3
  <1>3. CASE name = "host"
    <2>1. FromObject(name, r) = IF r.host = <<>> THEN {} ELSE {r.host}
      BY <1>3, SMT DEF FromObject, hostnameIndexer
    <2>2. r.host \in Texts
      BY RowIs
    <2>3. Good({r.host})
      BY <1>0, <2>2
    <2>4. Good({})
      BY FS_EmptySet
    <2>. QED
      BY <2>1, <2>3, <2>4
  <1>4. CASE name = "meta"
    <2>1. PICK m \in Seq(Texts) : m = r.meta
      BY RowIs
    <2>2. FromObject(name, r) = {m[i] : i \in DOMAIN m}
      BY <1>4, <2>1, SMT DEF FromObject, metaIndexer, MetaIndexes
    <2>3. /\ Len(m) \in Nat /\ DOMAIN m = 1..Len(m) /\ m \in [1..Len(m) -> Texts]
          /\ \A i \in 1..Len(m) : m[i] \in Texts
      BY <2>1, SMT
    <2>4. IsFiniteSet(1..Len(m))
      BY <2>3, UpToFinite
    <2>5. IsFiniteSet({m[i] : i \in 1..Len(m)})
      BY <2>3, <2>4, RangeFinite
    <2>. QED
      BY <2>2, <2>3, <2>5
  <1>. QED
    BY <1>1, <1>2, <1>3, <1>4 DEF IndexNames

\* The entry that a key of a row has in the tree of the index.
entryKey(name, k, r) == IF unique(name) THEN k ELSE k \o peerToBytes(r.peer)
entry(name, k, r) == [key |-> entryKey(name, k, r), row |-> r]
entriesOf(name, r) == {entry(name, k, r) : k \in FromObject(name, r)}

\* It is a text and the row.
LEMMA EntryIs ==
    ASSUME NEW name, NEW r \in Rows, NEW k \in Texts
    PROVE  /\ entry(name, k, r).key = entryKey(name, k, r)
           /\ entry(name, k, r).row = r
           /\ entryKey(name, k, r) \in Texts
  <1>1. peerToBytes(r.peer) \in Texts
    BY RowIs, PeerText
  <1>2. k \o peerToBytes(r.peer) \in Texts
    BY <1>1, SMT DEF Texts
  <1>3. entryKey(name, k, r) \in Texts
    BY <1>2 DEF entryKey
  <1>. QED
    BY <1>3, SMT DEF entry

\* The entries of a row are those of its keys,
LEMMA EntriesAre ==
    ASSUME NEW name \in IndexNames, NEW r \in Rows, NEW e \in entriesOf(name, r)
    PROVE  /\ e.key \in Texts /\ e.row = r
           /\ \E k \in FromObject(name, r) :
                 e = entry(name, k, r) /\ e.key = entryKey(name, k, r)
  <1>1. PICK k \in FromObject(name, r) : e = entry(name, k, r)
    BY DEF entriesOf
  <1>2. k \in Texts
    BY KeysAre
  <1>3. /\ entry(name, k, r).key = entryKey(name, k, r) /\ entry(name, k, r).row = r
        /\ entryKey(name, k, r) \in Texts
    BY <1>2, EntryIs
  <1>. QED
    BY <1>1, <1>3

\* each of a key of its own: the same id follows them all.
LEMMA EntryOneToOne ==
    ASSUME NEW name, NEW r \in Rows, NEW k \in Texts, NEW l \in Texts,
           entry(name, k, r) = entry(name, l, r)
    PROVE  k = l
  <1>1. entryKey(name, k, r) = entryKey(name, l, r)
    <2>1. entry(name, k, r).key = entryKey(name, k, r)
      BY EntryIs
    <2>2. entry(name, l, r).key = entryKey(name, l, r)
      BY EntryIs
    <2>. QED
      BY <2>1, <2>2
  <1>. DEFINE p == peerToBytes(r.peer)
  <1>2. p \in Texts
    BY RowIs, PeerText
  <1>3. k = l \/ k \o p = l \o p
    BY <1>1 DEF entryKey
  <1>. HIDE DEF p
  <1>4. ASSUME k \o p = l \o p PROVE k = l
    <2>1. Len(k \o p) = Len(k) + Len(p) /\ Len(l \o p) = Len(l) + Len(p)
      BY <1>2, SMT DEF Texts
    <2>2. Len(k) = Len(l)
      BY <1>2, <1>4, <2>1, SMT DEF Texts
    <2>3. \A i \in 1..Len(k) : k[i] = (k \o p)[i]
      BY <1>2, SMT DEF Texts
    <2>4. \A i \in 1..Len(l) : l[i] = (l \o p)[i]
      BY <1>2, SMT DEF Texts
    <2>5. \A i \in 1..Len(k) : k[i] = l[i]
      BY <1>4, <2>2, <2>3, <2>4
    <2>. QED
      BY <2>2, <2>5, SMT DEF Texts
  <1>. QED
    BY <1>3, <1>4
-----------------------------------------------------------------------------
\* What an id after the key changes in the order of texts.
LEMMA ConcatIs ==
    ASSUME NEW k \in Texts, NEW p \in Texts
    PROVE  /\ k \o p \in Texts /\ Len(k) \in Nat /\ Len(p) \in Nat
           /\ Len(k \o p) = Len(k) + Len(p)
           /\ \A i \in 1..Len(k) : (k \o p)[i] = k[i]
  BY SMT DEF Texts

\* A prefix stays a prefix.
LEMMA PrefixConcat ==
    ASSUME NEW k \in Texts, NEW p \in Texts, NEW t \in Texts, HasPrefix(k, t)
    PROVE  HasPrefix(k \o p, t)
  <1>1. Len(t) \in Nat
    BY TextIs
  <1>2. Len(t) <= Len(k) /\ \A i \in 1..Len(t) : k[i] = t[i]
    BY DEF HasPrefix
  <1>. DEFINE u == k \o p
  <1>3. /\ Len(k) \in Nat /\ Len(p) \in Nat /\ Len(u) = Len(k) + Len(p)
        /\ \A i \in 1..Len(k) : u[i] = k[i]
    BY ConcatIs
  <1>. HIDE DEF u
  <1>4. Len(t) <= Len(u) /\ \A i \in 1..Len(t) : u[i] = t[i]
    BY <1>1, <1>2, <1>3, SMT
  <1>. QED
    BY <1>4 DEF HasPrefix, u

\* A text that still comes before another did so without the id,
LEMMA LowerConcat ==
    ASSUME NEW k \in Texts, NEW p \in Texts, NEW t \in Texts, Before(k \o p, t)
    PROVE  Before(k, t)
  <1>1. Len(t) \in Nat
    BY TextIs
  <1>. DEFINE u == k \o p
  <1>3. /\ Len(k) \in Nat /\ Len(p) \in Nat /\ Len(u) = Len(k) + Len(p)
        /\ \A i \in 1..Len(k) : u[i] = k[i]
    BY ConcatIs
  <1>4. Before(u, t)
    OBVIOUS
  <1>. HIDE DEF u
  <1>5. PICK i \in 1..Len(t) :
            /\ i <= Len(u) + 1
            /\ \A j \in 1..(i - 1) : u[j] = t[j]
            /\ i <= Len(u) => u[i] < t[i]
    BY <1>4 DEF Before
  <1>6. CASE i <= Len(k)
    <2>1. i <= Len(k) + 1 /\ (i <= Len(k) => k[i] < t[i])
      BY <1>1, <1>3, <1>5, <1>6, SMT
    <2>2. \A j \in 1..(i - 1) : k[j] = t[j]
      BY <1>1, <1>3, <1>5, <1>6, SMT
    <2>. QED
      BY <2>1, <2>2, BeforeAt
  <1>7. CASE ~(i <= Len(k))
    <2>1. PICK l \in 1..Len(t) : l = Len(k) + 1
      BY <1>1, <1>3, <1>5, <1>7, SMT
    <2>2. l <= Len(k) + 1 /\ ~(l <= Len(k))
      BY <1>3, <2>1, SMT
    <2>3. \A j \in 1..(l - 1) : k[j] = t[j]
      BY <1>1, <1>3, <1>5, <1>7, <2>1, SMT
    <2>. QED
      BY <2>2, <2>3, BeforeAt
  <1>. QED
    BY <1>6, <1>7

\* and one that comes before another, and is no prefix of it, still does.
LEMMA UpperConcat ==
    ASSUME NEW k \in Texts, NEW p \in Texts, NEW t \in Texts,
           Before(k, t), ~HasPrefix(t, k)
    PROVE  ~Before(t, k \o p)
  <1>1. Len(t) \in Nat /\ \A i \in 1..Len(t) : t[i] \in Nat
    BY TextIs
  <1>2. \A i \in 1..Len(k) : k[i] \in Nat
    BY TextIs
  <1>. DEFINE u == k \o p
  <1>3. u \in Texts
    BY ConcatIs
  <1>4. /\ Len(k) \in Nat /\ Len(p) \in Nat /\ Len(u) = Len(k) + Len(p)
        /\ \A i \in 1..Len(k) : u[i] = k[i]
    BY ConcatIs
  <1>. HIDE DEF u
  <1>5. PICK i \in 1..Len(t) :
            /\ i <= Len(k) + 1
            /\ \A j \in 1..(i - 1) : k[j] = t[j]
            /\ i <= Len(k) => k[i] < t[i]
    BY DEF Before
  <1>6. i <= Len(k)
    <2>1. SUFFICES ASSUME ~(i <= Len(k)) PROVE FALSE
      BY SMT
    <2>2. Len(k) <= Len(t) /\ \A j \in 1..Len(k) : t[j] = k[j]
      BY <1>1, <1>4, <1>5, <2>1, SMT
    <2>. QED
      BY <2>2 DEF HasPrefix
  <1>7. i <= Len(u) + 1 /\ (i <= Len(u) => u[i] < t[i])
    BY <1>1, <1>4, <1>5, <1>6, SMT
  <1>8. \A j \in 1..(i - 1) : u[j] = t[j]
    BY <1>1, <1>4, <1>5, <1>6, SMT
  <1>9. Before(u, t)
    BY <1>3, <1>7, <1>8, BeforeAt
  <1>10. ~Before(t, u)
    BY <1>3, <1>9, BeforeTransitive, BeforeIrreflexive
  <1>. QED
    BY <1>10 DEF u
-----------------------------------------------------------------------------
\* The tree of an index holds the entries of all rows.
LEMMA SchemaIs ==
    ASSUME NEW t, NEW name
    PROVE  schema(t, name) = UNION {entriesOf(name, r) : r \in t}
  BY DEF schema, entriesOf, entry, entryKey

\* A row has as many entries as keys.
LEMMA EntriesFinite ==
    ASSUME NEW name \in IndexNames, NEW r \in Rows
    PROVE  /\ IsFiniteSet(entriesOf(name, r))
           /\ Cardinality(entriesOf(name, r)) = Cardinality(FromObject(name, r))
           /\ \A W \in SUBSET FromObject(name, r) :
                 Cardinality({entry(name, k, r) : k \in W}) = Cardinality(W)
  <1>1. FromObject(name, r) \in SUBSET Texts /\ IsFiniteSet(FromObject(name, r))
    BY KeysAre
  <1>2. ASSUME NEW W \in SUBSET FromObject(name, r)
        PROVE  /\ IsFiniteSet({entry(name, k, r) : k \in W})
               /\ Cardinality({entry(name, k, r) : k \in W}) = Cardinality(W)
    <2>. DEFINE T == {entry(name, k, r) : k \in W}
                f == [k \in W |-> entry(name, k, r)]
    <2>1. IsFiniteSet(W)
      BY <1>1, FS_Subset
    <2>2. f \in [W -> T]
      OBVIOUS
    <2>3. \A x, y \in W : f[x] = f[y] => x = y
      BY <1>1, EntryOneToOne
    <2>4. \A y \in T : \E x \in W : f[x] = y
      OBVIOUS
    <2>. HIDE DEF T, f
    <2>5. IsFiniteSet(T) /\ Cardinality(T) = Cardinality(W)
      BY <2>1, <2>2, <2>3, <2>4, OneToOne
    <2>. QED
      BY <2>5 DEF T
  <1>. QED
    BY <1>2 DEF entriesOf

\* The entries of a good table are those of a tree,
LEMMA SchemaTree ==
    ASSUME NEW t, TableOK(t), NEW name \in IndexNames
    PROVE  Tree(schema(t, name))
  <1>. DEFINE f == [r \in t |-> entriesOf(name, r)]
  <1>1. IsFiniteSet(t) /\ t \in SUBSET Rows
    BY DEF TableOK
  <1>2. IsFiniteSet({f[r] : r \in t})
    <2>1. f \in [t -> {entriesOf(name, r) : r \in t}]
      OBVIOUS
    <2>. HIDE DEF f
    <2>. QED
      BY <1>1, <2>1, RangeFinite
  <1>3. {f[r] : r \in t} = {entriesOf(name, r) : r \in t}
    OBVIOUS
  <1>4. \A S \in {entriesOf(name, r) : r \in t} : IsFiniteSet(S)
    BY <1>1, EntriesFinite
  <1>5. IsFiniteSet(UNION {entriesOf(name, r) : r \in t})
    BY <1>2, <1>3, <1>4, FS_UNION
  <1>6. \A e \in schema(t, name) : e.key \in Texts /\ e.row \in Rows
    <2>1. SUFFICES ASSUME NEW e \in schema(t, name) PROVE e.key \in Texts /\ e.row \in Rows
      OBVIOUS
    <2>2. PICK r \in t : e \in entriesOf(name, r)
      BY SchemaIs
    <2>3. r \in Rows
      BY <1>1
    <2>4. e.key \in Texts /\ e.row = r
      BY <2>2, <2>3, EntriesAre
    <2>. QED
      BY <2>3, <2>4
  <1>. QED
    BY <1>5, <1>6, SchemaIs DEF Tree, TableOK

\* and so are any of them.
LEMMA TreeSub ==
    ASSUME NEW E, Tree(E), NEW F \in SUBSET E
    PROVE  Tree(F)
  BY FS_Subset DEF Tree

\* Entries that include those of the keys W of a row are at least so many,
\* and at most all of its keys'.
LEMMA SelectedCount ==
    ASSUME NEW t, TableOK(t), NEW name \in IndexNames, NEW r \in t,
           NEW E \in SUBSET schema(t, name), NEW W \in SUBSET FromObject(name, r),
           \A k \in W : entry(name, k, r) \in E
    PROVE  Cardinality({e \in E : e.row = r}) \in
               Cardinality(W)..Cardinality(FromObject(name, r))
  <1>. DEFINE A == {entry(name, k, r) : k \in W}
              B == {e \in E : e.row = r}
              D == entriesOf(name, r)
  <1>1. t \in SUBSET Rows
    BY DEF TableOK
  <1>2. \A x \in t : FromObject(name, x) \in SUBSET Texts
    BY <1>1, KeysAre
  <1>3. A \in SUBSET B
    <2>1. \A k \in W : entry(name, k, r) \in entriesOf(name, r)
      BY DEF entriesOf
    <2>2. \A k \in W : entry(name, k, r).row = r
      BY <1>1, <2>1, EntriesAre
    <2>. QED
      BY <2>2
  <1>4. B \in SUBSET D
    <2>1. SUFFICES ASSUME NEW e \in B PROVE e \in D
      OBVIOUS
    <2>2. PICK x \in t : e \in entriesOf(name, x)
      BY <2>1, SchemaIs
    <2>3. e.row = x
      <3>1. x \in Rows
        BY <1>1, <2>2
      <3>. QED
        BY <2>2, <3>1, EntriesAre
    <2>. QED
      BY <2>1, <2>2, <2>3
  <1>5. /\ IsFiniteSet(D) /\ Cardinality(D) = Cardinality(FromObject(name, r))
        /\ Cardinality(A) = Cardinality(W)
    BY <1>1, EntriesFinite
  <1>. HIDE DEF A, B, D
  <1>6. /\ IsFiniteSet(B) /\ Cardinality(B) <= Cardinality(D)
    BY <1>4, <1>5, FS_Subset
  <1>7. /\ IsFiniteSet(A) /\ Cardinality(A) <= Cardinality(B)
    BY <1>3, <1>6, FS_Subset
  <1>8. Cardinality(A) \in Nat /\ Cardinality(B) \in Nat /\ Cardinality(D) \in Nat
    BY <1>5, <1>6, <1>7, FS_CardinalityType
  <1>9. Cardinality(B) \in Cardinality(W)..Cardinality(FromObject(name, r))
    BY <1>5, <1>6, <1>7, <1>8, SMT
  <1>. QED
    BY <1>9 DEF B
-----------------------------------------------------------------------------
\* The bytes that an indexer takes from an Index are its key.
LEMMA ArgsAre ==
    ASSUME NEW ix, ix.name \in IndexNames, FromArgs(ix) # Err
    PROVE  FromArgs(ix) = ix.key
  BY DEF FromArgs, IndexNames, idArgs, serverArgs, hostnameArgs, metaArgs

\* A selection of rows of a table.
Gives(it, t) ==
    /\ it.ok \in BOOLEAN
    /\ it.rows \in Seq(Rows)
    /\ \A i \in 1..Len(it.rows) : it.rows[i] \in t

\* It has each row as often as a set of entries.
Counts(it, F) == \A r : Cardinality(hits(it.rows, r)) = Cardinality({e \in F : e.row = r})

\* query.iterate returns rows of the table, as often as they have entries,
\* forwards and backwards.
LEMMA IterateIs ==
    ASSUME NEW t, TableOK(t), NEW name \in IndexNames, NEW F \in SUBSET schema(t, name),
           NEW ix, NEW it, it = iterate(ix, F) \/ it = backwards(iterate(ix, F))
    PROVE  /\ Gives(it, t) /\ (it.ok <=> FromArgs(ix) # Err)
           /\ Len(it.rows) <= Cardinality(schema(t, name))
           /\ it.ok => Counts(it, F)
  <1>. DEFINE m == iterate(ix, F)
              C == Cardinality(schema(t, name))
  <1>1. Tree(schema(t, name)) /\ Tree(F)
    BY SchemaTree, TreeSub
  <1>2. C \in Nat /\ Cardinality(F) \in Nat /\ Cardinality(F) <= C
    BY <1>1, FS_Subset, FS_CardinalityType DEF Tree
  <1>3. /\ inOrder(F) \in Seq(Rows) /\ Len(inOrder(F)) = Cardinality(F)
        /\ \A r : Cardinality(hits(inOrder(F), r)) = Cardinality({e \in F : e.row = r})
    BY <1>1, InOrderIs, InOrderCount
  <1>4. /\ m.ok \in BOOLEAN /\ (m.ok <=> FromArgs(ix) # Err)
        /\ m.rows = (IF FromArgs(ix) # Err THEN inOrder(F) ELSE <<>>)
        /\ m = [ok |-> m.ok, rows |-> m.rows]
    BY DEF iterate, Failed, Found
  <1>5. m.rows \in Seq(Rows) /\ Len(m.rows) \in Nat /\ Len(m.rows) <= C
    <2>1. <<>> \in Seq(Rows) /\ Len(<<>>) = 0
      BY SMT
    <2>2. CASE FromArgs(ix) # Err
      <3>1. m.rows = inOrder(F)
        BY <1>4, <2>2
      <3>. QED
        BY <1>2, <1>3, <3>1
    <2>3. CASE FromArgs(ix) = Err
      <3>1. m.rows = <<>>
        BY <1>4, <2>3
      <3>2. Len(m.rows) = 0
        BY <2>1, <3>1
      <3>3. 0 <= C
        BY <1>2, SMT
      <3>. QED
        BY <2>1, <3>1, <3>2, <3>3
    <2>. QED
      BY <2>2, <2>3
  <1>6. m.ok => \A r : Cardinality(hits(m.rows, r)) = Cardinality({e \in F : e.row = r})
    BY <1>3, <1>4
  <1>9. \A i \in 1..Len(m.rows) : m.rows[i] \in t
    <2>1. SUFFICES ASSUME NEW i \in 1..Len(m.rows) PROVE m.rows[i] \in t
      OBVIOUS
    <2>2. m.ok /\ m.rows = inOrder(F)
      <3>1. FromArgs(ix) = Err => Len(m.rows) = 0
        BY <1>4, SMT
      <3>2. Len(m.rows) # 0
        BY <1>5, SMT
      <3>. QED
        BY <1>4, <3>1, <3>2
    <2>3. PICK e \in F : m.rows[i] = e.row
      <3>1. \A j \in 1..Cardinality(F) : \E e \in F : inOrder(F)[j] = e.row
        BY <1>1, InOrderIs
      <3>2. i \in 1..Cardinality(F)
        BY <1>3, <2>2
      <3>. QED
        BY <2>2, <3>1, <3>2
    <2>4. PICK r \in t : e \in entriesOf(name, r)
      BY SchemaIs
    <2>5. r \in Rows
      BY DEF TableOK
    <2>6. e.row = r
      BY <2>4, <2>5, EntriesAre
    <2>. QED
      BY <2>3, <2>6
  <1>. HIDE DEF m, C
  <1>7. CASE it = m
    BY <1>4, <1>5, <1>6, <1>7, <1>9 DEF C, Gives, Counts
  <1>8. CASE it = backwards(m)
    <2>1. it.ok = m.ok /\ it.rows = Reverse(m.rows)
      BY <1>4, <1>8, SMT DEF backwards
    <2>2. /\ Reverse(m.rows) \in Seq(Rows) /\ Len(Reverse(m.rows)) = Len(m.rows)
          /\ \A i \in 1..Len(m.rows) : \E j \in 1..Len(m.rows) : Reverse(m.rows)[i] = m.rows[j]
          /\ \A r : Cardinality(hits(Reverse(m.rows), r)) = Cardinality(hits(m.rows, r))
      BY <1>5, ReverseIs
    <2>3. \A i \in 1..Len(it.rows) : it.rows[i] \in t
      BY <1>9, <2>1, <2>2
    <2>. QED
      BY <1>4, <1>5, <1>6, <2>1, <2>2, <2>3 DEF C, Gives, Counts
  <1>. QED
    BY <1>7, <1>8 DEF m

\* A snapshot of a table, or its reverse.
SnapshotOK(q) == TableOK(q.rows) /\ q.reversed \in BOOLEAN

\* The entries that Select and From find.
selected(q, ix) == {e \in schema(q.rows, ix.name) : HasPrefix(e.key, FromArgs(ix))}
after(q, ix) == {e \in schema(q.rows, ix.name) : ~Before(e.key, FromArgs(ix))}
before(q, ix) == {e \in schema(q.rows, ix.name) : ~Before(FromArgs(ix), e.key)}
reached(q, s) ==
    CASE s.sel = "select" -> selected(q, s.ix)
      [] s.sel = "from" -> IF q.reversed THEN before(q, s.ix) ELSE after(q, s.ix)


\* What is reached has an entry for each wanted key.
LEMMA WantedReached ==
    ASSUME NEW q, SnapshotOK(q), NEW s, ByIndex(s),
           FromArgs(s.ix) # Err, NEW r \in q.rows, NEW k \in FromObject(s.ix.name, r),
           wanted(q, s, k)
    PROVE  entry(s.ix.name, k, r) \in reached(q, s)
  <1>. DEFINE e == entry(s.ix.name, k, r)
              p == peerToBytes(r.peer)
  <1>1. r \in Rows
    BY DEF SnapshotOK, TableOK
  <1>2. s.ix.name \in IndexNames /\ s.ix.key \in Texts /\ s.ix.prefix \in BOOLEAN
        /\ q.reversed \in BOOLEAN
    BY DEF ByIndex, IndexOK, SnapshotOK
  <1>3. k \in Texts /\ p \in Texts
    BY <1>1, <1>2, KeysAre, RowIs, PeerText
  <1>4. e \in schema(q.rows, s.ix.name)
    <2>1. e \in entriesOf(s.ix.name, r)
      BY DEF entriesOf
    <2>. QED
      BY <2>1, SchemaIs
  <1>5. FromArgs(s.ix) = s.ix.key
    BY <1>2, ArgsAre
  <1>6. e.key = IF unique(s.ix.name) THEN k ELSE k \o p
    <2>1. e.key = entryKey(s.ix.name, k, r)
      BY <1>1, <1>3, EntryIs
    <2>. QED
      BY <2>1 DEF entryKey
  <1>. HIDE DEF e, p
  <1>7. CASE s.sel = "select"
    <2>1. HasPrefix(k, s.ix.key)
      <3>1. \A x \in Texts : HasPrefix(x, x)
        BY SMT DEF HasPrefix, Texts
      <3>. QED
        BY <1>2, <1>3, <1>7, <3>1 DEF wanted
    <2>2. HasPrefix(e.key, s.ix.key)
      BY <1>2, <1>3, <1>6, <2>1, PrefixConcat
    <2>. QED
      BY <1>4, <1>5, <1>7, <2>2 DEF reached, selected, e
  <1>8. CASE s.sel = "from" /\ ~q.reversed
    <2>1. ~Before(k, s.ix.key)
      BY <1>8 DEF wanted
    <2>2. ~Before(e.key, s.ix.key)
      <3>1. ~Before(k \o p, s.ix.key)
        BY <1>2, <1>3, <2>1, LowerConcat
      <3>. QED
        BY <1>6, <2>1, <3>1
    <2>. QED
      BY <1>4, <1>5, <1>8, <2>2 DEF reached, after, e
  <1>9. CASE s.sel = "from" /\ q.reversed
    <2>1. IF unique(s.ix.name) THEN ~Before(s.ix.key, k)
          ELSE Before(k, s.ix.key) /\ ~HasPrefix(s.ix.key, k)
      BY <1>9 DEF wanted
    <2>2. ~Before(s.ix.key, e.key)
      BY <1>2, <1>3, <1>6, <2>1, UpperConcat
    <2>. QED
      BY <1>4, <1>5, <1>9, <2>2 DEF reached, before, e
  <1>. QED
    BY <1>2, <1>7, <1>8, <1>9 DEF ByIndex

\* all selects by the empty prefix.
LEMMA AllIs ==
    /\ all.name = "id" /\ all.prefix = TRUE /\ all.key = <<>>
    /\ IndexOK(all) /\ FromArgs(all) = <<>> /\ FromArgs(all) # Err
  <1>1. /\ all.name = "id" /\ all.prefix = TRUE /\ all.key = <<>>
        /\ all.as = {"PeerIndex"}
    BY SMT DEF all, Index
  <1>2. <<>> \in Texts
    BY SMT DEF Texts
  <1>3. FromArgs(all) = <<>>
    BY <1>1, SMT DEF FromArgs, idArgs
  <1>. QED
    BY <1>1, <1>2, <1>3, QueryOK DEF IndexOK, IndexNames

\* Select and From are reads of those entries,
LEMMA SelectIs ==
    ASSUME NEW q, SnapshotOK(q), NEW ix, IndexOK(ix)
    PROVE  /\ Select(q, ix) = iterate(ix, selected(q, ix))
              \/ Select(q, ix) = backwards(iterate(ix, selected(q, ix)))
           /\ selected(q, ix) \in SUBSET schema(q.rows, ix.name)
           /\ TableOK(q.rows) /\ ix.name \in IndexNames
  BY DEF Select, Get, GetReverse, selected, SnapshotOK, IndexOK

\* in either direction,
LEMMA FromIs ==
    ASSUME NEW q, SnapshotOK(q), NEW ix, IndexOK(ix)
    PROVE  /\ From(q, ix) = IF q.reversed THEN backwards(iterate(ix, before(q, ix)))
                            ELSE iterate(ix, after(q, ix))
           /\ before(q, ix) \in SUBSET schema(q.rows, ix.name)
           /\ after(q, ix) \in SUBSET schema(q.rows, ix.name)
           /\ TableOK(q.rows) /\ ix.name \in IndexNames
  BY DEF From, LowerBound, ReverseLowerBound, before, after, SnapshotOK, IndexOK

\* and a selector with an index is one of the two.
LEMMA ReachedIs ==
    ASSUME NEW q, SnapshotOK(q), NEW s, ByIndex(s)
    PROVE  /\ selection(q, s) = iterate(s.ix, reached(q, s))
              \/ selection(q, s) = backwards(iterate(s.ix, reached(q, s)))
           /\ reached(q, s) \in SUBSET schema(q.rows, s.ix.name)
           /\ TableOK(q.rows) /\ s.ix.name \in IndexNames
  <1>1. CASE s.sel = "select"
    <2>1. selection(q, s) = Select(q, s.ix) /\ reached(q, s) = selected(q, s.ix)
      BY <1>1 DEF selection, reached
    <2>. QED
      BY <2>1, SelectIs DEF ByIndex
  <1>2. CASE s.sel = "from"
    <2>1. /\ selection(q, s) = From(q, s.ix)
          /\ reached(q, s) = IF q.reversed THEN before(q, s.ix) ELSE after(q, s.ix)
      BY <1>2 DEF selection, reached
    <2>. QED
      BY <2>1, FromIs DEF ByIndex
  <1>. QED
    BY <1>1, <1>2 DEF ByIndex

\* A selector gives rows of the snapshot.
LEMMA SelectionIs ==
    ASSUME NEW q, SnapshotOK(q), NEW s, SelectorOK(s), NEW max \in Nat,
           \A name \in IndexNames : Cardinality(schema(q.rows, name)) <= max
    PROVE  /\ Gives(selection(q, s), q.rows)
           /\ Len(selection(q, s).rows) <= max

  <1>0. ASSUME NEW it, NEW ix, IndexOK(ix), NEW F \in SUBSET schema(q.rows, ix.name),
               it = iterate(ix, F) \/ it = backwards(iterate(ix, F))
        PROVE  Gives(it, q.rows) /\ Len(it.rows) <= max
    <2>1. TableOK(q.rows) /\ ix.name \in IndexNames
      BY <1>0 DEF SnapshotOK, IndexOK
    <2>2. Gives(it, q.rows) /\ Len(it.rows) <= Cardinality(schema(q.rows, ix.name))
      BY <1>0, <2>1, IterateIs
    <2>3. Tree(schema(q.rows, ix.name))
      BY <2>1, SchemaTree
    <2>4. Cardinality(schema(q.rows, ix.name)) \in Nat
      BY <2>3, FS_CardinalityType DEF Tree
    <2>5. Len(it.rows) \in Nat
      BY <2>2, SMT DEF Gives
    <2>6. Cardinality(schema(q.rows, ix.name)) <= max
      BY <2>1
    <2>7. Len(it.rows) <= max
      BY <2>2, <2>4, <2>5, <2>6, SMT
    <2>. QED
      BY <2>2, <2>7
  <1>1. CASE s.sel = "all"
    <2>1. selection(q, s) = Select(q, all)
      BY <1>1 DEF selection
    <2>2. IndexOK(all)
      BY AllIs
    <2>. QED
      BY <1>0, <2>1, <2>2, SelectIs
  <1>2. CASE s.sel = "failure"
    <2>1. selection(q, s) = Failed
      BY <1>2 DEF selection
    <2>2. Failed.ok = FALSE /\ Failed.rows = <<>>
      BY SMT DEF Failed
    <2>3. /\ <<>> \in Seq(Rows) /\ Len(<<>>) = 0 /\ 0 <= max
          /\ \A i \in 1..Len(<<>>) : <<>>[i] \in q.rows
      BY SMT
    <2>. QED
      BY <2>1, <2>2, <2>3 DEF Gives
  <1>3. CASE ByIndex(s)
    <2>1. /\ selection(q, s) = iterate(s.ix, reached(q, s))
             \/ selection(q, s) = backwards(iterate(s.ix, reached(q, s)))
          /\ reached(q, s) \in SUBSET schema(q.rows, s.ix.name)
      BY <1>3, ReachedIs
    <2>. QED
      BY <1>0, <1>3, <2>1 DEF ByIndex
  <1>. QED
    BY <1>1, <1>2, <1>3 DEF SelectorOK

\* It leaves out no row that it is to find.
LEMMA SelectionCount ==
    ASSUME NEW q, SnapshotOK(q), NEW s, ByIndex(s),
           selection(q, s).ok, NEW r \in q.rows
    PROVE  Cardinality(hits(selection(q, s).rows, r)) \in
             Cardinality({k \in FromObject(s.ix.name, r) : wanted(q, s, k)})
                ..Cardinality(FromObject(s.ix.name, r))
  <1>. DEFINE W == {k \in FromObject(s.ix.name, r) : wanted(q, s, k)}
              F == reached(q, s)
              it == selection(q, s)
  <1>1. /\ it = iterate(s.ix, F) \/ it = backwards(iterate(s.ix, F))
        /\ F \in SUBSET schema(q.rows, s.ix.name)
        /\ TableOK(q.rows) /\ s.ix.name \in IndexNames
    BY ReachedIs
  <1>2. /\ it.ok <=> FromArgs(s.ix) # Err
        /\ it.ok => Counts(it, F)
    BY <1>1, IterateIs
  <1>3. \A k \in W : entry(s.ix.name, k, r) \in F
    BY <1>2, WantedReached
  <1>4. W \in SUBSET FromObject(s.ix.name, r)
    OBVIOUS
  <1>. HIDE DEF W, F, it
  <1>5. Cardinality({e \in F : e.row = r}) \in
            Cardinality(W)..Cardinality(FromObject(s.ix.name, r))
    BY <1>1, <1>3, <1>4, SelectedCount
  <1>6. it.ok
    BY DEF it
  <1>7. Cardinality(hits(it.rows, r)) = Cardinality({e \in F : e.row = r})
    BY <1>2, <1>6 DEF Counts
  <1>8. Cardinality(hits(it.rows, r)) \in
            Cardinality(W)..Cardinality(FromObject(s.ix.name, r))
    BY <1>5, <1>7
  <1>. QED
    BY <1>8 DEF it, W
=============================================================================
