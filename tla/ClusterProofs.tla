--------------------------- MODULE ClusterProofs ----------------------------
(***************************************************************************)
(* Proofs about a host and the row that an observer has of it.             *)
(***************************************************************************)
EXTENDS Cluster, TLAPS

\* The least age of an instance's messages: each restart may take Back off.
Lowest(s) == -(Back * s)

\* What is in flight was sent by the instance that runs, or by earlier ones.
NetOK ==
    \A m \in net :
        /\ m.ttl = SetTTL(RouterTTL)
        /\ m.server <= server
        /\ m.age >= Lowest(server)
        /\ m.server = server => m.age >= 0

RowOK ==
    row # None =>
        /\ row.server <= server
        /\ row.age >= Lowest(server)
        /\ row.server = server => row.age >= 0

\* A heartbeat of the instance that runs is on its way and will be accepted.
Pending ==
    \/ hb = "emit"
    \/ \E m \in net : m.new /\ m.server = server /\ m.age < row.age

\* What is left of the TTL, in whole ticks, lasts until the next heartbeat.
HealthyOK ==
    healthy =>
        /\ up
        /\ row # None
        /\ row.server = server
        /\ row.left % Tick = 0
        /\ phase = "host" => row.left + Tick > next
        /\ phase = "observer" => (row.left > next /\ row.left > 0) \/ Pending

IInv == TypeOK /\ next < RouterTTL /\ NetOK /\ RowOK /\ HealthyOK
-----------------------------------------------------------------------------
\* Arithmetic.

\* A time that the tick divides is a number of ticks,
LEMMA Divides ==
  ASSUME NEW x \in Nat, x % Tick = 0
  PROVE  \E q \in Nat : x = Tick * q
<1>1. Tick \in Nat \ {0}
  BY ClusterOK, Zenon
<1>2. x = Tick * (x \div Tick) + (x % Tick) /\ x \div Tick \in Nat
  BY <1>1
<1>3. x = Tick * (x \div Tick)
  BY <1>1, <1>2
<1> QED
  BY <1>2, <1>3, Zenon

\* and a number of ticks is divided by it.
LEMMA Multiple ==
  ASSUME NEW q \in Int
  PROVE  (Tick * q) % Tick = 0
BY ClusterOK

\* What is left and not zero lasts for a tick.
LEMMA WholeTick ==
  ASSUME NEW x \in Nat, x % Tick = 0, x > 0
  PROVE  x >= Tick /\ (x - Tick) % Tick = 0
<1>1. PICK q \in Nat : x = Tick * q
  BY Divides, Zenon
<1>2. Tick \in Nat \ {0}
  BY ClusterOK, Zenon
<1>3. x >= Tick
  BY <1>2
<1>4. x - Tick = Tick * (q - 1)
  BY <1>1, <1>2
<1> QED
  BY <1>3, <1>4, Multiple

\* Each restart lowers the bound on ages.
LEMMA LowestAge ==
  ASSUME NEW s \in 0..MaxRestarts
  PROVE  /\ Lowest(s) \in Int /\ Lowest(s) <= 0
         /\ Lowest(s) >= -(Back * MaxRestarts)
         /\ Lowest(s + 1) = Lowest(s) - Back
<1>1. Back \in Nat /\ MaxRestarts \in Nat /\ s \in Nat /\ s <= MaxRestarts
  BY ClusterOK
<1>2. Back * s \in Nat /\ Back * MaxRestarts \in Nat
  BY <1>1
<1>3. Back * s <= Back * MaxRestarts
  BY <1>1
<1>4. Back * (s + 1) = Back * s + Back
  BY <1>1
<1> QED
  BY <1>1, <1>2, <1>3, <1>4 DEF Lowest

\* Ages grow up to MaxLag.
LEMMA OlderAge ==
  ASSUME NEW a \in Int, NEW d \in Int, a <= MaxLag
  PROVE  /\ older(a, d) \in Int
         /\ older(a, d) <= MaxLag
         /\ older(a, d) = a + d \/ older(a, d) = MaxLag
BY ClusterOK DEF older
-----------------------------------------------------------------------------
Rows == [server : 0..MaxRestarts, age : Ages, left : Nat]

\* Ages move with the sequence numbers, down only when a new instance starts.
LEMMA OlderNetKeeps ==
  ASSUME TypeOK, NetOK, NEW d \in Int, NEW s \in 0..MaxRestarts, s >= server,
         Lowest(s) <= Lowest(server) + d, s = server => d >= 0,
         NEW m \in olderNet(d)
  PROVE  /\ m \in Messages
         /\ m.ttl = SetTTL(RouterTTL)
         /\ m.server <= server
         /\ m.age >= Lowest(s)
         /\ m.server = s => m.age >= 0
<1>1. PICK k \in net : k.age + d < MaxLag /\ m = [k EXCEPT !.age = older(@, d)]
  BY Zenon DEF olderNet
<1>2. /\ k \in Messages /\ k.ttl = SetTTL(RouterTTL) /\ k.server <= server
      /\ k.age >= Lowest(server) /\ (k.server = server => k.age >= 0)
  BY Zenon DEF TypeOK, NetOK
<1>3. k.age \in Int /\ k.server \in Int /\ server \in 0..MaxRestarts /\ MaxLag \in Int
  BY <1>2, ClusterOK DEF Messages, Ages, TypeOK
<1>4. older(k.age, d) = k.age + d
  BY <1>1, <1>3 DEF older
<1>5. /\ m.age = k.age + d /\ m.ttl = k.ttl /\ m.server = k.server
      /\ m.copies = k.copies /\ m.new = k.new
  BY <1>1, <1>2, <1>4, Zenon DEF Messages
<1>6. Lowest(s) \in Int /\ Lowest(s) >= -(Back * MaxRestarts) /\ Lowest(server) \in Int
  BY <1>3, LowestAge, Zenon
<1>7. m.age >= Lowest(s)
  BY <1>2, <1>3, <1>5, <1>6
<1>8. m.server = s => m.age >= 0
  BY <1>2, <1>3, <1>5
<1>9. m.age \in Ages
  <2>1. Back * MaxRestarts \in Int
    BY ClusterOK
  <2> QED
    BY <1>1, <1>3, <1>5, <1>6, <1>7, <2>1 DEF Ages
<1>10. m \in Messages
  BY <1>1, <1>2, <1>4, <1>5, <1>9, Zenon DEF Messages
<1> QED
  BY <1>2, <1>5, <1>7, <1>8, <1>10, Zenon

\* A row that gets older stays a row, of its instance.
LEMMA OlderRowKeeps ==
  ASSUME TypeOK, RowOK, row # None, NEW d \in Int, NEW s \in 0..MaxRestarts, s >= server,
         Lowest(s) <= Lowest(server) + d, s = server => d >= 0
  PROVE  /\ olderRow(d) \in Rows
         /\ olderRow(d) # None
         /\ olderRow(d).server = row.server
         /\ olderRow(d).left = row.left
         /\ olderRow(d).age = older(row.age, d)
         /\ olderRow(d).age >= Lowest(s)
         /\ row.server = s => olderRow(d).age >= 0
<1>1. /\ row \in Rows /\ row.server <= server
      /\ row.age >= Lowest(server) /\ (row.server = server => row.age >= 0)
  BY Zenon DEF TypeOK, RowOK, Rows
<1>2. /\ row.age \in Int /\ row.age <= MaxLag /\ row.server \in Int
      /\ server \in 0..MaxRestarts /\ MaxLag \in Nat
  BY <1>1, ClusterOK DEF Rows, Ages, TypeOK
<1>3. olderRow(d) = [row EXCEPT !.age = older(@, d)]
  BY Zenon DEF olderRow
<1>4. /\ olderRow(d).age = older(row.age, d) /\ olderRow(d).server = row.server
      /\ olderRow(d).left = row.left
  BY <1>1, <1>3, Zenon DEF Rows
<1>5. /\ older(row.age, d) \in Int /\ older(row.age, d) <= MaxLag
      /\ older(row.age, d) = row.age + d \/ older(row.age, d) = MaxLag
  BY <1>2, OlderAge, Zenon
<1>6. /\ Lowest(s) \in Int /\ Lowest(s) >= -(Back * MaxRestarts) /\ Lowest(server) \in Int
      /\ Lowest(s) <= 0
  BY <1>2, LowestAge, Zenon
<1>7. older(row.age, d) >= Lowest(s)
  BY <1>1, <1>2, <1>5, <1>6
<1>8. row.server = s => older(row.age, d) >= 0
  BY <1>1, <1>2, <1>5
<1>9. older(row.age, d) \in Ages
  <2>1. Back * MaxRestarts \in Int
    BY ClusterOK
  <2> QED
    BY <1>2, <1>5, <1>6, <1>7, <2>1 DEF Ages
<1>10. olderRow(d) \in Rows
  BY <1>1, <1>3, <1>9, Zenon DEF Rows
<1>11. olderRow(d) # None
  <2>1. Rows \subseteq [server : Int, age : Int, left : Int]
    BY ClusterOK DEF Rows, Ages
  <2> QED
    BY <1>10, <2>1, ClusterOK, Zenon
<1> QED
  BY <1>4, <1>7, <1>8, <1>10, <1>11, Zenon
-----------------------------------------------------------------------------
\* The invariant holds at the start.
LEMMA InitInv == Init => IInv
<1> SUFFICES ASSUME Init PROVE IInv
  BY Zenon
<1>1. TypeOK /\ next < RouterTTL
  <2>1. 0 \in 0..MaxRestarts /\ 0 \in -Tick..RouterTTL /\ 0 < RouterTTL
    BY ClusterOK
  <2> QED
    BY <2>1, Zenon DEF Init, TypeOK
<1>2. NetOK /\ RowOK /\ HealthyOK
  BY Zenon DEF Init, NetOK, RowOK, HealthyOK
<1> QED
  BY <1>1, <1>2, Zenon DEF IInv

\* The steps that leave messages and the row alone.
LEMMA QuietKeeps ==
  ASSUME IInv, Bootstrap \/ emitFails \/ resume \/ Crash
  PROVE  IInv'
<1>1. UNCHANGED <<server, next, phase, net, row>>
  BY Zenon DEF Bootstrap, emitFails, resume, Crash
<1>2. TypeOK' /\ next' < RouterTTL
  BY <1>1, Zenon DEF IInv, TypeOK, Bootstrap, emitFails, resume, Crash
<1>3. NetOK' /\ RowOK'
  BY <1>1, Zenon DEF IInv, NetOK, RowOK
<1>4. HealthyOK'
  <2> SUFFICES ASSUME healthy' PROVE HealthyOK'
    BY Zenon DEF HealthyOK
  <2>1. up' = up /\ healthy /\ (hb = "emit" => hb' = "emit")
    BY Zenon DEF Bootstrap, emitFails, resume, Crash
  <2>2. Pending => Pending'
    BY <1>1, <2>1, Zenon DEF Pending
  <2> QED
    BY <1>1, <2>1, <2>2, Zenon DEF IInv, HealthyOK
<1> QED
  BY <1>2, <1>3, <1>4, Zenon DEF IInv

\* A tick of the host puts the next heartbeat off by less than the TTL, or
\* has one sent.
LEMMA advanceKeeps ==
  ASSUME IInv, advance
  PROVE  IInv'
<1>1. /\ UNCHANGED <<up, server, net, row>> /\ phase = "host" /\ phase' = "observer"
      /\ next \in -Tick..RouterTTL /\ next < RouterTTL
      /\ Tick \in Nat \ {0} /\ RouterTTL \in Nat \ {0}
  BY ClusterOK, Zenon DEF advance, IInv, TypeOK
<1>2. CASE up /\ next - Tick < 0
  <2>1. /\ next' \in jitter /\ hb' = (IF hb = "idle" THEN "emit" ELSE hb)
        /\ healthy' = (healthy /\ hb = "idle")
    BY <1>2, Zenon DEF advance
  <2>2. next' \in -Tick..RouterTTL /\ next' < RouterTTL
    BY <1>1, <2>1 DEF jitter
  <2>3. TypeOK'
    BY <1>1, <2>1, <2>2, Zenon DEF IInv, TypeOK
  <2>4. NetOK' /\ RowOK'
    BY <1>1, Zenon DEF IInv, NetOK, RowOK
  <2>5. HealthyOK'
    BY <1>1, <2>1, Zenon DEF IInv, HealthyOK, Pending
  <2> QED
    BY <2>2, <2>3, <2>4, <2>5, Zenon DEF IInv
<1>3. CASE ~(up /\ next - Tick < 0)
  <2>1. /\ next' = IF up THEN next - Tick ELSE next
        /\ hb' = hb /\ healthy' = healthy
    BY <1>3, Zenon DEF advance
  <2>2. next' \in -Tick..RouterTTL /\ next' < RouterTTL
    BY <1>1, <1>3, <2>1
  <2>3. TypeOK'
    BY <1>1, <2>1, <2>2, Zenon DEF IInv, TypeOK
  <2>4. NetOK' /\ RowOK'
    BY <1>1, Zenon DEF IInv, NetOK, RowOK
  <2>5. HealthyOK'
    <3> SUFFICES ASSUME healthy' PROVE HealthyOK'
      BY Zenon DEF HealthyOK
    <3>1. /\ healthy /\ up /\ row # None /\ row.server = server /\ row.left % Tick = 0
          /\ row.left + Tick > next /\ row.left \in Nat
      BY <1>1, <2>1, Zenon DEF IInv, HealthyOK, TypeOK
    <3>2. row.left > next' /\ row.left > 0
      BY <1>1, <1>3, <2>1, <3>1
    <3> QED
      BY <1>1, <3>1, <3>2, Zenon DEF HealthyOK
  <2> QED
    BY <2>2, <2>3, <2>4, <2>5, Zenon DEF IInv
<1> QED
  BY <1>2, <1>3, Zenon

\* A heartbeat that is sent is accepted when it arrives: the row of the
\* instance, if there is one, grows older.
LEMMA emitKeeps ==
  ASSUME IInv, emit
  PROVE  IInv'
<1> DEFINE msg(c) == [server |-> server, age |-> 0, ttl |-> SetTTL(RouterTTL),
                      copies |-> c, new |-> TRUE]
<1>1. PICK c \in 1..2 : net' = olderNet(1) \cup {msg(c)}
  BY Zenon DEF emit
<1>2. /\ UNCHANGED <<up, server, next, phase>> /\ hb' = "idle" /\ row' = olderRow(1)
      /\ healthy' = (healthy /\ Cardinality(olderNet(1)) = Cardinality(net))
  BY Zenon DEF emit
<1>3. /\ server \in 0..MaxRestarts /\ Lowest(server) \in Int /\ Lowest(server) <= 0
      /\ Lowest(server) <= Lowest(server) + 1
  BY LowestAge DEF IInv, TypeOK
<1>4. /\ msg(c) \in Messages /\ msg(c).ttl = SetTTL(RouterTTL) /\ msg(c).server = server
      /\ msg(c).age = 0 /\ msg(c).new
  <2>1. SetTTL(RouterTTL) \in 0..(TTLRange - 1)
    BY ClusterOK, PulseOK DEF SetTTL
  <2>2. 0 \in Ages
    <3>1. Back * MaxRestarts \in Nat /\ MaxLag \in Nat
      BY ClusterOK
    <3> QED
      BY <3>1 DEF Ages
  <2> QED
    BY <1>3, <2>1, <2>2, Zenon DEF Messages
<1> HIDE DEF msg
<1>5. NetOK' /\ net' \subseteq Messages
  <2>1. ASSUME NEW m \in net'
        PROVE  /\ m \in Messages /\ m.ttl = SetTTL(RouterTTL) /\ m.server <= server
               /\ m.age >= Lowest(server) /\ (m.server = server => m.age >= 0)
    <3>1. CASE m = msg(c)
      BY <1>3, <1>4, <3>1
    <3>2. CASE m \in olderNet(1)
      BY <1>3, <3>2, OlderNetKeeps DEF IInv
    <3> QED
      BY <1>1, <2>1, <3>1, <3>2, Zenon
  <2> QED
    BY <1>2, <2>1, Zenon DEF NetOK, Lowest
<1>6. CASE row = None
  <2>1. row' = None
    BY <1>2, <1>6, Zenon DEF olderRow
  <2>2. ~healthy
    BY <1>6, Zenon DEF IInv, HealthyOK
  <2> QED
    BY <1>2, <1>5, <2>1, <2>2, Zenon DEF IInv, TypeOK, RowOK, HealthyOK
<1>7. CASE row # None
  <2>1. /\ row' \in Rows /\ row' # None /\ row'.server = row.server /\ row'.left = row.left
        /\ row'.age = older(row.age, 1) /\ row'.age >= Lowest(server)
        /\ row.server = server => row'.age >= 0
    BY <1>2, <1>3, <1>7, OlderRowKeeps DEF IInv
  <2>2. RowOK'
    BY <1>2, <1>7, <2>1, Zenon DEF IInv, RowOK, Lowest
  <2>3. TypeOK'
    BY <1>2, <1>5, <2>1, Zenon DEF IInv, TypeOK, Rows
  <2>4. HealthyOK'
    <3> SUFFICES ASSUME healthy' PROVE HealthyOK'
      BY Zenon DEF HealthyOK
    <3>1. /\ up /\ row.server = server /\ row.left % Tick = 0
          /\ phase = "host" => row.left + Tick > next
      BY <1>2, Zenon DEF IInv, HealthyOK
    <3>2. row.age >= 0 /\ row.age \in Int /\ MaxLag \in Nat \ {0}
      BY <1>7, <3>1, ClusterOK DEF IInv, RowOK, TypeOK, Ages
    <3>3. row'.age > 0
      BY <2>1, <3>2 DEF older
    <3>4. Pending'
      BY <1>1, <1>2, <1>4, <3>3, Zenon DEF Pending
    <3> QED
      BY <1>2, <2>1, <3>1, <3>4, Zenon DEF HealthyOK
  <2> QED
    BY <1>2, <1>5, <2>2, <2>3, <2>4, Zenon DEF IInv
<1> QED
  BY <1>6, <1>7, Zenon

\* Nothing is in flight yet of a new instance.
LEMMA setupKeeps ==
  ASSUME IInv, setup
  PROVE  IInv'
<1>1. /\ ~up /\ up' = TRUE /\ server' = server + 1 /\ next' = 0
      /\ UNCHANGED <<hb, phase, healthy>>
  BY Zenon DEF setup
<1>2. PICK d \in {0, -Back} : net' = olderNet(d) /\ row' = olderRow(d)
  BY Zenon DEF setup
<1>3. /\ server \in 0..MaxRestarts /\ server' \in 0..MaxRestarts /\ server \in Nat
      /\ Back \in Nat /\ d \in Int /\ server' # server /\ server' >= server
  BY <1>1, ClusterOK DEF setup, IInv, TypeOK
<1>4. /\ Lowest(server) \in Int /\ Lowest(server') = Lowest(server) - Back
      /\ Lowest(server') <= Lowest(server) + d
  <2>1. Lowest(server) \in Int /\ Lowest(server + 1) = Lowest(server) - Back
    BY <1>3, LowestAge, Zenon
  <2> QED
    BY <1>1, <1>2, <1>3, <2>1
<1>5. NetOK' /\ net' \subseteq Messages
  <2>1. ASSUME NEW m \in net'
        PROVE  /\ m \in Messages /\ m.ttl = SetTTL(RouterTTL) /\ m.server <= server
               /\ m.age >= Lowest(server') /\ (m.server = server' => m.age >= 0)
    BY <1>2, <1>3, <1>4, OlderNetKeeps, Zenon DEF IInv
  <2>2. ASSUME NEW m \in net' PROVE m.server <= server'
    <3>1. m.server \in Int /\ m.server <= server
      BY <2>1 DEF Messages
    <3> QED
      BY <1>1, <1>3, <3>1
  <2> QED
    BY <2>1, <2>2, Zenon DEF NetOK, Lowest
<1>6. RowOK' /\ (row' = None \/ row' \in Rows)
  <2>1. CASE row = None
    BY <1>2, <2>1, Zenon DEF olderRow, RowOK
  <2>2. CASE row # None
    <3>1. /\ row' \in Rows /\ row'.server = row.server /\ row'.age >= Lowest(server')
          /\ row.server = server' => row'.age >= 0
      BY <1>2, <1>3, <1>4, <2>2, OlderRowKeeps, Zenon DEF IInv
    <3>2. row'.server <= server'
      <4>1. row.server <= server /\ row'.server \in Int
        BY <2>2, <3>1 DEF IInv, RowOK, Rows
      <4> QED
        BY <1>1, <1>3, <3>1, <4>1
    <3> QED
      BY <3>1, <3>2, Zenon DEF RowOK, Lowest
  <2> QED
    BY <2>1, <2>2, Zenon
<1>7. TypeOK' /\ next' < RouterTTL'
  <2>1. 0 \in -Tick..RouterTTL /\ 0 < RouterTTL
    BY ClusterOK
  <2> QED
    BY <1>1, <1>3, <1>5, <1>6, <2>1, Zenon DEF IInv, TypeOK, Rows
<1>8. HealthyOK'
  BY <1>1, Zenon DEF IInv, HealthyOK
<1> QED
  BY <1>5, <1>6, <1>7, <1>8, Zenon DEF IInv

\* What a delivery leaves of a message.
Copy(m) == [m EXCEPT !.copies = 1, !.new = FALSE]

\* Whatever a step leaves of a message, the invariant says the same of.
LEMMA FewerKeeps ==
  ASSUME IInv, UNCHANGED server,
         \A m \in net' : \E k \in net : m = k \/ m = Copy(k)
  PROVE  NetOK' /\ net' \subseteq Messages
<1>1. ASSUME NEW m \in net'
      PROVE  /\ m \in Messages /\ m.ttl = SetTTL(RouterTTL) /\ m.server <= server
             /\ m.age >= Lowest(server) /\ (m.server = server => m.age >= 0)
  <2>1. PICK k \in net : m = k \/ m = Copy(k)
    BY <1>1, Zenon
  <2>2. /\ k \in Messages /\ k.ttl = SetTTL(RouterTTL) /\ k.server <= server
        /\ k.age >= Lowest(server) /\ (k.server = server => k.age >= 0)
    BY Zenon DEF IInv, TypeOK, NetOK
  <2>3. m \in Messages /\ m.ttl = k.ttl /\ m.server = k.server /\ m.age = k.age
    <3>1. CASE m = k
      BY <2>2, <3>1, Zenon
    <3>2. CASE m = Copy(k)
      <4>1. m = [server |-> k.server, age |-> k.age, ttl |-> k.ttl, copies |-> 1, new |-> FALSE]
        BY <2>2, <3>2, Zenon DEF Messages, Copy
      <4>2. k.server \in 0..MaxRestarts /\ k.age \in Ages /\ k.ttl \in 0..(TTLRange - 1)
        BY <2>2, Zenon DEF Messages
      <4>3. 1 \in 1..2
        OBVIOUS
      <4>4. m \in Messages
        BY <4>1, <4>2, <4>3, Zenon DEF Messages
      <4> QED
        BY <4>1, <4>4, Zenon
    <3> QED
      BY <2>1, <3>1, <3>2, Zenon
  <2> QED
    BY <2>2, <2>3, Zenon
<1> QED
  BY <1>1, Zenon DEF NetOK, Lowest

\* A message that is refused is not one that the row waits for.
LEMMA ValidatorKeeps ==
  ASSUME IInv, NEW m \in net, Validator(m)
  PROVE  IInv'
<1>1. /\ UNCHANGED <<up, server, next, hb, phase>>
      /\ net' = (net \ {m}) \cup
                   (IF m.copies = 2 THEN {[m EXCEPT !.copies = 1, !.new = FALSE]} ELSE {})
  BY Zenon DEF Validator, host
<1>2. NetOK' /\ net' \subseteq Messages
  BY <1>1, FewerKeeps, Zenon DEF Copy
<1>3. /\ m \in Messages /\ m.ttl = SetTTL(RouterTTL) /\ m.server <= server
      /\ m.age >= Lowest(server) /\ (m.server = server => m.age >= 0)
  BY Zenon DEF IInv, TypeOK, NetOK
<1>4. CASE valid(m)
  <2>1. /\ row' = [server |-> m.server, age |-> m.age, left |-> RouterTTL]
        /\ healthy' = (m.server = server /\ up /\ m.age = 0 /\ m.new)
    BY <1>3, <1>4, ClusterOK, Zenon DEF Validator
  <2>2. /\ RouterTTL \in Nat \ {0} /\ Tick \in Nat /\ RouterTTL % Tick = 0
        /\ next \in Int /\ next < RouterTTL
    BY ClusterOK DEF IInv, TypeOK
  <2>3. row' \in Rows /\ row' # None
    <3>1. row' \in Rows
      BY <1>3, <2>1, <2>2, Zenon DEF Messages, Rows
    <3>2. Rows \subseteq [server : Int, age : Int, left : Int]
      BY ClusterOK DEF Rows, Ages
    <3> QED
      BY <3>1, <3>2, ClusterOK, Zenon
  <2>4. RowOK'
    BY <1>1, <1>3, <2>1, Zenon DEF RowOK, Lowest
  <2>5. TypeOK'
    BY <1>1, <1>2, <2>1, <2>3, Zenon DEF IInv, TypeOK, Rows
  <2>6. HealthyOK'
    <3>1. RouterTTL > next /\ RouterTTL > 0 /\ RouterTTL + Tick > next
      BY <2>2
    <3> QED
      BY <1>1, <2>1, <2>2, <2>3, <3>1, Zenon DEF HealthyOK
  <2> QED
    BY <1>1, <1>2, <2>4, <2>5, <2>6, Zenon DEF IInv
<1>5. CASE ~valid(m)
  <2>1. row' = row /\ healthy' = healthy
    BY <1>5, Zenon DEF Validator
  <2>2. TypeOK' /\ RowOK'
    BY <1>1, <1>2, <2>1, Zenon DEF IInv, TypeOK, RowOK, Lowest
  <2>3. healthy /\ Pending => Pending'
    <3> SUFFICES ASSUME healthy, NEW k \in net, k.new, k.server = server, k.age < row.age
                 PROVE  k \in net'
      BY <1>1, <2>1, Zenon DEF Pending
    <3>1. row.server = server /\ row.age \in Int /\ k.age \in Int
      BY DEF IInv, HealthyOK, TypeOK, Messages, Ages
    <3>2. valid(k)
      BY <3>1, Zenon DEF valid
    <3> QED
      BY <1>1, <1>5, <3>2, Zenon
  <2>4. HealthyOK'
    BY <1>1, <2>1, <2>3, Zenon DEF IInv, HealthyOK
  <2> QED
    BY <1>1, <1>2, <2>2, <2>4, Zenon DEF IInv
<1> QED
  BY <1>4, <1>5, Zenon

\* A heartbeat that is lost in transit.
LEMMA LoseKeeps ==
  ASSUME IInv, NEW m \in net, Lose(m)
  PROVE  IInv'
<1>1. /\ UNCHANGED <<up, server, next, hb, phase, row>> /\ net' = net \ {m}
      /\ healthy' = (healthy /\ ~m.new)
  BY Zenon DEF Lose, host
<1>2. NetOK' /\ net' \subseteq Messages
  BY <1>1, FewerKeeps, Zenon
<1>3. TypeOK' /\ RowOK'
  BY <1>1, <1>2, Zenon DEF IInv, TypeOK, RowOK, Lowest
<1>4. HealthyOK'
  <2>1. healthy' /\ Pending => Pending'
    BY <1>1, Zenon DEF Pending
  <2> QED
    BY <1>1, <2>1, Zenon DEF IInv, HealthyOK
<1> QED
  BY <1>1, <1>2, <1>3, <1>4, Zenon DEF IInv

\* A tick of the observer: nothing was on its way, so what was left of the
\* TTL was enough.
LEMMA TickKeeps ==
  ASSUME IInv, Advance
  PROVE  IInv'
<1>1. /\ UNCHANGED <<up, server, next, hb, net>> /\ phase = "observer" /\ phase' = "host"
      /\ row' = (IF row = None \/ row.left - Tick < 0 THEN None
                 ELSE [row EXCEPT !.left = @ - Tick])
      /\ healthy' = (healthy /\ hb # "emit" /\ \A m \in net : ~m.new)
  BY Zenon DEF Advance, host
<1>2. NetOK' /\ net' \subseteq Messages
  BY <1>1, Zenon DEF IInv, NetOK, TypeOK, Lowest
<1>3. CASE row' = None
  <2>1. ~healthy'
    <3> SUFFICES ASSUME healthy' PROVE FALSE
      BY Zenon
    <3>1. row # None /\ row.left > 0 /\ row.left % Tick = 0 /\ row.left \in Nat
      <4>1. healthy /\ ~Pending
        BY <1>1, Zenon DEF Pending
      <4>2. row # None /\ row.left > 0 /\ row.left % Tick = 0
        BY <1>1, <4>1, Zenon DEF IInv, HealthyOK
      <4> QED
        BY <4>2, Zenon DEF IInv, TypeOK
    <3>2. row.left - Tick >= 0
      <4>1. row.left >= Tick /\ Tick \in Nat
        BY <3>1, WholeTick, ClusterOK, Zenon
      <4> QED
        BY <3>1, <4>1
    <3>3. row' = [row EXCEPT !.left = row.left - Tick]
      BY <1>1, <3>1, <3>2, ClusterOK
    <3>4. row' \in [server : Int, age : Int, left : Int]
      BY <3>1, <3>3, ClusterOK DEF IInv, TypeOK, Ages
    <3> QED
      BY <1>3, <3>4, ClusterOK, Zenon
  <2> QED
    BY <1>1, <1>2, <1>3, <2>1, Zenon DEF IInv, TypeOK, RowOK, HealthyOK
<1>4. CASE row' # None
  <2>1. /\ row # None /\ row \in Rows /\ ~(row.left - Tick < 0)
        /\ row' = [row EXCEPT !.left = row.left - Tick] /\ Tick \in Nat
    BY <1>1, <1>4, ClusterOK, Zenon DEF IInv, TypeOK, Rows
  <2>2. /\ row'.server = row.server /\ row'.age = row.age
        /\ row'.left = row.left - Tick /\ row' \in Rows
    BY <2>1 DEF Rows
  <2>3. TypeOK' /\ RowOK'
    BY <1>1, <1>2, <2>1, <2>2, Zenon DEF IInv, TypeOK, RowOK, Lowest, Rows
  <2>4. HealthyOK'
    <3> SUFFICES ASSUME healthy' PROVE HealthyOK'
      BY Zenon DEF HealthyOK
    <3>1. /\ up /\ row.server = server /\ row.left > 0 /\ row.left > next
          /\ row.left % Tick = 0 /\ row.left \in Nat /\ next \in Int
      <4>1. healthy /\ ~Pending
        BY <1>1, Zenon DEF Pending
      <4>2. row.left \in Nat /\ next \in Int
        BY <2>1, ClusterOK DEF IInv, TypeOK, Rows
      <4> QED
        BY <1>1, <4>1, <4>2, Zenon DEF IInv, HealthyOK
    <3>2. row'.left % Tick = 0
      BY <2>2, <3>1, WholeTick
    <3>3. row'.left + Tick > next
      BY <2>1, <2>2, <3>1
    <3> QED
      BY <1>1, <1>4, <2>2, <3>1, <3>2, <3>3, Zenon DEF HealthyOK
  <2> QED
    BY <1>1, <1>2, <2>3, <2>4, Zenon DEF IInv
<1> QED
  BY <1>3, <1>4, Zenon

\* Every step keeps the invariant.
LEMMA StepKeeps == IInv /\ [Next]_vars => IInv'
<1> SUFFICES ASSUME IInv, [Next]_vars PROVE IInv'
  BY Zenon
<1>1. CASE UNCHANGED vars
  BY <1>1, Zenon DEF vars, IInv, TypeOK, NetOK, RowOK, HealthyOK, Pending, Lowest
<1>2. CASE Bootstrap \/ emitFails \/ resume \/ Crash
  BY <1>2, QuietKeeps, Zenon
<1>3. CASE advance
  BY <1>3, advanceKeeps, Zenon
<1>4. CASE emit
  BY <1>4, emitKeeps, Zenon
<1>5. CASE setup
  BY <1>5, setupKeeps, Zenon
<1>6. CASE Deliver
  BY <1>6, ValidatorKeeps, Zenon DEF Deliver
<1>7. CASE Drop
  BY <1>7, LoseKeeps, Zenon DEF Drop
<1>8. CASE Advance
  BY <1>8, TickKeeps, Zenon
<1> QED
  BY <1>1, <1>2, <1>3, <1>4, <1>5, <1>6, <1>7, <1>8, Zenon DEF Next

(***************************************************************************)
(* However pubsub delays, repeats and loses heartbeats, and however the    *)
(* host crashes and starts anew: ages are in order with the instances that *)
(* sent them, and a host that announced itself in time has a row that is   *)
(* not due, or a heartbeat on the way that renews it.                      *)
(***************************************************************************)
THEOREM InvHolds == Spec => []IInv
<1> QED
  BY InitInv, StepKeeps, PTL DEF Spec
-----------------------------------------------------------------------------
(***************************************************************************)
(* The types of all variables: ages stay in bounds, the TTL on the wire in *)
(* its range, and the time to the next announcement below Router.TTL.      *)
(***************************************************************************)
THEOREM TypeCorrect == Spec => []TypeOK
<1>1. IInv => TypeOK
  BY Zenon DEF IInv
<1> QED
  BY <1>1, InvHolds, PTL

(***************************************************************************)
(* While every heartbeat is published at once and arrives before the       *)
(* observer's next tick, dropExpired does not evict the host, for every    *)
(* TTL that is a whole number of ticks and that the wire can carry.        *)
(***************************************************************************)
THEOREM HealthyHostStays == Spec => HealthyStays
<1>1. IInv' => (row # None /\ row' = None => ~healthy')
  BY Zenon DEF IInv, HealthyOK
<1>2. IInv /\ [Next]_vars => [row # None /\ row' = None => ~healthy']_vars
  BY <1>1, StepKeeps, Zenon
<1> QED
  BY <1>2, InvHolds, PTL DEF Spec, HealthyStays

(***************************************************************************)
(* Table.valid never lets a heartbeat replace a later one of the same      *)
(* instance, however pubsub delays, reorders and repeats them.             *)
(***************************************************************************)
THEOREM InstanceOrderKept == Spec => OrderKept
<1>1. ASSUME IInv, Deliver, row # None, row'.server = row.server PROVE row'.age <= row.age
  <2>1. PICK m \in net : Validator(m)
    BY <1>1, Zenon DEF Deliver
  <2>2. row.age \in Int /\ m.age \in Int
    BY <1>1 DEF IInv, TypeOK, Messages, Ages
  <2>3. CASE valid(m)
    <3>1. row'.server = m.server /\ row'.age = m.age
      BY <2>1, <2>3, Zenon DEF Validator
    <3>2. row.age > m.age
      BY <1>1, <2>3, <3>1, Zenon DEF valid
    <3> QED
      BY <2>2, <3>1, <3>2
  <2>4. CASE ~valid(m)
    BY <2>1, <2>2, <2>4 DEF Validator
  <2> QED
    BY <2>3, <2>4, Zenon
<1>2. IInv /\ [Next]_vars =>
        [Deliver /\ row # None /\ row'.server = row.server => row'.age <= row.age]_vars
  BY <1>1, Zenon
<1> QED
  BY <1>2, InvHolds, PTL DEF Spec, OrderKept
=============================================================================
