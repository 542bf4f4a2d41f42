----------------------------- MODULE CrawlRange -----------------------------
(***************************************************************************)
(* The ranges that a Crawler asks (boot/crawl/strategy.go): the ports of   *)
(* an address and the addresses of a CIDR block, the latter in an order    *)
(* that a random mask decides.  A range is a record that Next moves on.    *)
(***************************************************************************)
EXTENDS Integers, FiniteSets

CONSTANTS
    Bits,      \* of an address or a port
    Reserved,  \* the first port that is not reserved, 1024
    MinOnes    \* bound: blocks have a prefix; a block without one never ends

ASSUME RangeOK ==
    /\ Bits \in Nat /\ Bits >= 2
    /\ Reserved \in 1..(2^Bits - 1)
    /\ MinOnes \in 1..Bits

\* Powers of two double, a fact that the provers do not have.
ASSUME PowersOK == \A k \in 0..(Bits - 1) : 2^(k + 1) = 2 * 2^k

Space == 0..(2^Bits - 1)
-----------------------------------------------------------------------------
\* PortRange.Reset, after NewPortRange cut the bounds to the width of a port.
NewPortRange(low, high) ==
    LET lo == low % 2^Bits
        hi == high % 2^Bits
        all == lo = 0 /\ hi = 0
    IN [kind |-> "ports", low |-> IF all THEN Reserved ELSE lo,
        high |-> IF all THEN 2^Bits - 1 ELSE hi,
        index |-> IF all THEN Reserved ELSE lo]

\* PortRange.nextPort: is there one, which is it, and the range after it.
morePorts(p) == p.index # 0 /\ p.index <= p.high
port(p) == p.index
nextPort(p) == [p EXCEPT !.index = (@ + 1) % 2^Bits]
-----------------------------------------------------------------------------
BlockSize(c) == 2^(Bits - c.ones)

\* Net.Contains
Contains(c, ip) == ip \div BlockSize(c) = c.net \div BlockSize(c)

\* setBroadcast
bcst(c) == c.net + BlockSize(c) - 1

\* setRandomMask: any bits, except those of the network.
setRandomMask(ones) == 0..(2^(Bits - ones) - 1)

\* NewCIDR, and CIDR.Reset: there is no address yet.
NewCIDR(ip, ones) ==
    {[kind |-> "cidr", net |-> ip - (ip % 2^(Bits - ones)), ones |-> ones, ip |-> -1,
      mask |-> m] : m \in setRandomMask(ones)}

incrIP(ip) == (ip + 1) % 2^Bits

bit(a, k) == (a \div 2^k) % 2

\* xormask, bit by bit.
xormask(ip, mask) ==
    CHOOSE x \in Space :
        \A k \in 0..(Bits - 1) : bit(x, k) = (bit(ip, k) + bit(mask, k)) % 2

\* Fault: only the address of the network is skipped.
skipNet(c, ip) == xormask(ip, c.mask) = c.net

\* skip: the masked address is the broadcast or the network address.
skip(c, ip) == xormask(ip, c.mask) \in {bcst(c), c.net}

\* nextIP: from the first address, or the one after the last, past those that
\* are skipped, out of the block if need be.
nextIP(c) ==
    LET from == IF c.ip = -1 THEN c.net ELSE incrIP(c.ip)
        at[k \in 0..2] == (from + k) % 2^Bits
        n == CHOOSE k \in 0..2 : ~skip(c, at[k]) /\ \A j \in 0..(k - 1) : skip(c, at[j])
    IN [c EXCEPT !.ip = at[n]]

\* What Next leaves in the caller's address, once nextIP moved the range on.
bind(c) == xormask(c.ip, c.mask)
more(c) == Contains(c, c.ip)
-----------------------------------------------------------------------------
\* Range.Next on either kind: the range that is left, what it yields, and whether.
NextAddr(r) ==
    IF r.kind = "ports" THEN [range |-> nextPort(r), addr |-> port(r), ok |-> morePorts(r)]
    ELSE LET c == nextIP(r) IN [range |-> c, addr |-> bind(c), ok |-> more(c)]

\* What a range is to visit: the ports from low to high, or the block without
\* its network and broadcast addresses.
Visits(r) ==
    IF r.kind = "ports" THEN (r.low..r.high) \ {0}
    ELSE (r.net + 1)..(bcst(r) - 1)
=============================================================================
