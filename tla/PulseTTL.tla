------------------------------ MODULE PulseTTL ------------------------------
(***************************************************************************)
(* The time to live of a heartbeat (cluster/pulse), as it is set, sent and *)
(* read.                                                                   *)
(***************************************************************************)
EXTENDS Integers

CONSTANTS
    Milli,      \* a millisecond, in units of time.Duration
    TTLRange,   \* how many values the wire has for a TTL, 2^32
    DefaultTTL  \* pulse.DefaultTTL

ASSUME PulseOK ==
    /\ Milli \in Nat \ {0}
    /\ TTLRange \in Nat \ {0}
    /\ DefaultTTL \in Nat \ {0}

\* Heartbeat.SetTTL: whole milliseconds, in 32 bits.
SetTTL(d) == (d \div Milli) % TTLRange

\* Heartbeat.TTL: zero stands for the default.
TTL(ms) == IF ms = 0 THEN DefaultTTL ELSE ms * Milli
=============================================================================
