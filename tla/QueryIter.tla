------------------------------ MODULE QueryIter ------------------------------
(***************************************************************************)
(* The iterator of a query (query/selector.go): the table's own iterator,  *)
(* below a stage for every constraint that was bound to it.                *)
(*                                                                         *)
(* A call of Next goes down from the last stage to the table, or to a      *)
(* stage that has stopped, and what is returned there comes back through   *)
(* the stages above.  A filterIter that refuses a record calls the stage   *)
(* below once more; a predicateIter that refuses one stops.                *)
(***************************************************************************)
EXTENDS Query

VARIABLES
    cs,      \* the constraints of the query
    found,   \* the rows that the table's iterator goes over
    pos,     \* how many of them it has returned
    stages,  \* a stage for each constraint, with the state of its Matcher
    qpc,     \* "none", "failed": there is no iterator; "idle"; "panic";
             \* "call", "return": Next of a stage is called, or returns
    lvl,     \* the stage; 0 is the table's iterator
    ret,     \* what it returns
    seen     \* what the last stage's Next has returned so far

qvars == <<cs, found, pos, stages, qpc, lvl, ret, seen>>

QueryInit ==
    /\ cs = <<>> /\ found = <<>> /\ pos = 0 /\ stages = <<>>
    /\ qpc = "none" /\ lvl = 0 /\ ret = nil /\ seen = <<>>

\* Query.Iter: Selector.Bind for each constraint.
IterFails(q, s, c) == ~selection(q, s).ok \/ \E i \in DOMAIN c : constraintFails(c[i])

Iter(q, s, c) ==
    /\ qpc = "none"
    /\ cs' = c
    /\ IF IterFails(q, s, c)
       THEN qpc' = "failed" /\ UNCHANGED <<found, stages>>
       ELSE qpc' = "idle" /\ found' = selection(q, s).rows /\ stages' = c
    /\ UNCHANGED <<pos, lvl, ret, seen>>

\* The caller calls Next.
NextCall ==
    /\ qpc = "idle"
    /\ qpc' = "call"
    /\ lvl' = Len(cs)
    /\ UNCHANGED <<cs, found, pos, stages, ret, seen>>

\* iterator.Next.
iteratorNext ==
    /\ qpc = "call"
    /\ lvl = 0
    /\ qpc' = "return"
    /\ IF pos < Len(found) THEN pos' = pos + 1 /\ ret' = found[pos + 1]
       ELSE ret' = nil /\ UNCHANGED pos
    /\ UNCHANGED <<cs, found, stages, lvl, seen>>

\* filterIter.Next: it calls the iterator below, and looks at the result.
filterCall ==
    /\ qpc = "call"
    /\ lvl > 0
    /\ stages[lvl].kind = "where"
    /\ lvl' = lvl - 1
    /\ UNCHANGED <<cs, found, pos, stages, qpc, ret, seen>>

filterNext ==
    /\ qpc = "return"
    /\ lvl < Len(cs)
    /\ stages[lvl + 1].kind = "where"
    /\ IF ret \in {nil, Panic} \/ ret \in stages[lvl + 1].match
       THEN lvl' = lvl + 1 /\ UNCHANGED qpc
       ELSE qpc' = "call" /\ UNCHANGED lvl
    /\ UNCHANGED <<cs, found, pos, stages, ret, seen>>

\* predicateIter.Next: nil if it has stopped; else it calls the iterator below,
\* and gives the Matcher what it returns, be it nil.
predicateCall ==
    /\ qpc = "call"
    /\ lvl > 0
    /\ stages[lvl].kind # "where"
    /\ IF stages[lvl].stop THEN qpc' = "return" /\ ret' = nil /\ UNCHANGED lvl
       ELSE lvl' = lvl - 1 /\ UNCHANGED <<qpc, ret>>
    /\ UNCHANGED <<cs, found, pos, stages, seen>>

\* Fault: nothing is remembered of what the Matcher said.
predicateNextForgets ==
    /\ qpc = "return"
    /\ lvl < Len(cs)
    /\ stages[lvl + 1].kind # "where"
    /\ lvl' = lvl + 1
    /\ LET m == Match(stages[lvl + 1], ret) IN
       ret' = IF ret = Panic \/ m.panics THEN Panic ELSE IF m.match THEN ret ELSE nil
    /\ UNCHANGED <<cs, found, pos, stages, qpc, seen>>

predicateNext ==
    /\ qpc = "return"
    /\ lvl < Len(cs)
    /\ stages[lvl + 1].kind # "where"
    /\ lvl' = lvl + 1
    /\ LET m == Match(stages[lvl + 1], ret) IN
       IF ret = Panic \/ m.panics
       THEN ret' = Panic /\ UNCHANGED stages
       ELSE /\ ret' = IF m.match THEN ret ELSE nil
            /\ stages' = [stages EXCEPT ![lvl + 1] = [m.st EXCEPT !.stop = ~m.match]]
    /\ UNCHANGED <<cs, found, pos, qpc, seen>>

\* Next returns to the caller.
NextReturn ==
    /\ qpc = "return"
    /\ lvl = Len(cs)
    /\ qpc' = IF ret = Panic THEN "panic" ELSE "idle"
    /\ seen' = Append(seen, ret)
    /\ UNCHANGED <<cs, found, pos, stages, lvl, ret>>

\* A step of a call of Next.
NextStep ==
    \/ iteratorNext \/ filterCall \/ filterNext \/ predicateCall \/ predicateNext
    \/ NextReturn
=============================================================================
