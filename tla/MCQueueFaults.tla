--------------------------- MODULE MCQueueFaults ---------------------------
(* QueueEngine with failing items, or with extractions, in one run.          *)
EXTENDS MCQueueEngine

PairOrSingle == {<<a, b>>, <<a>>, <<b>>}

ExtractOnly == {"route", "releaseEncoded", "encodeError", "reinject", "interrupt"}
FailureOnly == {"ctx", "refill", "failure"}
FaultCalls == Calls([add |-> 1, route |-> 1, releaseEncoded |-> 1,
                     encodeError |-> 1, reinject |-> 1, interrupt |-> 1,
                     ctx |-> 1, refill |-> 1, failure |-> 2])

(* Bounds: what does not happen together in one behaviour. Items that may     *)
(* fail are added one by one and at one level; a call is interrupted where    *)
(* there is one extraction, and without the failure of an encoding.          *)
Unused(ops) == \A o \in ops : left[o] = Budget[o]
Adding == {"add", "ctx", "refill"}
Total(n, S) == FoldFunctionOnSet(+, 0, n, S)
Added   == Cardinality({e \in EntryIds : entry[e].prev = 0})
Pending == Total([f \in Fibers |-> Len(todo[f])], {f \in Fibers : op[f] \in Adding})
OneByOne ==
    /\ Added + Pending <= Total([o \in OpNames |-> Budget[o] - left[o]], Adding)
    /\ \A f \in Fibers : lvl[f] <= 0
    /\ \A e \in EntryIds : entry[e].level <= 0
Failures    == Unused(ExtractOnly) /\ OneByOne
Extractions == Unused(FailureOnly \cup {"interrupt"})
Encodings   == Unused(FailureOnly \cup {"reinject", "encodeError", "route"})
Routings    == Unused(FailureOnly \cup {"reinject", "encodeError", "releaseEncoded"})
Scenarios   == Failures \/ Extractions \/ Encodings \/ Routings
=============================================================================
