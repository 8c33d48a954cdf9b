--------------------------- MODULE MCQueueEngine ---------------------------
(* Small instances of QueueEngine for TLC.                                   *)
EXTENDS QueueEngine, TLC

CONSTANTS w1, w2, c1, c2, a, b, ka, kb

Calls(some) == [o \in OpNames |-> IF o \in DOMAIN some THEN some[o] ELSE 0]

KeyOfBoth == [i \in {a, b} |-> IF i = a THEN ka ELSE kb]
KeyOfFirst == [i \in {a, b} |-> IF i = a THEN ka ELSE NoKey]
KeyOfNone == [i \in {a, b} |-> NoKey]
Singles == {<<a>>, <<b>>}

FiberSymmetry == Permutations({w1, w2}) \cup Permutations({c1, c2})

OnlyA == {<<a>>}
OutOfRange == {-1, 7}
Pair == {<<a, b>>}

ControlCalls == Calls([add |-> 2, pause |-> 1, resume |-> 1, shutdown |-> 1,
                       start |-> 2, clear |-> 1])
BacklogCalls == Calls([add |-> 1, resume |-> 1, shutdown |-> 1, failure |-> 1])

(* Clients that enqueue only while the latch is closed, as config.paused is  *)
(* meant to be used: items accumulate before processing. Either a resume or  *)
(* a shutdown ends the pause.                                                *)
BacklogCall(c) ==
    /\ ClientCall(c)
    /\ latch => left'["add"] = left["add"]
    /\ left'["resume"] + left'["shutdown"] > 0
BacklogNext ==
    \/ \E w \in Workers : Worker(w)
    \/ \E c \in Clients : BacklogCall(c) \/ ClientStep(c)
    \/ Monitor
    \/ \E f \in Fibers : Subroutine(f)
    \/ AtRest
BacklogSpec == Init /\ [][BacklogNext]_vars /\ Fairness
=============================================================================
