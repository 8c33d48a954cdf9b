--------------------------- MODULE MCDurableQueue ---------------------------
(* Small instances of DurableQueue for TLC.                                  *)
EXTENDS DurableQueue

CONSTANTS k, MaxEvents

Calls(some) == [e \in Events |-> IF e \in DOMAIN some THEN some[e] ELSE 0]

Others == <<"clear", "extract", "encodeError", "shutdown", "failure", "skip", "poison",
            "fault", "expire", "crash">>

OneKey == <<k, NoKey>>

ControlBudget == Calls([add |-> 2, clear |-> 1, extract |-> 1, encodeError |-> 1,
                        shutdown |-> 1, failure |-> 2, skip |-> 1, poison |-> 1,
                        fault |-> 1, expire |-> 1, crash |-> 1])
(* At most MaxEvents events besides the adds, whichever they are, and clients  *)
(* that add only before the crash: no id is made twice (RestartBudget has the   *)
(* others).                                                                  *)
Total(l) == LET Sum[n \in 0 .. Len(Others)] == IF n = 0 THEN 0 ELSE l[Others[n]] + Sum[n - 1]
            IN  Sum[Len(Others)]
Bounded ==
    /\ Total(Budget) - Total(left') <= MaxEvents
    /\ Used("crash") > 0 => left'["add"] = left["add"]
ControlNext ==
    \/ Start /\ Bounded
    \/ FeederStep /\ Bounded
    \/ \E w \in Workers : WorkerStep(w) /\ Bounded
    \/ \E c \in Clients : (ClientCall(c) \/ ClientStep(c)) /\ Bounded
    \/ \E i \in RowIds : LeaseExpires(i) /\ Bounded
    \/ Crash /\ Bounded
ControlSpec == Init /\ [][ControlNext]_vars

RestartBudget == Calls([add |-> 2, crash |-> 1])
=============================================================================
