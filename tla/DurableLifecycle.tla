-------------------------- MODULE DurableLifecycle --------------------------
(* What a durable queue promises about its entries, whatever engines, feeders *)
(* and workers do and when they crash: an entry that waits is leased, one try  *)
(* the more, by an engine that is up; a lease ends in a failure that leaves a  *)
(* try or buries the entry, in its completion, by running out, or it is left   *)
(* without a holder, until the next engine recovers it. What is out of the     *)
(* store returns only if it is put back, and what is dead never returns.      *)
EXTENDS Naturals

CONSTANTS Entries, Limit

VARIABLES
    place,      \* where each entry is
    tries,      \* how often it was leased since it has been in the store
    lapses,     \* crashes, and leases that ran out
    up          \* an engine works on the store

vars == <<place, tries, lapses, up>>

In(places) == {e \in Entries : place[e] \in places}
Move(moved, p) == place' = [e \in Entries |-> IF e \in moved THEN p ELSE place[e]]

Init ==
    /\ place = [e \in Entries |-> "new"] /\ tries = [e \in Entries |-> 0]
    /\ lapses = 0 /\ up = FALSE

(* Its add, or the caller who took it out and puts it back.                   *)
Store(e) ==
    /\ e \in In({"new", "out"}) /\ Move({e}, "waiting")
    /\ UNCHANGED <<tries, lapses, up>>

Leave(gone) ==
    /\ Move(gone, "out")
    /\ tries' = [e \in Entries |-> IF e \in gone THEN 0 ELSE tries[e]]
    /\ UNCHANGED <<lapses, up>>

(* Its dedup key is that of another entry.                                    *)
Refuse(e) == e \in In({"new"}) /\ Leave({e})

(* A caller takes out some of those that wait, or all but the dead.           *)
Extract == \E gone \in SUBSET In({"waiting"}) : Leave(gone)
Clear == Leave(In({"waiting", "leased", "orphaned"}))

(* Done with, maybe by a worker whose lease is another's by now.             *)
Complete(e) == e \in In({"waiting", "leased", "dead"}) /\ Leave({e})

Lease(e) ==
    /\ up /\ e \in In({"waiting"})
    /\ Move({e}, "leased")
    /\ tries' = [tries EXCEPT ![e] = @ + 1]
    /\ UNCHANGED <<lapses, up>>

Fail(e) ==
    /\ e \in In({"waiting", "leased"})
    /\ Move({e}, IF tries[e] < Limit THEN "waiting" ELSE "dead")
    /\ UNCHANGED <<tries, lapses, up>>

Expire(e) ==
    /\ e \in In({"leased", "orphaned"}) /\ Move({e}, "waiting")
    /\ lapses' = lapses + 1
    /\ UNCHANGED <<tries, up>>

(* Holders go away and do not settle their leases.                          *)
Abandon ==
    /\ UNCHANGED <<tries, lapses, up>>
    /\ \E left \in SUBSET In({"leased"}) : Move(left, "orphaned")

Crash ==
    /\ Move(In({"leased"}), "orphaned")
    /\ lapses' = lapses + 1 /\ up' = FALSE
    /\ UNCHANGED tries

(* An engine starts. Recovery may fail, and leave what it found.              *)
Start ==
    /\ ~up /\ up'
    /\ \E found \in {{}, In({"orphaned"})} : Move(found, "waiting")
    /\ UNCHANGED <<tries, lapses>>

Next ==
    \/ Abandon \/ Start \/ Crash \/ Clear \/ Extract
    \/ \E e \in Entries :
          Store(e) \/ Refuse(e) \/ Lease(e) \/ Complete(e) \/ Fail(e) \/ Expire(e)

Spec == Init /\ [][Next]_vars
=============================================================================
