--------------------------- MODULE EntryLifecycle ---------------------------
(* What a queue promises about a single entry, whatever the lanes, workers,  *)
(* retries and control verbs do: it is offered, queued, taken by one worker, *)
(* run at most once, and then it has ended. A queued entry may be pulled out *)
(* and put back, a taken one never returns to a lane.                        *)
EXTENDS Naturals, Sequences

VARIABLE status     \* status[e], for the entries minted so far

Moves == {<<"offering", "queued">>, <<"offering", "ended">>,
          <<"queued", "pulled">>, <<"pulled", "queued">>, <<"pulled", "ended">>,
          <<"queued", "taken">>, <<"taken", "running">>, <<"taken", "ended">>,
          <<"running", "ended">>}

Init == status = <<>>

Keeps(old, new) == old = new \/ <<old, new>> \in Moves

Next ==
    /\ Len(status') \in {Len(status), Len(status) + 1}
    /\ \A e \in 1 .. Len(status) : Keeps(status[e], status'[e])
    /\ \A e \in Len(status) + 1 .. Len(status') : status'[e] = "offering"

Spec == Init /\ [][Next]_status
=============================================================================
