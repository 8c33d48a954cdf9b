--------------------------- MODULE MCScheduledLanes ---------------------------
(* Small instances of ScheduledLanes for TLC.                                *)
EXTENDS ScheduledLanes

(* A level by number, by name and by default; a name that is configured      *)
(* beyond the levels.                                                        *)
SomeInputs == {[kind |-> "number", level |-> 0], [kind |-> "name", name |-> "batch"],
               [kind |-> "name", name |-> "none"]}
Names == [batch |-> 9]
=============================================================================
