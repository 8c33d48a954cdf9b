------------------------ MODULE MCProcessSupervisor ------------------------
(* Small schedules for TLC: windows over the instants 0 and 1; 2 is the       *)
(* stop of a window that stays open.                                         *)
EXTENDS ProcessSupervisor, TLC

W(i, from, to) == [id |-> i, start |-> from, stop |-> to]

(* A window to come that stays open.                                         *)
OneToCome == <<W("a", 1, 2)>>
(* It is moved ahead, or an open window that closes at 1 changes its index.    *)
Moved == {<<W("a", 0, 2)>>}
Another == {W("b", 0, 1)}

Calls(f) == f @@ [o \in CallNames |-> 0]
NoCalls == Calls(<<>>)
ControlBudget == Calls("start" :> 1 @@ "stop" :> 1 @@ "edit" :> 1)
=============================================================================
