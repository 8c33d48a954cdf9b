----------------------------- MODULE MCProcess -----------------------------
(* A process for TLC, one of its halves at a time: the supervisor with the   *)
(* schedule, or the runs of instances that are there from the start. The     *)
(* halves share nothing but that an instance is stopped, and that a tick of  *)
(* the supervisor's instances is a round of the loop of ProcessRuns.         *)
EXTENDS MCProcessSupervisor, ProcessRuns

VARIABLE half

Both == <<vars, half, runVars>>
HalvesInit ==
    /\ Init /\ RunsInit
    /\ \/ half = "supervisor" /\ preset = "none" /\ ~durable
       \/ half = "runs" /\ ~polling

Supervises == half = "supervisor" /\ UNCHANGED <<half, runVars>>
Runs ==
    /\ half = "runs" /\ UNCHANGED <<half, vars>>
    /\ faults' + calls' + life' <= 2

(* The disjuncts of the two next-state relations. Bound: one call, one fault  *)
(* or one restart.                                                           *)
HalvesNext ==
    \/ \E c \in Clients : CallStart(c) /\ Supervises
    \/ \E c \in Clients : CallStop(c) /\ Supervises
    \/ \E c \in Clients : CallMutate(c) /\ Supervises
    \/ \E c \in Clients : WriteEntries(c) /\ Supervises
    \/ \E c \in Clients : Notify(c) /\ Supervises
    \/ \E c \in Clients : ForkDriver(c) /\ Supervises
    \/ \E c \in Clients : AwaitDriver(c) /\ Supervises
    \/ \E f \in FiberIds : Begin(f) /\ Supervises
    \/ \E f \in FiberIds : PruneKeys(f) /\ Supervises
    \/ \E f \in FiberIds : InterruptStale(f) /\ Supervises
    \/ \E f \in FiberIds : ReadClock(f) /\ Supervises
    \/ \E f \in FiberIds : ReconcileEntry(f) /\ Supervises
    \/ \E f \in FiberIds : AwaitChange(f) /\ Supervises
    \/ \E f \in FiberIds : Wake(f) /\ Supervises
    \/ \E f \in FiberIds : AwaitNextTick(f) /\ Supervises
    \/ \E f \in FiberIds : FindsClosed(f) /\ Supervises
    \/ \E f \in FiberIds : BeginRun(f) /\ Supervises
    \/ \E f \in FiberIds : EndRun(f) /\ Supervises
    \/ \E f \in FiberIds : Exit(f) /\ Supervises
    \/ \E f \in FiberIds : Die(f) /\ Supervises
    \/ Tick /\ Supervises
    \/ \E i \in Loops : canContinue(i) /\ Runs
    \/ \E i \in Loops : Arm(i) /\ Runs
    \/ \E i \in Loops : ReadCadence(i) /\ Runs
    \/ \E i \in Loops : Sleep(i) /\ Runs
    \/ \E i \in Loops : AfterTick(i) /\ Runs
    \/ \E f \in Fibers : StartRun(f) /\ Runs
    \/ \E f \in Fibers : Prior(f) /\ Runs
    \/ \E f \in Fibers : RunEffect(f) /\ Runs
    \/ \E f \in Fibers : Record(f) /\ Runs
    \/ \E f \in Fibers : Interrupt(f) /\ Runs
    \/ \E c \in Callers : Call(c) /\ Runs
    \/ \E c \in Callers : ResetCadence(c) /\ Runs
    \/ \E c \in Callers : GetWake(c) /\ Runs
    \/ \E c \in Callers : CompleteWake(c) /\ Runs
    \/ Restart /\ Runs
HalvesSpec == HalvesInit /\ [][HalvesNext]_Both /\ Fair
=============================================================================
