---------------------------- MODULE ProcessRuns ----------------------------
(* The runs of a process: the loop of an instance (spawnEntryInstance), the  *)
(* tracked run (trackedProgram) that runImmediately shares with it, the      *)
(* cadence of Polling.ts between two runs, and the rows that runs leave in   *)
(* the store of executions.                                                  *)
(*                                                                           *)
(* One step is one operation on a Ref or one call of the store. No clock: a  *)
(* sleep may be over and a window may end at any time. Polling.jittered is   *)
(* "spaced" with a length drawn anew each time.                              *)
EXTENDS Integers, FiniteSets

CONSTANTS
    Loops,      \* instances of the process: one for each open window
    Callers,    \* fibers that call runImmediately or the polling service
    NoWait,
    Shortest, Factor, Longest,  \* Polling.backoff: the intervals
    MaxIteration,  \* bound: iterations of Polling.accelerating told apart
    MaxRuns, MaxCalls, MaxFaults, MaxLives  \* bounds

VARIABLES
    preset,     \* the preset of the polling layer, or "none"
    durable,    \* the store survives a restart
    pc,
    cadence,    \* currentMs, or iterationRef
    wakeRef,    \* the instance whose wait has the Deferred in wakeRef
    woken,      \* the Deferred of its wait is completed
    held,       \* the wait whose Deferred a caller read from wakeRef
    waits,      \* the cadence an instance sleeps with
    op,         \* what a caller calls
    mirror,     \* runsStarted, runsSucceeded, runsFailed
    startup,    \* isStartupRun of the run of a fiber
    outcome,    \* how it ended
    seq,        \* processExecutionSeq
    rows,       \* the rows of executions in the store
    life, runs, calls, faults,
    due,        \* for the properties: instances that slept at a reset
    broken,     \* for the properties: runs that were interrupted
    untold,     \* for the properties: runs that ended, with a write that
                \* failed or was interrupted
    mixed       \* for the properties: runs overlapped, or a read failed

pollVars == <<cadence, wakeRef, woken, held, waits, due>>
tracking == <<mirror, startup, outcome, broken, mixed>>
storeVars == <<seq, rows, untold>>
bounds == <<life, runs, calls, faults>>
runVars == <<preset, durable, pc, pollVars, op, tracking, storeVars, bounds>>

Fibers == Loops \cup Callers

ASSUME RunsAssumption ==
    IsFiniteSet(Fibers) /\ Loops \cap Callers = {} /\ NoWait \notin Loops

Statuses == {"completed", "failed"}
Presets == {"none", "spaced", "backoff", "accelerating"}
Paced == preset \in {"backoff", "accelerating"}

First == IF preset = "backoff" THEN Shortest ELSE 0
NoCounts == [s \in Statuses |-> 0]
NoRuns == [started |-> 0, ended |-> NoCounts]
Launched == [f \in Fibers |-> IF f \in Loops THEN "again" ELSE "idle"]

----------------------------------------------------------------------------
(* Handlers: which operation follows which.                                  *)
(* Mutant: the interval is read before the wait can be woken.                *)
ReadFirst == [again |-> "read", read |-> "arm", arm |-> "sleep"]
awaitNextTick ==
    [again |-> "arm", arm |-> IF Paced THEN "read" ELSE "sleep", read |-> "sleep"]

requestWake == [call |-> "get", get |-> "wake", wake |-> "idle"]
resetCadence ==
    IF Paced THEN [call |-> "zero", zero |-> "get", get |-> "wake", wake |-> "idle"]
    ELSE requestWake
runImmediately == [call |-> "begin"]
Handler(o) ==
    CASE o = "wake" -> requestWake
      [] o = "reset" -> resetCadence
      [] OTHER -> runImmediately

Goes(f, label) == pc' = [pc EXCEPT ![f] = label]

(* What afterTick makes of the cadence.                                      *)
afterTick(n) ==
    CASE preset = "backoff" -> IF n * Factor < Longest THEN n * Factor ELSE Longest
      [] preset = "accelerating" -> IF n < MaxIteration THEN n + 1 ELSE n
      [] OTHER -> n

UnderWay(f) == pc[f] \in {"prior", "effect", "record"}

----------------------------------------------------------------------------
RunsInit ==
    /\ preset \in Presets /\ durable \in BOOLEAN
    /\ pc = Launched /\ op = [c \in Callers |-> "run"]
    /\ cadence = First /\ wakeRef = NoWait
    /\ woken = [i \in Loops |-> FALSE]
    /\ held = [c \in Callers |-> NoWait]
    /\ waits = [i \in Loops |-> NoWait]
    /\ mirror = NoRuns
    /\ startup = [f \in Fibers |-> FALSE]
    /\ outcome = [f \in Fibers |-> "completed"]
    /\ seq = 0 /\ rows = {}
    /\ life = 1 /\ runs = 0 /\ calls = 0 /\ faults = 0
    /\ due = {} /\ broken = 0 /\ untold = NoCounts /\ mixed = FALSE

(* The process of the operating system ends and another begins.              *)
Restart ==
    /\ life < MaxLives /\ life' = life + 1
    /\ pc' = Launched /\ op' = [c \in Callers |-> "run"]
    /\ cadence' = First /\ wakeRef' = NoWait
    /\ woken' = [i \in Loops |-> FALSE]
    /\ held' = [c \in Callers |-> NoWait]
    /\ waits' = [i \in Loops |-> NoWait]
    /\ mirror' = NoRuns
    /\ startup' = [f \in Fibers |-> FALSE]
    /\ outcome' = [f \in Fibers |-> "completed"]
    /\ seq' = 0 /\ rows' = (IF durable THEN rows ELSE {})
    /\ due' = {} /\ broken' = 0 /\ untold' = NoCounts /\ mixed' = (durable /\ mixed)
    /\ UNCHANGED <<preset, durable, runs, calls, faults>>

----------------------------------------------------------------------------
(* The loop of an instance. canContinue: the window may be over.             *)
canContinue(i) ==
    /\ \/ pc[i] \in {"again", "check"} /\ Goes(i, "gone")
       \/ pc[i] = "again" /\ preset # "none" /\ Goes(i, awaitNextTick.again)
       \/ pc[i] = "again" /\ preset = "none" /\ Goes(i, "begin")
       \/ pc[i] = "check" /\ Goes(i, "begin")
    /\ UNCHANGED <<preset, durable, pollVars, op, tracking, storeVars, bounds>>

(* A new Deferred: callers that hold the one of an earlier wait of i hold    *)
(* nothing that anybody waits for.                                           *)
Arm(i) ==
    /\ pc[i] = "arm" /\ Goes(i, awaitNextTick.arm)
    /\ wakeRef' = i
    /\ woken' = [woken EXCEPT ![i] = FALSE]
    /\ held' = [c \in Callers |-> IF held[c] = i THEN NoWait ELSE held[c]]
    /\ UNCHANGED <<preset, durable, cadence, waits, due, op, tracking, storeVars, bounds>>

ReadCadence(i) ==
    /\ pc[i] = "read" /\ Goes(i, awaitNextTick.read)
    /\ waits' = [waits EXCEPT ![i] = cadence]
    /\ due' = due \ {i}
    /\ UNCHANGED <<preset, durable, cadence, wakeRef, woken, held, op, tracking, storeVars,
                   bounds>>

(* The race of the sleep and the Deferred is over.                           *)
Sleep(i) ==
    /\ pc[i] = "sleep" /\ Goes(i, "check")
    /\ waits' = [waits EXCEPT ![i] = NoWait]
    /\ due' = due \ {i}
    /\ UNCHANGED <<preset, durable, cadence, wakeRef, woken, held, op, tracking, storeVars,
                   bounds>>

AfterTick(i) ==
    /\ pc[i] = "after" /\ Goes(i, "again")
    /\ cadence' = afterTick(cadence)
    /\ UNCHANGED <<preset, durable, wakeRef, woken, held, waits, due, op, tracking, storeVars,
                   bounds>>

----------------------------------------------------------------------------
(* trackedProgram.                                                           *)
StartRun(f) ==
    /\ pc[f] = "begin" /\ Goes(f, "prior")
    /\ runs < MaxRuns /\ runs' = runs + 1
    /\ mirror' = [mirror EXCEPT !.started = @ + 1]
    /\ mixed' = (mixed \/ \E g \in Fibers \ {f} : UnderWay(g))
    /\ UNCHANGED <<preset, durable, pollVars, op, startup, outcome, broken, storeVars, life,
                   calls, faults>>

(* hasPriorExecutions; an error counts as no.                                *)
Prior(f) ==
    /\ pc[f] = "prior" /\ Goes(f, "effect")
    /\ \/ startup' = [startup EXCEPT ![f] = (rows = {})]
          /\ UNCHANGED <<mixed, faults>>
       \/ faults < MaxFaults /\ faults' = faults + 1
          /\ startup' = [startup EXCEPT ![f] = TRUE] /\ mixed' = TRUE
    /\ UNCHANGED <<preset, durable, pollVars, op, mirror, outcome, broken, storeVars, life, runs,
                   calls>>

RunEffect(f) ==
    /\ pc[f] = "effect" /\ Goes(f, "record")
    /\ \E s \in Statuses :
         /\ outcome' = [outcome EXCEPT ![f] = s]
         /\ mirror' = [mirror EXCEPT !.ended[s] = @ + 1]
    /\ UNCHANGED <<preset, durable, pollVars, op, startup, broken, mixed, storeVars, bounds>>

(* Mutant: all rows of one status have one id.                               *)
SameId(s, n) == <<s, 0>>
executionId(s, n) == <<s, n>>

(* The id is taken: the write is refused, which is logged and no more.       *)
Taken(id) == \E r \in rows : r.id = id

Record(f) ==
    LET id == executionId(outcome[f], seq + 1)
    IN  /\ pc[f] = "record"
        /\ Goes(f, IF f \in Callers THEN "idle" ELSE IF preset = "none" THEN "gone" ELSE "after")
        /\ seq' = seq + 1
        /\ \/ /\ ~Taken(id)
              /\ rows' = rows \cup {[id |-> id, startup |-> startup[f]]}
              /\ UNCHANGED <<untold, faults>>
           \/ Taken(id) /\ UNCHANGED <<rows, untold, faults>>
           \/ /\ faults < MaxFaults /\ faults' = faults + 1
              /\ untold' = [untold EXCEPT ![outcome[f]] = @ + 1]
              /\ UNCHANGED rows
        /\ startup' = [startup EXCEPT ![f] = FALSE]
        /\ outcome' = [outcome EXCEPT ![f] = "completed"]
        /\ UNCHANGED <<preset, durable, pollVars, op, mirror, broken, mixed, life, runs, calls>>

----------------------------------------------------------------------------
(* Callers.                                                                  *)
Call(c) ==
    /\ pc[c] = "idle"
    /\ calls < MaxCalls /\ calls' = calls + 1
    /\ \E o \in {"run", "wake", "reset"} :
         /\ o # "run" => preset # "none"
         /\ op' = [op EXCEPT ![c] = o]
         /\ Goes(c, Handler(o).call)
    /\ UNCHANGED <<preset, durable, pollVars, tracking, storeVars, life, runs, faults>>

ResetCadence(c) ==
    /\ pc[c] = "zero" /\ Goes(c, resetCadence.zero)
    /\ cadence' = First
    /\ due' = due \cup {i \in Loops : waits[i] # NoWait}
    /\ UNCHANGED <<preset, durable, wakeRef, woken, held, waits, op, tracking, storeVars, bounds>>

GetWake(c) ==
    /\ pc[c] = "get" /\ Goes(c, Handler(op[c]).get)
    /\ held' = [held EXCEPT ![c] = wakeRef]
    /\ UNCHANGED <<preset, durable, cadence, wakeRef, woken, waits, due, op, tracking, storeVars,
                   bounds>>

CompleteWake(c) ==
    /\ pc[c] = "wake" /\ Goes(c, Handler(op[c]).wake)
    /\ woken' = [i \in Loops |-> woken[i] \/ held[c] = i]
    /\ held' = [held EXCEPT ![c] = NoWait]
    /\ UNCHANGED <<preset, durable, cadence, wakeRef, waits, due, op, tracking, storeVars,
                   bounds>>

(* A stop, or a caller that is interrupted. Nothing tells of an interrupted  *)
(* run, and a reset may be left without its wake.                            *)
Interrupt(f) ==
    /\ pc[f] \notin {"idle", "gone"}
    /\ faults < MaxFaults /\ faults' = faults + 1
    /\ Goes(f, IF f \in Callers THEN "idle" ELSE "gone")
    /\ broken' = broken + (IF pc[f] \in {"prior", "effect"} THEN 1 ELSE 0)
    /\ untold' = (IF pc[f] = "record"
                  THEN [untold EXCEPT ![outcome[f]] = @ + 1] ELSE untold)
    /\ IF f \in Callers
       THEN /\ held' = [held EXCEPT ![f] = NoWait]
            /\ due' = (IF op[f] = "reset" THEN {} ELSE due)
            /\ UNCHANGED waits
       ELSE /\ waits' = [waits EXCEPT ![f] = NoWait]
            /\ due' = due \ {f}
            /\ UNCHANGED held
    /\ UNCHANGED <<preset, durable, cadence, wakeRef, woken, op, mirror, startup, outcome,
                   mixed, seq, rows, life, runs, calls>>

RunsNext ==
    \/ \E i \in Loops : canContinue(i) \/ Arm(i) \/ ReadCadence(i) \/ Sleep(i)
                              \/ AfterTick(i)
    \/ \E f \in Fibers : StartRun(f) \/ Prior(f) \/ RunEffect(f) \/ Record(f) \/ Interrupt(f)
    \/ \E c \in Callers : Call(c) \/ ResetCadence(c) \/ GetWake(c) \/ CompleteWake(c)
    \/ Restart

RunsSpec == RunsInit /\ [][RunsNext]_runVars

----------------------------------------------------------------------------
(* The last wait to begin never sleeps on with an interval from before a     *)
(* reset: resetCadence has woken it, or is about to (Polling.ts). Of several *)
(* instances the others sleep on, as they share one wakeRef.                 *)
ResetHeard ==
    \A i \in due : wakeRef = i =>
        \/ woken[i]
        \/ \E c \in Callers :
             /\ op[c] = "reset"
             /\ pc[c] = "get" \/ (pc[c] = "wake" /\ held[c] = i)

(* In the first life of a process, and with a store in memory in each:       *)
(* every run that began is under way, was interrupted, or is counted by its   *)
(* outcome; every run that is counted has a row of that outcome, or its      *)
(* write is to come, failed or was interrupted. And as long as runs do not   *)
(* overlap and the store can be read, one row at most is of a startup run,   *)
(* whatever was lost or interrupted, and over all lives of a durable store.  *)
RunsTold ==
    /\ life = 1 \/ ~durable =>
         /\ mirror.started =
              mirror.ended["completed"] + mirror.ended["failed"] + broken
                + Cardinality({f \in Fibers : pc[f] \in {"prior", "effect"}})
         /\ \A s \in Statuses :
              mirror.ended[s] =
                Cardinality({r \in rows : r.id[1] = s}) + untold[s]
                  + Cardinality({f \in Fibers : pc[f] = "record" /\ outcome[f] = s})
    /\ ~mixed => \A q, r \in rows : q.startup /\ r.startup => q = r
=============================================================================
