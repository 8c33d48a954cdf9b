------------------------------ MODULE RunGate ------------------------------
(* src/RunResource.ts: the concurrency gate of RunResource.make and of      *)
(* RunResource.makeRunner, and the run history that make leaves in the      *)
(* store of store/runResource.ts.                                           *)
(*                                                                          *)
(* Callers are fibers that call the gate. make publishes a state change or  *)
(* a fact at every turn of a run, makeRunner only takes and releases the    *)
(* permit. Three rules of Effect matter here and are external to src/: the  *)
(* acquire and release parts of acquireUseRelease cannot be interrupted, a  *)
(* fiber interrupted in the use part goes to the release at once, and none  *)
(* of its handlers runs on the way. Left out: the clock and the durations,  *)
(* and the ids of state changes (no property reads the recorded changes).   *)
EXTENDS Naturals, FiniteSets

CONSTANTS
    Callers,       \* fibers that call the gate
    Concurrency,   \* config.concurrency
    Kinds,         \* "gate" for make, "runner" for makeRunner
    Durable,       \* do the records of the store survive the process
    MaxRuns,       \* bound: calls in one life of the process
    MaxCancels,    \* bound: interruptions of callers
    MaxFaults,     \* bound: writes of facts that fail
    MaxLives       \* bound: lives of the process

ASSUME GateAssumption ==
    /\ IsFiniteSet(Callers)
    /\ Concurrency \in Nat \ {0}
    /\ Kinds \subseteq {"gate", "runner"}
    /\ Durable \in BOOLEAN
    /\ MaxRuns \in Nat
    /\ MaxCancels \in Nat
    /\ MaxFaults \in Nat
    /\ MaxLives \in Nat

VARIABLES
    kind,      \* which of the two gates this is
    pc,        \* where each caller is
    why,       \* the reason of the state change a caller publishes
    run,       \* the number of the run a caller is in
    doomed,    \* callers interrupted where they cannot be
    free,      \* the permits left in the semaphore
    gate,      \* stateRef: the counters of RunResourceState
    runSeq,    \* numbers given to runs
    facts,     \* the facts in the store: id -> the life that wrote it
    life, cancels, faults,
    ends       \* for the properties: how the runs of this life ended

vars == <<kind, pc, why, run, doomed, free, gate, runSeq, facts, life,
          cancels, faults, ends>>

Counters == {"waiting", "inFlight", "completed", "failed", "interrupted"}
Endings == {"completed", "failed", "interrupted"}
Reasons == {"waiting", "started"} \cup Endings

(* modify and record are the two steps of publishState, noteStart and       *)
(* noteEnd write the facts of a run.                                        *)
Stages == {"idle", "modify", "record", "take", "noteStart", "effect", "noteEnd",
           "release"}

(* The use part: between the permit and its release.                        *)
Using(c) ==
    \/ pc[c] \in {"noteStart", "effect", "noteEnd"}
    \/ pc[c] \in {"modify", "record"} /\ why[c] # "waiting"
Holders == {c \in Callers : Using(c) \/ pc[c] = "release"}

----------------------------------------------------------------------------
Init ==
    /\ kind \in Kinds
    /\ pc = [c \in Callers |-> "idle"]
    /\ why = [c \in Callers |-> "waiting"]
    /\ run = [c \in Callers |-> 0]
    /\ doomed = {}
    /\ free = Concurrency
    /\ gate = [x \in Counters |-> 0]
    /\ runSeq = 0
    /\ facts = <<>>
    /\ life = 1
    /\ cancels = MaxCancels
    /\ faults = MaxFaults
    /\ ends = <<>>

Goto(c, stage) == pc' = [pc EXCEPT ![c] = stage]
Publish(c, reason) ==
    /\ Goto(c, "modify")
    /\ why' = [why EXCEPT ![c] = reason]

(* A call of the gate: nextRunId, then acquirePermit publishes the wait.    *)
(* A runner goes for the permit right away.                                 *)
Call(c) ==
    /\ pc[c] = "idle"
    /\ runSeq < MaxRuns
    /\ runSeq' = runSeq + 1
    /\ run' = [run EXCEPT ![c] = runSeq + 1]
    /\ \/ kind = "gate" /\ Publish(c, "waiting")
       \/ kind = "runner" /\ Goto(c, "take") /\ UNCHANGED why
    /\ UNCHANGED <<kind, doomed, free, gate, facts, life, cancels, faults, ends>>

Down(n) == IF n = 0 THEN 0 ELSE n - 1

(* Mutant: the start of a run moves no counter.                             *)
UpdatedAtTheEnd(reason) ==
    CASE reason = "waiting" -> [gate EXCEPT !["waiting"] = @ + 1]
      [] reason = "started" -> gate
      [] OTHER -> [gate EXCEPT !["inFlight"] = Down(@), ![reason] = @ + 1]

(* Mutant: an interruption counts as a failure, too.                        *)
UpdatedTwice(reason) ==
    CASE reason = "waiting" -> [gate EXCEPT !["waiting"] = @ + 1]
      [] reason = "started" -> [gate EXCEPT !["waiting"] = Down(@), !["inFlight"] = @ + 1]
      [] reason = "interrupted" -> [gate EXCEPT !["inFlight"] = Down(@),
                                                !["interrupted"] = @ + 1,
                                                !["failed"] = @ + 1]
      [] OTHER -> [gate EXCEPT !["inFlight"] = Down(@), ![reason] = @ + 1]

(* The update of each state change. A wait that is interrupted has none:    *)
(* sem.take runs in the part that cannot be interrupted.                    *)
Updated(reason) ==
    CASE reason = "waiting" -> [gate EXCEPT !["waiting"] = @ + 1]
      [] reason = "started" -> [gate EXCEPT !["waiting"] = Down(@),
                                            !["inFlight"] = @ + 1]
      [] OTHER -> [gate EXCEPT !["inFlight"] = Down(@), ![reason] = @ + 1]

(* publishState, first step: Ref.modify computes and keeps the state.       *)
Modify(c) ==
    /\ pc[c] = "modify"
    /\ gate' = Updated(why[c])
    /\ Goto(c, "record")
    /\ UNCHANGED <<kind, why, run, doomed, free, runSeq, facts, life, cancels,
                   faults, ends>>

(* Mutant: the write of the last change is repeated for ever.               *)
AfterRecordAgain(reason) ==
    CASE reason = "waiting" -> "take"
      [] reason = "started" -> "noteStart"
      [] OTHER -> "record"

AfterRecord(reason) ==
    CASE reason = "waiting" -> "take"
      [] reason = "started" -> "noteStart"
      [] OTHER -> "noteEnd"

(* publishState, second step: the write of the change, whatever comes of it. *)
Record(c) ==
    /\ pc[c] = "record"
    /\ Goto(c, AfterRecord(why[c]))
    /\ UNCHANGED <<kind, why, run, doomed, free, gate, runSeq, facts, life,
                   cancels, faults, ends>>

(* sem.take grants a permit. The use part begins with the started change;   *)
(* it does not begin at all when the caller was interrupted meanwhile.      *)
Take(c) ==
    /\ pc[c] = "take"
    /\ free > 0
    /\ free' = free - 1
    /\ \/ c \in doomed /\ Goto(c, "release") /\ UNCHANGED why
       \/ c \notin doomed /\ kind = "gate" /\ Publish(c, "started")
       \/ c \notin doomed /\ kind = "runner" /\ Goto(c, "effect") /\ UNCHANGED why
    /\ doomed' = doomed \ {c}
    /\ UNCHANGED <<kind, run, gate, runSeq, facts, life, cancels, faults, ends>>

(* create refuses an id that is in the store, and a write may fail: either  *)
(* error is logged and the run goes on.                                     *)
Write(id) ==
    \/ /\ facts' = IF id \in DOMAIN facts THEN facts
                   ELSE [x \in DOMAIN facts \cup {id} |->
                            IF x = id THEN life ELSE facts[x]]
       /\ UNCHANGED faults
    \/ faults > 0 /\ faults' = faults - 1 /\ UNCHANGED facts

NoteStart(c) ==
    /\ pc[c] = "noteStart"
    /\ Write(<<run[c], "started">>)
    /\ Goto(c, "effect")
    /\ UNCHANGED <<kind, why, run, doomed, free, gate, runSeq, life, cancels, ends>>

(* The gated effect ends with a value, a failure or an interruption of its  *)
(* own, and matchCauseEffect publishes the change that goes with it.        *)
EffectEnds(c) ==
    /\ pc[c] = "effect"
    /\ \/ /\ kind = "gate"
          /\ \E ending \in Endings :
                /\ Publish(c, ending)
                /\ ends' = [r \in DOMAIN ends \cup {run[c]} |->
                               IF r = run[c] THEN ending ELSE ends[r]]
       \/ kind = "runner" /\ Goto(c, "release") /\ UNCHANGED <<why, ends>>
    /\ UNCHANGED <<kind, run, doomed, free, gate, runSeq, facts, life, cancels, faults>>

(* A failure and an interruption of the effect both leave a failed fact.    *)
EndFact(ending) == IF ending = "completed" THEN "completed" ELSE "failed"

(* Mutant: an interruption leaves no fact.                                  *)
NoteEndUnlessInterrupted(c) ==
    /\ pc[c] = "noteEnd"
    /\ \/ why[c] = "interrupted" /\ UNCHANGED <<facts, faults>>
       \/ why[c] # "interrupted" /\ Write(<<run[c], EndFact(why[c])>>)
    /\ Goto(c, "release")
    /\ UNCHANGED <<kind, why, run, doomed, free, gate, runSeq, life, cancels, ends>>

NoteEnd(c) ==
    /\ pc[c] = "noteEnd"
    /\ Write(<<run[c], EndFact(why[c])>>)
    /\ Goto(c, "release")
    /\ UNCHANGED <<kind, why, run, doomed, free, gate, runSeq, life, cancels, ends>>

Release(c) ==
    /\ pc[c] = "release"
    /\ free' = free + 1
    /\ Goto(c, "idle")
    /\ doomed' = doomed \ {c}
    /\ UNCHANGED <<kind, why, run, gate, runSeq, facts, life, cancels, faults, ends>>

(* Mutant: the permit goes with the caller.                                 *)
InterruptLosesPermit(c) ==
    /\ pc[c] # "idle"
    /\ c \notin doomed
    /\ cancels > 0
    /\ cancels' = cancels - 1
    /\ \/ Using(c) /\ Goto(c, "idle") /\ UNCHANGED doomed
       \/ ~Using(c) /\ doomed' = doomed \cup {c} /\ UNCHANGED pc
    /\ UNCHANGED <<kind, why, run, free, gate, runSeq, facts, life, faults, ends>>

(* The caller is interrupted: it leaves the use part for the release, or    *)
(* the wait of a runner for good. In the other parts it is only marked.     *)
Interrupt(c) ==
    /\ pc[c] # "idle"
    /\ c \notin doomed
    /\ cancels > 0
    /\ cancels' = cancels - 1
    /\ \/ Using(c) /\ Goto(c, "release") /\ UNCHANGED doomed
       \/ kind = "runner" /\ pc[c] = "take" /\ Goto(c, "idle") /\ UNCHANGED doomed
       \/ /\ ~Using(c)
          /\ kind = "runner" => pc[c] # "take"
          /\ doomed' = doomed \cup {c}
          /\ UNCHANGED pc
    /\ UNCHANGED <<kind, why, run, free, gate, runSeq, facts, life, faults, ends>>

(* The process ends and another one starts: the gate is made anew, with the *)
(* same name, and its numbers start again.                                  *)
Restart ==
    /\ life < MaxLives
    /\ life' = life + 1
    /\ pc' = [c \in Callers |-> "idle"]
    /\ why' = [c \in Callers |-> "waiting"]
    /\ run' = [c \in Callers |-> 0]
    /\ doomed' = {}
    /\ free' = Concurrency
    /\ gate' = [x \in Counters |-> 0]
    /\ runSeq' = 0
    /\ facts' = IF Durable THEN facts ELSE <<>>
    /\ ends' = <<>>
    /\ UNCHANGED <<kind, cancels, faults>>

Step(c) ==
    \/ Modify(c) \/ Record(c) \/ Take(c) \/ NoteStart(c) \/ EffectEnds(c)
    \/ NoteEnd(c) \/ Release(c)

AtRest == (\A c \in Callers : pc[c] = "idle") /\ UNCHANGED vars

Next ==
    \/ \E c \in Callers : Call(c) \/ Step(c) \/ Interrupt(c)
    \/ Restart
    \/ AtRest

Spec == Init /\ [][Next]_vars
FairSpec == Spec /\ \A c \in Callers : WF_vars(Step(c))

----------------------------------------------------------------------------
(* pairRuns: a run is known by its started fact; its outcome is that of the *)
(* last fact that ends it. Two such facts can only be of two lives.         *)
Started == {r \in 1..MaxRuns : <<r, "started">> \in DOMAIN facts}
EndFacts(r) == {<<r, t>> : t \in {"completed", "failed"}} \cap DOMAIN facts
LastEnd(r) == CHOOSE id \in EndFacts(r) : \A x \in EndFacts(r) : facts[x] <= facts[id]
Outcome(r) == IF EndFacts(r) = {} THEN "in-flight" ELSE LastEnd(r)[2]

(* Types, and what a stage says of the caller in it.                        *)
TypeOK ==
    /\ kind \in {"gate", "runner"}
    /\ pc \in [Callers -> Stages]
    /\ why \in [Callers -> Reasons]
    /\ run \in [Callers -> 0..runSeq]
    /\ doomed \subseteq Callers
    /\ free \in 0..Concurrency
    /\ gate \in [Counters -> Nat]
    /\ runSeq \in Nat
    /\ life \in Nat
    /\ cancels \in 0..MaxCancels
    /\ faults \in Nat
    /\ doomed # {} => cancels < MaxCancels
    /\ \A c \in Callers :
          /\ pc[c] = "noteEnd" => why[c] \in Endings
          /\ kind = "runner" => pc[c] \in {"idle", "take", "effect", "release"}

(* Every permit is in the semaphore or with one caller, whatever fails or   *)
(* is interrupted: the gate lets Concurrency effects run, no more and, once *)
(* they have ended, no fewer.                                               *)
PermitsConserved == free + Cardinality(Holders) = Concurrency

(* Callers that have published their wait and not yet the start.            *)
Waiters == {c \in Callers :
    \/ pc[c] = "record" /\ why[c] = "waiting"
    \/ pc[c] = "take"
    \/ pc[c] = "modify" /\ why[c] = "started"}
(* Callers that have published their start and not yet the end.             *)
Runners == {c \in Callers :
    \/ pc[c] \in {"noteStart", "effect"}
    \/ pc[c] = "record" /\ why[c] = "started"
    \/ pc[c] = "modify" /\ why[c] \in Endings}

(* The counters cover the callers, and the two that go down are never below *)
(* them, so that Math.max(0, ...) never hides a step; they are exact as     *)
(* long as no caller is interrupted.                                        *)
CountersCover ==
    kind = "gate" =>
        /\ gate["waiting"] >= Cardinality(Waiters)
        /\ gate["inFlight"] >= Cardinality(Runners)
        /\ cancels = MaxCancels =>
              /\ gate["waiting"] = Cardinality(Waiters)
              /\ gate["inFlight"] = Cardinality(Runners)

(* Each run that was numbered is counted in exactly one counter once it has *)
(* published its wait: a run that was interrupted stays where it was.       *)
Numbered == {c \in Callers : pc[c] = "modify" /\ why[c] = "waiting"}
RunsAccounted ==
    kind = "gate" =>
        gate["waiting"] + gate["inFlight"] + gate["completed"] + gate["failed"]
          + gate["interrupted"] + Cardinality(Numbered) = runSeq

(* The history that runs() pairs is that of the runs: a run told completed  *)
(* or failed ended so in this life, and a run that ended and whose facts    *)
(* were written is told. (Of runs that the store has from this process.)    *)
Finished == {r \in DOMAIN ends : \A c \in Callers : run[c] = r => pc[c] = "idle"}
HistoryTold ==
    /\ \A r \in Started : Outcome(r) # "in-flight" =>
          r \in DOMAIN ends /\ Outcome(r) = EndFact(ends[r])
    /\ cancels = MaxCancels /\ faults = MaxFaults =>
          \A r \in Finished : r \in Started /\ Outcome(r) = EndFact(ends[r])

(* A call returns: a caller that waits gets a permit, because the callers   *)
(* that hold one give it back.                                              *)
CallsReturn == \A c \in Callers : pc[c] # "idle" ~> pc[c] = "idle"
=============================================================================
