------------------------- MODULE ProcessSupervisor -------------------------
(* A managed process: the handle of buildProcessImpl, the supervisor built by *)
(* createProcess (both in src/src/Process.ts) and the in-memory schedule it   *)
(* watches (src/src/internal/processSchedule.ts).                             *)
(*                                                                           *)
(* A driver reconciles the schedule: a window that is open gets an instance,  *)
(* a window still to open gets a sleeper that starts the instance. Both are   *)
(* children of the fiber that forks them: when a fiber ends, whether it is    *)
(* interrupted or returns, its children are interrupted and awaited, and a    *)
(* fiber interrupted before its first step runs none of its finalizers        *)
(* (Effect.forkChild, Fiber.interrupt). A fiber is a sequence of labelled     *)
(* steps; operations with no suspension between them that no other fiber can  *)
(* tell apart are one step.                                                  *)
EXTENDS Integers, Sequences, FiniteSets

CONSTANTS
    Controllers, \* fibers that call start and stop of the handle
    Editors,    \* fibers that change the schedule
    Ids,        \* the ids of windows
    NoId,       \* the id of a window that has none
    Initial,    \* the windows the schedule is built with
    Plans,      \* what a call of set or reconcile may carry
    Additions,  \* what a call of add or upsert may carry
    MaxEntries, \* longest schedule (bound)
    MaxTime,    \* last instant of the clock (bound)
    Never,      \* the stop of an open-ended window
    Cadences,   \* {TRUE}: with a polling layer, {FALSE}: without one
    Budget      \* how often each operation of CallNames is called (bound)

Clients == Controllers \cup Editors
CallNames == {"start", "stop", "edit"}
Window == [id : Ids \cup {NoId}, start : 0 .. Never, stop : 0 .. Never]

ASSUME ScheduleAssumption ==
    /\ MaxTime \in Nat /\ MaxEntries \in Nat \ {0}
    /\ Never \in Nat /\ Never > MaxTime
    /\ NoId \notin Ids /\ Controllers \cap Editors = {}
    /\ Initial \in Seq(Window) /\ Len(Initial) <= MaxEntries
    /\ Plans \subseteq Seq(Window)
    /\ Additions \subseteq Window
    /\ Cadences \subseteq BOOLEAN /\ Cadences # {}
    /\ Budget \in [CallNames -> Nat]

VARIABLES
    entries,          \* entriesRef
    signal,           \* changeSignal: the number of the current Deferred
    fired,            \* the Deferreds that are completed
    now,              \* the clock
    polling,          \* a polling layer is provided
    pendingStarts,    \* the sleeper of a key (0: none)
    runningByEntry,   \* the instance of a key (0: none)
    completedEntries, \* keys that are not to run again
    activeInstances,  \* the counter of the mirror
    fiberRef,         \* the driver the handle knows (0: none)
    fiber,            \* every fiber forked so far
    call,             \* what each client is doing
    begun,            \* history: runs begun under a key since it was pruned
    aborted,          \* history: instances interrupted before their first step
    left              \* calls left of Budget

store  == <<entries, signal, fired>>
maps   == <<pendingStarts, runningByEntry, completedEntries>>
vars   == <<entries, signal, fired, now, polling, pendingStarts, runningByEntry,
            completedEntries, activeInstances, fiberRef, fiber, call, begun,
            aborted, left>>

(* entryKeyFrom: start, stop and the index in the sorted schedule.           *)
Keys == [start : 0 .. Never, stop : 0 .. Never, index : 1 .. MaxEntries]
KeyAt(s, i) == [start |-> s[i].start, stop |-> s[i].stop, index |-> i]
KeysIn(s) == {KeyAt(s, i) : i \in DOMAIN s}
SomeKey == [start |-> 0, stop |-> 0, index |-> 1]

FiberIds == DOMAIN fiber
Live(f) == fiber[f].pc # "dead"
Children(f) == {g \in FiberIds : fiber[g].parent = f}

NewFiber(kind, parent, key) ==
    [kind   |-> kind, parent |-> parent, key |-> key,
     pc     |-> IF kind = "driver" THEN "read" ELSE "forked",
     intr   |-> FALSE,
     snap   |-> <<>>, idx |-> 1,    \* a driver's entries and its place in them
     at     |-> 0,                  \* a driver's nowMillis
     stale  |-> {},                 \* sleepers a driver still has to interrupt
     other  |-> 0,                  \* the sleeper a driver waits for
     watch  |-> 0]                  \* the Deferred a driver awaits

Idle == [pc |-> "idle", next |-> <<>>, target |-> 0]

(* The elements of s at the indices I, in the order that goesBefore gives them:  *)
(* the n-th has n - 1 before it.                                             *)
Arranged(s, I, goesBefore) ==
    LET Rank(i) == Cardinality({j \in I : <<j, i>> \in goesBefore})
    IN  [n \in 1 .. Cardinality(I) |-> s[CHOOSE i \in I : Rank(i) = n - 1]]

(* sortEntries: by start, then by stop; the sort is stable.                  *)
Before(a, b) == a.start < b.start \/ (a.start = b.start /\ a.stop < b.stop)
SortEntries(s) ==
    LET First(i, j) == \/ Before(s[i], s[j])
                       \/ ~Before(s[j], s[i]) /\ i < j
        pairs == (DOMAIN s) \X (DOMAIN s)
    IN  Arranged(s, DOMAIN s, {p \in pairs : First(p[1], p[2])})

(* The layer starts the driver before it hands the handle out.               *)
Init ==
    /\ entries = SortEntries(Initial)
    /\ signal = 1
    /\ fired = {}
    /\ now = 0
    /\ polling \in Cadences
    /\ pendingStarts = [k \in Keys |-> 0]
    /\ runningByEntry = [k \in Keys |-> 0]
    /\ completedEntries = {}
    /\ activeInstances = 0
    /\ fiberRef = 1
    /\ fiber = <<NewFiber("driver", 0, SomeKey)>>
    /\ call = [c \in Clients |-> Idle]
    /\ begun = [k \in Keys |-> 0]
    /\ aborted = 0
    /\ left = Budget

----------------------------------------------------------------------------
(* The schedule: setEntries and mutateEntries, run by clients.               *)

At(f, label) == fiber[f].pc = label /\ ~fiber[f].intr
GoTo(f, label) == fiber' = [fiber EXCEPT ![f].pc = label]
Doing(c, label) == call[c].pc = label
Does(c, label) == call' = [call EXCEPT ![c].pc = label]
Spend(o) == left[o] > 0 /\ left' = [left EXCEPT ![o] = @ - 1]

HasId(id) == \E i \in DOMAIN entries : entries[i].id = id
Without(S) ==
    LET kept == {i \in DOMAIN entries : entries[i].id \notin S}
    IN  Arranged(entries, kept, {p \in kept \X kept : p[1] < p[2]})

(* What a call computes from the entries it reads; nothing is written when    *)
(* nothing is removed.                                                       *)
Mutations ==
    Plans                                               \* set, reconcile
    \cup {Append(entries, w) : w \in Additions}           \* add
    \cup {IF w.id = NoId THEN Append(entries, w)
          ELSE Append(Without({w.id}), w) : w \in Additions} \* upsert
    \cup {Without(S) : S \in {S \in SUBSET Ids : \E i \in S : HasId(i)}}
                                                        \* remove, removeMany
    \cup {<<>>}                                          \* clear

CallMutate(c) ==
    /\ c \in Editors /\ Doing(c, "idle")
    /\ Spend("edit")
    /\ \E next \in Mutations :
         /\ Len(next) <= MaxEntries
         /\ call' = [call EXCEPT ![c] = [Idle EXCEPT !.pc = "write", !.next = next]]
    /\ UNCHANGED <<store, now, polling, maps, activeInstances, fiberRef, fiber,
                   begun, aborted>>

WriteEntries(c) ==
    /\ Doing(c, "write")
    /\ entries' = SortEntries(call[c].next)
    /\ call' = [call EXCEPT ![c] = [Idle EXCEPT !.pc = "notify"]]
    /\ UNCHANGED <<signal, fired, now, polling, maps, activeInstances, fiberRef,
                   fiber, begun, aborted, left>>

(* notify completes the current Deferred and installs a fresh one; the waiters *)
(* it wakes go on later.                                                     *)
Notify(c) ==
    /\ Doing(c, "notify")
    /\ fired' = fired \cup {signal}
    /\ signal' = signal + 1
    /\ Does(c, "idle")
    /\ UNCHANGED <<entries, now, polling, maps, activeInstances, fiberRef, fiber,
                   begun, aborted, left>>

----------------------------------------------------------------------------
(* start and stop of the handle.                                             *)

(* start reads fiberRef, then forks a driver and writes fiberRef.            *)
CallStart(c) ==
    /\ c \in Controllers /\ Doing(c, "idle")
    /\ Spend("start")
    /\ Does(c, IF fiberRef # 0 THEN "idle" ELSE "fork")
    /\ UNCHANGED <<store, now, polling, maps, activeInstances, fiberRef, fiber,
                   begun, aborted>>

ForkDriver(c) ==
    /\ Doing(c, "fork")
    /\ fiber' = Append(fiber, NewFiber("driver", 0, SomeKey))
    /\ fiberRef' = Len(fiber')
    /\ Does(c, "idle")
    /\ UNCHANGED <<store, now, polling, maps, activeInstances, begun, aborted, left>>

(* Mutant: stop waits for the driver without interrupting it.                 *)
JoinDriver(c) ==
    /\ c \in Controllers /\ Doing(c, "idle")
    /\ Spend("stop")
    /\ call' = IF fiberRef = 0 THEN call
               ELSE [call EXCEPT ![c].pc = "ending", ![c].target = fiberRef]
    /\ UNCHANGED <<store, now, polling, maps, activeInstances, fiberRef, fiber,
                   begun, aborted>>

(* stop interrupts the driver it reads, waits for its end, and clears fiberRef. *)
CallStop(c) ==
    /\ c \in Controllers /\ Doing(c, "idle")
    /\ Spend("stop")
    /\ \/ fiberRef = 0 /\ UNCHANGED <<call, fiber>>
       \/ /\ fiberRef # 0
          /\ fiber' = [fiber EXCEPT ![fiberRef].intr = Live(fiberRef)]
          /\ call' = [call EXCEPT ![c].pc = "ending", ![c].target = fiberRef]
    /\ UNCHANGED <<store, now, polling, maps, activeInstances, fiberRef, begun,
                   aborted>>

(* Mutant: stop clears fiberRef without waiting for the driver it interrupted. *)
ClearAtOnce(c) ==
    /\ Doing(c, "ending")
    /\ fiberRef' = 0
    /\ call' = [call EXCEPT ![c] = Idle]
    /\ UNCHANGED <<store, now, polling, maps, activeInstances, fiber, begun,
                   aborted, left>>

AwaitDriver(c) ==
    /\ Doing(c, "ending")
    /\ ~Live(call[c].target)
    /\ fiberRef' = 0
    /\ call' = [call EXCEPT ![c] = Idle]
    /\ UNCHANGED <<store, now, polling, maps, activeInstances, fiber, begun,
                   aborted, left>>

----------------------------------------------------------------------------
(* The driver: reconcileSchedules, then schedule.changed.                    *)

Begin(f) ==
    /\ At(f, "forked")
    /\ GoTo(f, IF fiber[f].kind = "sleeper" THEN "sleep" ELSE "check")
    /\ UNCHANGED <<store, now, polling, maps, activeInstances, fiberRef, call,
                   begun, aborted, left>>

StillListed(s) == completedEntries \cap KeysIn(s)

(* A reconcile reads the entries; keys that left the schedule are no longer     *)
(* completed, and their sleepers are to be interrupted.                        *)
PruneKeys(d) ==
    /\ At(d, "read")
    /\ completedEntries' = StillListed(entries)
    /\ begun' = [k \in Keys |-> IF k \in KeysIn(entries) THEN begun[k] ELSE 0]
    /\ fiber' = [fiber EXCEPT ![d].pc = "sweep", ![d].snap = entries,
                   ![d].stale = {pendingStarts[k] : k \in Keys \ KeysIn(entries)} \ {0}]
    /\ UNCHANGED <<store, now, polling, pendingStarts, runningByEntry,
                   activeInstances, fiberRef, call, aborted, left>>

(* Mutant: sleepers of windows that are gone are left alone.                 *)
SweepNothing(d) ==
    At(d, "sweep") /\ fiber[d].stale # {} /\ fiber' = [fiber EXCEPT ![d].stale = {}]

SweepStale(d) ==
    \/ /\ At(d, "sweep")
       /\ \E s \in fiber[d].stale :
            fiber' = [fiber EXCEPT ![d].pc = "swept", ![d].other = s, ![s].intr = Live(s)]
    \/ /\ At(d, "swept")
       /\ ~Live(fiber[d].other)
       /\ fiber' = [fiber EXCEPT ![d].pc = "sweep", ![d].other = 0,
                      ![d].stale = @ \ {fiber[d].other}]

InterruptStale(d) ==
    /\ SweepStale(d)
    /\ UNCHANGED <<store, now, polling, maps, activeInstances, fiberRef, call,
                   begun, aborted, left>>

ReadClock(d) ==
    /\ At(d, "sweep") /\ fiber[d].stale = {}
    /\ fiber' = [fiber EXCEPT ![d].pc = "each", ![d].at = now, ![d].idx = 1]
    /\ UNCHANGED <<store, now, polling, maps, activeInstances, fiberRef, call,
                   begun, aborted, left>>

AlreadyRuns(k) == runningByEntry[k] # 0

NextEntry(d) == [fiber EXCEPT ![d].idx = @ + 1]

(* Mutant: the instance is counted before the key is looked up.                *)
CountFirst(f, k, known, intr) ==
    /\ activeInstances' = activeInstances + 1
    /\ \/ AlreadyRuns(k) /\ fiber' = known /\ UNCHANGED runningByEntry
       \/ /\ ~AlreadyRuns(k)
          /\ fiber' = Append(known, [NewFiber("instance", f, k) EXCEPT !.intr = intr])
          /\ runningByEntry' = [runningByEntry EXCEPT ![k] = Len(fiber')]

(* spawnEntryInstance by fiber f, where known are the other changes of fiber.   *)
(* The fork and its record in the map are one step: nothing in between          *)
(* suspends f, and the child takes its first step later.                       *)
SpawnInstance(f, k, known, intr) ==
    \/ /\ AlreadyRuns(k)
       /\ fiber' = known
       /\ UNCHANGED <<activeInstances, runningByEntry>>
    \/ /\ ~AlreadyRuns(k)
       /\ activeInstances' = activeInstances + 1
       /\ fiber' = Append(known, [NewFiber("instance", f, k) EXCEPT !.intr = intr])
       /\ runningByEntry' = [runningByEntry EXCEPT ![k] = Len(fiber')]

(* scheduleFutureEntry reads the clock again.                                *)
ScheduleFuture(d, k) ==
    \/ /\ k.start <= now
       /\ SpawnInstance(d, k, NextEntry(d), FALSE)
       /\ UNCHANGED pendingStarts
    \/ /\ k.start > now
       /\ fiber' = Append(NextEntry(d), NewFiber("sleeper", d, k))
       /\ pendingStarts' = [pendingStarts EXCEPT ![k] = Len(fiber')]
       /\ UNCHANGED <<activeInstances, runningByEntry>>

(* One window: skip it, complete it (it closed unseen), spawn its instance,   *)
(* or put a sleeper on it.                                                   *)
ReconcileEntry(d) ==
    /\ At(d, "each")
    /\ fiber[d].idx <= Len(fiber[d].snap)
    /\ LET k      == KeyAt(fiber[d].snap, fiber[d].idx)
           opened == k.start <= fiber[d].at
           closed == k.stop <= fiber[d].at
           known  == k \in completedEntries \/ AlreadyRuns(k)
                       \/ (~opened /\ pendingStarts[k] # 0)
       IN
       \/ /\ known
          /\ fiber' = NextEntry(d)
          /\ UNCHANGED <<maps, activeInstances>>
       \/ /\ ~known /\ opened /\ closed
          /\ completedEntries' = completedEntries \cup {k}
          /\ fiber' = NextEntry(d)
          /\ UNCHANGED <<pendingStarts, runningByEntry, activeInstances>>
       \/ /\ ~known /\ opened /\ ~closed
          /\ SpawnInstance(d, k, NextEntry(d), FALSE)
          /\ UNCHANGED <<pendingStarts, completedEntries>>
       \/ /\ ~known /\ ~opened
          /\ ScheduleFuture(d, k)
          /\ UNCHANGED completedEntries
    /\ UNCHANGED <<store, now, polling, fiberRef, call, begun, aborted, left>>

(* changed: reads the current Deferred, then awaits it.                      *)
AwaitChange(d) ==
    /\ \/ /\ At(d, "each")
          /\ fiber[d].idx > Len(fiber[d].snap)
          /\ fiber' = [fiber EXCEPT ![d].pc = "wait", ![d].watch = signal,
                                   ![d].at = 0, ![d].idx = 1]
       \/ /\ At(d, "wait")
          /\ fiber[d].watch \in fired
          /\ fiber' = [fiber EXCEPT ![d].pc = "read", ![d].watch = 0]
    /\ UNCHANGED <<store, now, polling, maps, activeInstances, fiberRef, call,
                   begun, aborted, left>>

----------------------------------------------------------------------------
(* A sleeper that wakes does all it has left in one go: it spawns the instance, *)
(* unless the key runs, takes itself off pendingStarts, and ends; the instance  *)
(* is its child and ends with it.                                            *)
Wake(s) ==
    /\ At(s, "sleep")
    /\ LET k == fiber[s].key IN
       /\ k.start <= now
       /\ pendingStarts' = [pendingStarts EXCEPT ![k] = 0]
       /\ SpawnInstance(s, k, [fiber EXCEPT ![s].pc = "ending"], TRUE)
    /\ UNCHANGED <<store, now, polling, completedEntries, fiberRef, call, begun,
                   aborted, left>>

----------------------------------------------------------------------------
(* runEntryInstance: once, or at every tick, while the window is open.       *)

AwaitNextTick(i) ==
    /\ At(i, "check") /\ polling
    /\ now < fiber[i].key.stop
    /\ GoTo(i, "tick")
    /\ UNCHANGED <<store, now, polling, maps, activeInstances, fiberRef, call,
                   begun, aborted, left>>

FindsClosed(i) ==
    /\ At(i, "check") \/ At(i, "tick")
    /\ now >= fiber[i].key.stop
    /\ GoTo(i, "over")
    /\ UNCHANGED <<store, now, polling, maps, activeInstances, fiberRef, call,
                   begun, aborted, left>>

(* trackedProgram: the effect succeeds or fails, and the instance goes on.   *)
BeginRun(i) ==
    /\ At(i, IF polling THEN "tick" ELSE "check")
    /\ now < fiber[i].key.stop
    /\ GoTo(i, "running")
    /\ begun' = [begun EXCEPT ![fiber[i].key] = IF polling THEN 1 ELSE @ + 1]
    /\ UNCHANGED <<store, now, polling, maps, activeInstances, fiberRef, call,
                   aborted, left>>

EndRun(i) ==
    /\ At(i, "running")
    /\ GoTo(i, IF polling THEN "check" ELSE "over")
    /\ UNCHANGED <<store, now, polling, maps, activeInstances, fiberRef, call,
                   begun, aborted, left>>

----------------------------------------------------------------------------
(* The end of a fiber, by return or by interruption: its finalizer, unless it *)
(* had no step yet, then its children.                                       *)

(* Mutant: an instance that ends does not complete its key.                  *)
ForgetKey(f) ==
    IF fiber[f].kind = "instance"
    THEN /\ activeInstances' = activeInstances - 1
         /\ runningByEntry' = [runningByEntry EXCEPT ![fiber[f].key] = 0]
         /\ UNCHANGED <<pendingStarts, completedEntries>>
    ELSE UNCHANGED <<maps, activeInstances>>

Finalizer(f) ==
    CASE fiber[f].kind = "instance" ->
           /\ activeInstances' = IF activeInstances > 0 THEN activeInstances - 1 ELSE 0
           /\ runningByEntry' = [runningByEntry EXCEPT ![fiber[f].key] = 0]
           /\ completedEntries' = completedEntries \cup {fiber[f].key}
           /\ UNCHANGED pendingStarts
      [] fiber[f].kind = "sleeper" ->
           /\ pendingStarts' = [pendingStarts EXCEPT ![fiber[f].key] = 0]
           /\ UNCHANGED <<runningByEntry, completedEntries, activeInstances>>
      [] OTHER -> UNCHANGED <<maps, activeInstances>>

(* A dead fiber keeps nothing but its kind.                                  *)
Dead(f) == [NewFiber(fiber[f].kind, 0, SomeKey) EXCEPT !.pc = "dead"]
Ended(f) == IF Children(f) = {} THEN Dead(f) ELSE [fiber[f] EXCEPT !.pc = "ending"]

InterruptChildren(f) ==
    fiber' = [g \in FiberIds |->
                IF g = f THEN Ended(f)
                ELSE IF g \in Children(f) THEN [fiber[g] EXCEPT !.intr = TRUE]
                ELSE fiber[g]]

Exit(f) ==
    /\ fiber[f].pc \notin {"ending", "dead"}
    /\ fiber[f].intr \/ fiber[f].pc = "over"
    /\ IF fiber[f].pc = "forked"
       THEN /\ aborted' = aborted + (IF fiber[f].kind = "instance" THEN 1 ELSE 0)
            /\ UNCHANGED <<maps, activeInstances>>
       ELSE Finalizer(f) /\ UNCHANGED aborted
    /\ InterruptChildren(f)
    /\ UNCHANGED <<store, now, polling, fiberRef, call, begun, left>>

(* Its children are gone.                                                    *)
Die(f) ==
    /\ fiber[f].pc = "ending" /\ Children(f) = {}
    /\ fiber' = [fiber EXCEPT ![f] = Dead(f)]
    /\ UNCHANGED <<store, now, polling, maps, activeInstances, fiberRef, call,
                   begun, aborted, left>>

----------------------------------------------------------------------------

Tick ==
    /\ now < MaxTime
    /\ now' = now + 1
    /\ UNCHANGED <<store, polling, maps, activeInstances, fiberRef, fiber, call,
                   begun, aborted, left>>

ClientCall(c) == CallStart(c) \/ CallStop(c) \/ CallMutate(c)

ClientStep(c) ==
    WriteEntries(c) \/ Notify(c) \/ ForkDriver(c) \/ AwaitDriver(c)

FiberStep(f) ==
    \/ Begin(f) \/ PruneKeys(f) \/ InterruptStale(f) \/ ReadClock(f)
    \/ ReconcileEntry(f) \/ AwaitChange(f) \/ Wake(f) \/ AwaitNextTick(f)
    \/ FindsClosed(f) \/ BeginRun(f) \/ EndRun(f) \/ Exit(f) \/ Die(f)

Next ==
    \/ \E c \in Clients : ClientCall(c) \/ ClientStep(c)
    \/ \E f \in FiberIds : FiberStep(f)
    \/ Tick

Spec == Init /\ [][Next]_vars

(* Effect's scheduler lets a fiber that can go on go on; less than that is     *)
(* needed: some fiber goes on, and one that is to end ends, even if another one *)
(* polls for ever. Nothing says that a client calls, nor that time goes by.     *)
Fair ==
    /\ \A c \in Clients : WF_vars(ClientStep(c))
    /\ WF_vars(\E f \in FiberIds : FiberStep(f))
    /\ WF_vars(\E f \in FiberIds : Exit(f) \/ Die(f))
FairSpec == Spec /\ Fair

(* The same, and time goes by.                                               *)
TimedSpec == FairSpec /\ WF_vars(Tick)

----------------------------------------------------------------------------
(* Properties.                                                               *)

(* activeInstances counts the instances whose finalizer has not run: those that *)
(* live, and for good those that were interrupted before their first step      *)
(* (the counter is raised before the fork, lowered by Effect.ensuring).         *)
Instances == {f \in FiberIds : fiber[f].kind = "instance"}
InstanceAccounting ==
    activeInstances =
        aborted + Cardinality({f \in Instances : fiber[f].pc \notin {"ending", "dead"}})

(* Once stop has returned, and until the next start, nothing of the process    *)
(* is left: no driver, no sleeper, no instance goes on in the background        *)
(* (stop interrupts the driver only; its descendants must go with it).         *)
StopStops ==
    Controllers # {} /\ fiberRef = 0
        /\ (\A c \in Controllers : call[c].pc # "fork")
    => \A f \in FiberIds : ~Live(f)

(* While a key stays in the schedule its effect is run at most once without a   *)
(* polling layer, however often the driver reconciles, the process is stopped   *)
(* and started, or a sleeper and the driver reach the window together.          *)
OncePerKey == ~polling => \A k \in Keys : begun[k] <= 1

(* A driver that waits for the next change has no sleeper left for a window    *)
(* that was gone when it last read the schedule, whatever changed meanwhile.    *)
NoGhostSleepers ==
    \A d \in FiberIds : At(d, "wait") =>
        \A s \in Children(d) :
            fiber[s].kind = "sleeper" /\ fiber[s].pc \notin {"ending", "dead"}
                => fiber[s].key \in KeysIn(fiber[d].snap)

(* A stop that interrupted the driver returns: no descendant waits for another  *)
(* in a circle, whatever it was doing when the interrupt reached it.            *)
StopReturns == \A c \in Controllers : call[c].pc = "ending" ~> call[c].pc = "idle"

(* Every window the schedule is built with, which nobody changes and which is   *)
(* wide enough to be met, gets its run ("When the run instance should be        *)
(* triggered", ProcessScheduleEntry.startAt).                                 *)
FutureWindowRuns ==
    \A k \in KeysIn(SortEntries(Initial)) : k.stop > MaxTime => <>(begun[k] > 0)

=============================================================================
