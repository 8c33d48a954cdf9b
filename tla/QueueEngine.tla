---------------------------- MODULE QueueEngine ----------------------------
(* The in-memory runtime of a queue resource: makeQueueRuntime in           *)
(* src/src/internal/queueResource.ts over the priority lane store of         *)
(* src/src/internal/levelLaneStorePriority.ts, with no DurableQueueStore in   *)
(* the context.                                                              *)
(*                                                                           *)
(* Every fiber is a sequence of labelled steps, one per operation on shared  *)
(* state: the Effect run loop may switch fibers between any two of them.     *)
(* A step that only records analytics, logs or publishes an event is part of *)
(* the step before it. Entries are numbered by entrySeq; the lanes and the   *)
(* fibers hold entry numbers, entry[e] holds what InternalItem holds.         *)
EXTENDS Integers, Sequences, FiniteSets, Functions

CONSTANTS
    Workers,        \* worker fibers: config.concurrency of them
    Clients,        \* fibers that call the public handle
    DrainMonitor,   \* the fiber that turns drain signals into Drained events
    Items,          \* the payloads
    Keys,           \* the values of config.key
    NoKey,          \* the key of an item when config.key is undefined
    KeyOf,          \* config.key
    LevelCount,     \* number of priority lanes
    Capacity,       \* bound of one lane
    MaxRetries,     \* attempts - 1
    Dispositions,   \* what onFailure may answer; {"default"} when it is not set
    AutoReEnqueue,  \* attempts or retries is configured
    ShutdownMode,   \* "drain" or "finishActive"
    StartPaused,    \* config.paused
    AutoStart,      \* config.autoStart
    RateLimit,      \* "off", "delay" or "fail" (onExceeded)
    Batches,        \* the item sequences a call of add may carry
    AddLevels,      \* the levels a call of add may name
    Budget          \* how often each operation of OpNames is called (bound)

OpNames == {"add", "reinject", "pause", "resume", "shutdown", "clear",
            "release", "releaseEncoded", "encodeError", "route", "start",
            "ctx", "failure", "refill", "interrupt"}

ASSUME FibersAssumption ==
    /\ IsFiniteSet(Workers) /\ Workers # {}
    /\ Workers \cap Clients = {}
    /\ DrainMonitor \notin Workers \cup Clients

ASSUME ConfigAssumption ==
    /\ LevelCount \in Nat \ {0}
    /\ Capacity \in Nat \ {0}
    /\ MaxRetries \in Nat
    /\ AddLevels \subseteq Int
    /\ Batches \subseteq Seq(Items)
    /\ KeyOf \in [Items -> Keys \cup {NoKey}]
    /\ NoKey \notin Keys
    /\ Dispositions \subseteq {"default", "retry", "deadLetter", "drop"}
    /\ Dispositions # {}
    /\ AutoReEnqueue \in BOOLEAN
    /\ ShutdownMode \in {"drain", "finishActive"}
    /\ StartPaused \in BOOLEAN
    /\ AutoStart \in BOOLEAN
    /\ RateLimit \in {"off", "delay", "fail"}
    /\ Budget \in [OpNames -> Nat]

Fibers == Workers \cup Clients \cup {DrainMonitor}
Levels == 0 .. LevelCount - 1

VARIABLES
    lanes,          \* the lane store: one bounded FIFO queue per level
    entry,          \* entry[e]: item, level, retries and the entry it continues
    activeKeys,     \* dedup keys
    latch,          \* the worker latch is open
    paused,         \* pausedRef
    phase,          \* phaseRef
    isShutdown,     \* isShutdownRef
    workersStarted, \* workersStartedRef
    inFlight,       \* inFlightRef
    permits,        \* free permits of the concurrency semaphore
    completed,      \* completedCount
    fired,          \* the current worker / drain wake Deferred is completed
    waitOn,         \* the Deferred a fiber captured: the current one, a
                    \* completed one, or one that was replaced uncompleted
    pc,             \* next step of every fiber
    op,             \* the operation a fiber is in
    cur,            \* the entry a fiber works on (0: none)
    scan,           \* the lane a fiber looks at next
    todo,           \* items of an enqueue not yet deduplicated
    lvl,            \* level argument of an enqueue
    sel,            \* selector argument of an extraction
    hand,           \* entries a fiber holds: minted or drained
    kept,           \* drained entries that did not match the selector
    result,         \* history: how each entry ended ("live" until it does)
    completes,      \* history: ShutdownComplete events published
    left            \* calls left of Budget

store    == <<lanes, entry, activeKeys>>
flags    == <<latch, paused, phase, isShutdown, workersStarted>>
counters == <<inFlight, permits, completed>>
signals  == <<fired, waitOn>>
frame    == <<op, cur, scan, todo, lvl, sel, hand, kept>>
history  == <<result, completes, left>>
vars     == <<lanes, entry, activeKeys, latch, paused, phase, isShutdown,
              workersStarted, inFlight, permits, completed, fired, waitOn,
              pc, op, cur, scan, todo, lvl, sel, hand, kept, result,
              completes, left>>

Phases      == {"running", "draining", "off"}
Channels    == {"worker", "drain"}
WaitStates  == {"none", "current", "fired", "orphaned"}
Results     == {"live", "ok", "failed", "exhausted", "retried", "routed",
                "skipped", "cleared", "released", "reinjected", "discarded",
                "lost"}
Ops         == OpNames \cup {"none", "ok", "fail", "retry"}
EntryIds    == 1 .. Len(entry)
EntryRecords == [item : Items, level : Int, retries : Nat, prev : Nat]
AnySelector == [by |-> "all", v |-> NoKey]
Selectors   == [by : {"all", "entryId", "key", "item"},
                v : Nat \cup Items \cup Keys \cup {NoKey}]

EnqueueLabels == {"enq", "dedup", "claim", "offer", "wake1", "wake2"}
WorkerLabels  == EnqueueLabels \cup
    {"off", "loop", "latch1", "shut1", "poll", "check", "wait", "latch2",
     "shut2", "rate", "skip", "start", "run", "unkey", "settle", "dispose",
     "requeue",
     "empty", "drain1", "drain2", "permit", "fin1", "fin2", "exit"}
ClientLabels  == EnqueueLabels \cup
    {"idle", "setPaused", "setResumed", "setShutdown", "wind", "unpause",
     "drain", "putback", "keys", "zero", "encode", "restore", "rekey",
     "claimStart", "empty", "drain1", "drain2", "fin1", "fin2"}
MonitorLabels == EnqueueLabels \cup
    {"off", "loop", "wait", "check", "isEmpty", "load", "loaded", "exit"}
Labels == WorkerLabels \cup ClientLabels \cup MonitorLabels

Init ==
    /\ lanes = [l \in Levels |-> <<>>]
    /\ entry = <<>>
    /\ activeKeys = {}
    /\ latch = ~StartPaused
    /\ paused = StartPaused
    /\ phase = "running"
    /\ isShutdown = FALSE
    /\ workersStarted = AutoStart
    /\ inFlight = 0
    /\ permits = Cardinality(Workers)
    /\ completed = 0
    /\ fired = [ch \in Channels |-> FALSE]
    /\ waitOn = [f \in Fibers |-> "none"]
    /\ pc = [f \in Fibers |-> IF f \in Clients THEN "idle"
                              ELSE IF AutoStart THEN "loop" ELSE "off"]
    /\ op = [f \in Fibers |-> "none"]
    /\ cur = [f \in Fibers |-> 0]
    /\ scan = [f \in Fibers |-> 0]
    /\ todo = [f \in Fibers |-> <<>>]
    /\ lvl = [f \in Fibers |-> 0]
    /\ sel = [f \in Fibers |-> AnySelector]
    /\ hand = [f \in Fibers |-> <<>>]
    /\ kept = [f \in Fibers |-> <<>>]
    /\ result = <<>>
    /\ completes = 0
    /\ left = Budget

----------------------------------------------------------------------------
(* Helpers.                                                                  *)

At(f, label) == pc[f] = label
GoTo(f, label) == pc' = [pc EXCEPT ![f] = label]
Spend(o) == left[o] > 0 /\ left' = [left EXCEPT ![o] = @ - 1]

KeyOfEntry(e) == KeyOf[entry[e].item]
KeysOf(S) == {KeyOfEntry(e) : e \in S} \ {NoKey}

(* clampLevel: out-of-range levels go to the first or the last lane.         *)
ClampLevel(level) ==
    IF level < 0 THEN 0 ELSE IF level >= LevelCount THEN LevelCount - 1 ELSE level

LaneOf(e) == ClampLevel(entry[e].level)
HasRoom(l) == Len(lanes[l]) < Capacity
LanesEmpty == \A l \in Levels : lanes[l] = <<>>
MarkAll(S, r) == [e \in DOMAIN result |-> IF e \in S THEN r ELSE result[e]]

(* matchesSelector: entryId, key or item.                                    *)
Matches(e, s) ==
    CASE s.by = "all"     -> TRUE
      [] s.by = "entryId" -> e = s.v
      [] s.by = "key"     -> KeyOfEntry(e) = s.v
      [] s.by = "item"    -> entry[e].item = s.v

(* Mutant: shutdown does not try to finalize.                                *)
AfterDrainWakeEnds(f) ==
    IF f \in Workers THEN IF op[f] = "route" THEN "empty" ELSE "permit" ELSE "idle"

(* Where a fiber goes when a shared subroutine returns.                      *)
AfterEnqueue(f) ==
    CASE f \in Clients     -> "idle"
      [] f = DrainMonitor  -> "loaded"
      [] OTHER             -> IF op[f] = "ctx" THEN "run" ELSE "empty"
AfterWorkerWake(f) ==
    IF f \in Clients /\ op[f] = "shutdown" THEN "drain1" ELSE AfterEnqueue(f)
AfterDrainWake(f) ==
    CASE f \in Workers -> IF op[f] = "route" THEN "empty" ELSE "permit"
      [] OTHER         -> IF op[f] = "shutdown" THEN "fin1" ELSE "idle"
AfterFinalize(f) == IF f \in Workers THEN "loop" ELSE "idle"

(* A subroutine returns: a worker and the drain monitor forget the operation *)
(* at once, a client when its call is over.                                  *)
Return(f, label) ==
    LET over == f \notin Clients \/ label = "idle"
    IN  /\ GoTo(f, label)
        /\ op' = [op EXCEPT ![f] = IF over THEN "none" ELSE @]
        /\ cur' = [cur EXCEPT ![f] = IF label = "idle" THEN 0 ELSE @]
        /\ lvl' = [lvl EXCEPT ![f] = IF over THEN 0 ELSE @]
        /\ sel' = [sel EXCEPT ![f] = IF over THEN AnySelector ELSE @]

----------------------------------------------------------------------------
(* enqueueInternal, run by clients (add, prioritize, defer, enqueueAtLevel,  *)
(* enqueue), by workers (ctx.add, the retry of a failed item) and by the     *)
(* drain monitor (refill).                                                   *)

CallEnqueue(f, o, items, level, e) ==
    /\ GoTo(f, "enq")
    /\ op' = [op EXCEPT ![f] = o]
    /\ todo' = [todo EXCEPT ![f] = items]
    /\ lvl' = [lvl EXCEPT ![f] = level]
    /\ cur' = [cur EXCEPT ![f] = e]

EnqueueShutdownCheck(f) ==
    /\ At(f, "enq")
    /\ IF isShutdown
       THEN /\ Return(f, AfterEnqueue(f))
            /\ todo' = [todo EXCEPT ![f] = <<>>]
       ELSE /\ GoTo(f, "dedup")
            /\ UNCHANGED <<op, cur, lvl, sel, todo>>
    /\ UNCHANGED <<store, flags, counters, signals, scan, hand, kept, history>>

(* The InternalItem of the next item. A retry keeps its level and counts one *)
(* more retry; a re-injected entry keeps its level and its retries.          *)
Continues(f) == op[f] \in {"retry", "reinject"}
NewEntry(f) ==
    [item    |-> Head(todo[f]),
     level   |-> IF Continues(f) THEN entry[cur[f]].level ELSE lvl[f],
     retries |-> CASE op[f] = "retry"    -> entry[cur[f]].retries + 1
                   [] op[f] = "reinject" -> entry[cur[f]].retries
                   [] OTHER              -> 0,
     prev    |-> IF Continues(f) THEN cur[f] ELSE 0]

Mint(f) ==
    /\ entry' = Append(entry, NewEntry(f))
    /\ result' = Append(result, "live")
    /\ hand' = [hand EXCEPT ![f] = Append(@, Len(entry) + 1)]
    /\ todo' = [todo EXCEPT ![f] = Tail(@)]

(* What makeEffectContext filters out of a ctx enqueue.                      *)
IsSameItem(e, i) ==
    \/ i = entry[e].item
    \/ KeyOf[i] # NoKey /\ KeyOf[i] = KeyOfEntry(e)

(* Mutant: the dedup test looks at the queued entries only.                  *)
QueuedKey(k) == \E l \in Levels : k \in KeysOf(Range(lanes[l]))

Active(k) == k \in activeKeys

(* The dedup test reads activeKeys; the claim that follows it is a second    *)
(* operation on the Ref.                                                     *)
DedupCheck(f) ==
    /\ At(f, "dedup")
    /\ todo[f] # <<>>
    /\ LET k       == KeyOf[Head(todo[f])]
           ignored == op[f] = "ctx" /\ IsSameItem(cur[f], Head(todo[f]))
       IN
       \/ /\ ignored \/ Active(k)
          /\ todo' = [todo EXCEPT ![f] = Tail(@)]
          /\ UNCHANGED <<entry, result, hand, pc>>
       \/ /\ ~ignored /\ k = NoKey
          /\ Mint(f)
          /\ UNCHANGED pc
       \/ /\ ~ignored /\ k # NoKey /\ ~Active(k)
          /\ GoTo(f, "claim")
          /\ UNCHANGED <<entry, result, hand, todo>>
    /\ UNCHANGED <<lanes, activeKeys, flags, counters, signals, op, cur, scan,
                   lvl, sel, kept, completes, left>>

ClaimKey(f) ==
    /\ At(f, "claim")
    /\ activeKeys' = activeKeys \cup {KeyOf[Head(todo[f])]}
    /\ Mint(f)
    /\ GoTo(f, "dedup")
    /\ UNCHANGED <<lanes, flags, counters, signals, op, cur, scan, lvl, sel,
                   kept, completes, left>>

DedupDone(f) ==
    /\ At(f, "dedup")
    /\ todo[f] = <<>>
    /\ IF hand[f] = <<>>
       THEN Return(f, AfterEnqueue(f))
       ELSE GoTo(f, "offer") /\ UNCHANGED <<op, cur, lvl, sel>>
    /\ UNCHANGED <<store, flags, counters, signals, scan, todo, hand, kept,
                   history>>

(* Queue.offer on the lane; the fiber is suspended while the lane is full.   *)
Offer(f) ==
    /\ At(f, "offer")
    /\ LET e == Head(hand[f]) IN
       /\ HasRoom(LaneOf(e))
       /\ lanes' = [lanes EXCEPT ![LaneOf(e)] = Append(@, e)]
    /\ hand' = [hand EXCEPT ![f] = Tail(@)]
    /\ GoTo(f, IF Len(hand[f]) = 1 THEN "wake1" ELSE "offer")
    /\ UNCHANGED <<entry, activeKeys, flags, counters, signals, op, cur, scan,
                   todo, lvl, sel, kept, history>>

----------------------------------------------------------------------------
(* Wake signals: complete the current Deferred, then install a fresh one. A  *)
(* waiter holds the Deferred it read; one that is replaced before it is      *)
(* completed is never completed.                                             *)

Waits(f) == IF f = DrainMonitor THEN "drain" ELSE "worker"

Succeed(ch) ==
    /\ fired' = [fired EXCEPT ![ch] = TRUE]
    /\ waitOn' = [f \in Fibers |->
                    IF Waits(f) = ch /\ waitOn[f] = "current" THEN "fired"
                    ELSE waitOn[f]]

Replace(ch) ==
    /\ fired' = [fired EXCEPT ![ch] = FALSE]
    /\ waitOn' = [f \in Fibers |->
                    IF Waits(f) = ch /\ waitOn[f] = "current" THEN "orphaned"
                    ELSE waitOn[f]]

Capture(f) ==
    waitOn' = [waitOn EXCEPT ![f] =
                 IF fired[Waits(f)] THEN "fired" ELSE "current"]

SignalWorkerWake(f) ==
    \/ /\ At(f, "wake1")
       /\ Succeed("worker")
       /\ GoTo(f, "wake2")
       /\ UNCHANGED <<store, flags, counters, frame, history>>
    \/ /\ At(f, "wake2")
       /\ Replace("worker")
       /\ Return(f, AfterWorkerWake(f))
       /\ UNCHANGED <<store, flags, counters, scan, todo, hand, kept, history>>

SignalDrainWake(f) ==
    \/ /\ At(f, "drain1")
       /\ Succeed("drain")
       /\ GoTo(f, "drain2")
       /\ UNCHANGED <<store, flags, counters, frame, history>>
    \/ /\ At(f, "drain2")
       /\ Replace("drain")
       /\ Return(f, AfterDrainWake(f))
       /\ UNCHANGED <<store, flags, counters, scan, todo, hand, kept, history>>

(* wakeDrainedIfAllQueuesEmpty; a routed failure passes here twice.          *)
WakeDrainedIfEmpty(f) ==
    /\ At(f, "empty")
    /\ IF LanesEmpty
       THEN GoTo(f, "drain1") /\ UNCHANGED <<op, cur, lvl, sel>>
       ELSE Return(f, AfterDrainWake(f))
    /\ UNCHANGED <<store, flags, counters, signals, scan, todo, hand, kept,
                   history>>

(* finalizeShutdownIfDrained: the phase and the lanes are read first, then   *)
(* inFlightRef; the getAndSet decides which fiber publishes.                 *)
FinalizeRead(f) ==
    /\ At(f, "fin1")
    /\ IF phase = "draining" /\ LanesEmpty
       THEN GoTo(f, "fin2") /\ UNCHANGED <<op, cur, lvl, sel>>
       ELSE Return(f, AfterFinalize(f))
    /\ UNCHANGED <<store, flags, counters, signals, scan, todo, hand, kept,
                   history>>

(* Mutant: whoever finds the shutdown under way publishes.                   *)
PublishesAnyway(previous) == previous # "running"

PublishesComplete(previous) == previous = "draining"

FinalizeSet(f) ==
    /\ At(f, "fin2")
    /\ IF inFlight = 0
       THEN /\ phase' = "off"
            /\ completes' = completes + (IF PublishesComplete(phase) THEN 1 ELSE 0)
       ELSE UNCHANGED <<phase, completes>>
    /\ Return(f, AfterFinalize(f))
    /\ UNCHANGED <<store, latch, paused, isShutdown, workersStarted, counters,
                   signals, scan, todo, hand, kept, result, left>>

----------------------------------------------------------------------------
(* workerLoop and takeNext.                                                  *)

WorkerLoop(w) ==
    /\ At(w, "loop")
    /\ GoTo(w, IF isShutdown /\ ShutdownMode = "finishActive" THEN "exit"
               ELSE "latch1")
    /\ UNCHANGED <<store, flags, counters, signals, frame, history>>

(* latch.await, before and after takeNext. A suspended worker is moved on by *)
(* the step that opens the latch (OpenLatch), whatever happens to the latch  *)
(* afterwards.                                                               *)
AwaitLatch(w) ==
    /\ \/ At(w, "latch1") /\ GoTo(w, IF latch THEN "poll" ELSE "shut1")
       \/ At(w, "latch2") /\ GoTo(w, IF latch THEN "rate" ELSE "shut2")
    /\ UNCHANGED <<store, flags, counters, signals, frame, history>>

(* Mutant: the entry stays in the lane.                                      *)
PeekLane(w) ==
    /\ At(w, "poll")
    /\ lanes[scan[w]] # <<>>
    /\ cur' = [cur EXCEPT ![w] = Head(lanes[scan[w]])]
    /\ GoTo(w, "latch2")
    /\ UNCHANGED <<store, flags, counters, signals, op, scan, todo, lvl, sel,
                   hand, kept, history>>

(* laneStore.poll tries the lanes in index order, one Queue.poll at a time.  *)
PollLane(w) ==
    /\ At(w, "poll")
    /\ LET l == scan[w] IN
       \/ /\ lanes[l] # <<>>
          /\ lanes' = [lanes EXCEPT ![l] = Tail(@)]
          /\ cur' = [cur EXCEPT ![w] = Head(lanes[l])]
          /\ scan' = [scan EXCEPT ![w] = 0]
          /\ GoTo(w, "latch2")
       \/ /\ lanes[l] = <<>> /\ l + 1 \in Levels
          /\ scan' = [scan EXCEPT ![w] = l + 1]
          /\ UNCHANGED <<lanes, cur, pc>>
       \/ /\ lanes[l] = <<>> /\ l + 1 \notin Levels
          /\ scan' = [scan EXCEPT ![w] = 0]
          /\ GoTo(w, "check")
          /\ UNCHANGED <<lanes, cur>>
    /\ UNCHANGED <<entry, activeKeys, flags, counters, signals, op, todo, lvl,
                   sel, hand, kept, history>>

(* Nothing polled: leave on shutdown, else read the wake Deferred and await  *)
(* it.                                                                       *)
TakeNextEmpty(w) ==
    /\ At(w, "check")
    /\ IF isShutdown
       THEN GoTo(w, "exit") /\ UNCHANGED waitOn
       ELSE GoTo(w, "wait") /\ Capture(w)
    /\ UNCHANGED <<store, flags, counters, fired, frame, history>>

WorkerWoken(w) ==
    /\ At(w, "wait")
    /\ waitOn[w] = "fired"
    /\ waitOn' = [waitOn EXCEPT ![w] = "none"]
    /\ GoTo(w, "poll")
    /\ UNCHANGED <<store, flags, counters, fired, frame, history>>

----------------------------------------------------------------------------
(* processItem and processItemBody.                                          *)

RateLimitAwait(w) ==
    /\ At(w, "rate")
    /\ \/ GoTo(w, "start")
       \/ RateLimit = "fail" /\ GoTo(w, "skip")
    /\ UNCHANGED <<store, flags, counters, signals, frame, history>>

(* skipRateLimitedItem: the item is dropped and its key released.            *)
SkipRateLimitedItem(w) ==
    /\ At(w, "skip")
    /\ activeKeys' = activeKeys \ {KeyOfEntry(cur[w])}
    /\ result' = [result EXCEPT ![cur[w]] = "skipped"]
    /\ cur' = [cur EXCEPT ![w] = 0]
    /\ GoTo(w, "fin1")
    /\ UNCHANGED <<lanes, entry, flags, counters, signals, op, scan, todo, lvl,
                   sel, hand, kept, completes, left>>

StartItem(w) ==
    /\ At(w, "start")
    /\ permits > 0
    /\ permits' = permits - 1
    /\ inFlight' = inFlight + 1
    /\ GoTo(w, "run")
    /\ UNCHANGED <<store, flags, completed, signals, frame, history>>

(* makeEffectContext: the running effect enqueues. Its own item, or one with *)
(* its key, is left out, when its turn comes in DedupCheck.                  *)
CtxEnqueue(w) ==
    /\ At(w, "run")
    /\ Spend("ctx")
    /\ \E items \in Batches, level \in AddLevels :
         /\ \E i \in Range(items) : ~IsSameItem(cur[w], i)
         /\ CallEnqueue(w, "ctx", items, level, cur[w])
    /\ UNCHANGED <<store, flags, counters, signals, scan, sel, hand, kept,
                   result, completes>>

EffectExits(w) ==
    /\ At(w, "run")
    /\ \/ op' = [op EXCEPT ![w] = "ok"] /\ UNCHANGED left
       \/ op' = [op EXCEPT ![w] = "fail"] /\ Spend("failure")
    /\ completed' = completed + 1
    /\ GoTo(w, "unkey")
    /\ UNCHANGED <<store, flags, inFlight, permits, signals, cur, scan, todo,
                   lvl, sel, hand, kept, result, completes>>

(* Mutant: a failed item keeps its key.                                      *)
KeepKeyOfFailed(w) ==
    /\ At(w, "unkey")
    /\ activeKeys' = activeKeys \ (IF op[w] = "ok" THEN {KeyOfEntry(cur[w])} ELSE {})
    /\ GoTo(w, "settle")
    /\ UNCHANGED <<lanes, entry, flags, counters, signals, frame, history>>

ReleaseKey(w) ==
    /\ At(w, "unkey")
    /\ activeKeys' = activeKeys \ {KeyOfEntry(cur[w])}
    /\ GoTo(w, "settle")
    /\ UNCHANGED <<lanes, entry, flags, counters, signals, frame, history>>

(* Mutant: only a success decrements.                                        *)
OnSuccessLeft(w) == IF op[w] = "ok" /\ inFlight > 0 THEN inFlight - 1 ELSE inFlight

InFlightLeft(w) == IF inFlight > 0 THEN inFlight - 1 ELSE 0

(* Exit / Completed / Failed are published and inFlightRef is decremented.   *)
SettleItem(w) ==
    /\ At(w, "settle")
    /\ inFlight' = InFlightLeft(w)
    /\ IF op[w] = "ok"
       THEN /\ result' = [result EXCEPT ![cur[w]] = "ok"]
            /\ op' = [op EXCEPT ![w] = "none"]
            /\ GoTo(w, "empty")
       ELSE GoTo(w, "dispose") /\ UNCHANGED <<result, op>>
    /\ UNCHANGED <<store, flags, permits, completed, signals, cur, scan, todo,
                   lvl, sel, hand, kept, completes, left>>

(* Mutant: off by one.                                                       *)
RetryOnceMore(e) == entry[e].retries <= MaxRetries

RetryAllowed(e) == entry[e].retries < MaxRetries

(* The failure disposition; retryInternal up to its re-enqueue.              *)
DisposeFailure(w) ==
    /\ At(w, "dispose")
    /\ \E d \in Dispositions :
         LET retries == d = "retry" \/ (d = "default" /\ AutoReEnqueue)
             again   == retries /\ RetryAllowed(cur[w])
             routes  == d \in {"deadLetter", "drop"}
         IN  /\ result' = [result EXCEPT ![cur[w]] =
                             IF again THEN "retried"
                             ELSE IF retries THEN "exhausted"
                             ELSE IF routes THEN "routed" ELSE "failed"]
             /\ op' = [op EXCEPT ![w] = IF again THEN "retry"
                                        ELSE IF routes THEN "route" ELSE "none"]
             /\ GoTo(w, IF again THEN "requeue" ELSE "empty")
    /\ UNCHANGED <<store, flags, counters, signals, cur, scan, todo, lvl, sel,
                   hand, kept, completes, left>>

(* Mutant: the retry is announced and not enqueued.                          *)
RetryForgotten(w) ==
    /\ At(w, "requeue")
    /\ activeKeys' = activeKeys \ {KeyOfEntry(cur[w])}
    /\ GoTo(w, "empty")
    /\ op' = [op EXCEPT ![w] = "none"]
    /\ UNCHANGED <<lanes, entry, flags, counters, signals, cur, scan, todo, lvl,
                   sel, hand, kept, history>>

RetryRelease(w) ==
    /\ At(w, "requeue")
    /\ activeKeys' = activeKeys \ {KeyOfEntry(cur[w])}
    /\ CallEnqueue(w, "retry", <<entry[cur[w]].item>>, 0, cur[w])
    /\ UNCHANGED <<lanes, entry, flags, counters, signals, scan, sel, hand,
                   kept, history>>

ReleasePermit(w) ==
    /\ At(w, "permit")
    /\ permits' = permits + 1
    /\ cur' = [cur EXCEPT ![w] = 0]
    /\ GoTo(w, "fin1")
    /\ UNCHANGED <<store, flags, inFlight, completed, signals, op, scan, todo,
                   lvl, sel, hand, kept, history>>

Worker(w) ==
    \/ WorkerLoop(w) \/ AwaitLatch(w) \/ PollLane(w) \/ TakeNextEmpty(w)
    \/ WorkerWoken(w) \/ RateLimitAwait(w) \/ SkipRateLimitedItem(w)
    \/ StartItem(w) \/ CtxEnqueue(w) \/ EffectExits(w) \/ ReleaseKey(w)
    \/ SettleItem(w) \/ DisposeFailure(w) \/ RetryRelease(w)
    \/ ReleasePermit(w)

----------------------------------------------------------------------------
(* The drain monitor, with refill.onDrained. Budget["refill"] is the number  *)
(* of batches the source still has.                                          *)

MonitorLoop ==
    /\ At(DrainMonitor, "loop")
    /\ Capture(DrainMonitor)
    /\ GoTo(DrainMonitor, "wait")
    /\ UNCHANGED <<store, flags, counters, fired, frame, history>>

MonitorWoken ==
    /\ At(DrainMonitor, "wait")
    /\ waitOn[DrainMonitor] = "fired"
    /\ waitOn' = [waitOn EXCEPT ![DrainMonitor] = "none"]
    /\ GoTo(DrainMonitor, "check")
    /\ UNCHANGED <<store, flags, counters, fired, frame, history>>

MonitorCheck ==
    /\ \/ /\ At(DrainMonitor, "check")
          /\ GoTo(DrainMonitor, IF isShutdown THEN "exit" ELSE "isEmpty")
       \/ /\ At(DrainMonitor, "isEmpty")
          /\ GoTo(DrainMonitor, IF LanesEmpty /\ left["refill"] > 0 THEN "load"
                                ELSE "loop")
       \/ /\ At(DrainMonitor, "loaded")
          /\ GoTo(DrainMonitor, "loop")
    /\ UNCHANGED <<store, flags, counters, signals, frame, history>>

(* runRefill: load adds the next batch of the source through the handle.     *)
MonitorLoad ==
    /\ At(DrainMonitor, "load")
    /\ Spend("refill")
    /\ \E items \in Batches, level \in AddLevels :
         CallEnqueue(DrainMonitor, "refill", items, level, 0)
    /\ UNCHANGED <<store, flags, counters, signals, scan, sel, hand, kept,
                   result, completes>>

Monitor == MonitorLoop \/ MonitorWoken \/ MonitorCheck \/ MonitorLoad

----------------------------------------------------------------------------
(* The public handle.                                                        *)

(* A call with its arguments; extractions start at the first lane.           *)
Call(c, o, label, s) ==
    /\ At(c, "idle")
    /\ Spend(o)
    /\ GoTo(c, label)
    /\ op' = [op EXCEPT ![c] = IF label = "idle" THEN "none" ELSE o]
    /\ sel' = [sel EXCEPT ![c] = s]
    /\ UNCHANGED <<store, counters, signals, cur, scan, todo, lvl, hand, kept,
                   result, completes>>

(* add, prioritize, defer, enqueueAtLevel.                                   *)
CallAdd(c) ==
    /\ At(c, "idle")
    /\ Spend("add")
    /\ \E items \in Batches, level \in AddLevels :
         CallEnqueue(c, "add", items, level, 0)
    /\ UNCHANGED <<store, flags, counters, signals, scan, sel, hand, kept,
                   result, completes>>

(* enqueueEntries: one released entry comes back, with its level and         *)
(* attempts; a client re-injects an entry once.                              *)
CallEnqueueEntry(c) ==
    /\ At(c, "idle")
    /\ Spend("reinject")
    /\ \E e \in EntryIds :
         /\ result[e] = "released"
         /\ CallEnqueue(c, "reinject", <<entry[e].item>>, 0, e)
         /\ result' = [result EXCEPT ![e] = "reinjected"]
    /\ UNCHANGED <<store, flags, counters, signals, scan, sel, hand, kept,
                   completes>>

(* Mutant: pause leaves the latch open.                                      *)
PauseFlagOnly(c) == Call(c, "pause", "setPaused", AnySelector) /\ UNCHANGED flags

(* pause closes the latch, then sets pausedRef.                              *)
CallPause(c) ==
    /\ Call(c, "pause", "setPaused", AnySelector)
    /\ latch' = FALSE
    /\ UNCHANGED <<paused, phase, isShutdown, workersStarted>>

(* Mutant: suspended workers are not let go.                                 *)
OpenLatchOnly(c, label) == latch' = TRUE /\ GoTo(c, label)

(* latch.open lets every suspended worker go.                                *)
OpenLatch(c, label) ==
    /\ latch' = TRUE
    /\ pc' = [f \in Fibers |-> IF f = c THEN label
                               ELSE IF pc[f] = "shut1" THEN "poll"
                               ELSE IF pc[f] = "shut2" THEN "rate"
                               ELSE pc[f]]

(* Mutant: resume takes a shutdown back.                                     *)
ResumeReopens(c) ==
    /\ At(c, "idle")
    /\ Spend("resume")
    /\ OpenLatch(c, "setResumed")
    /\ op' = [op EXCEPT ![c] = "resume"]
    /\ phase' = "running"
    /\ UNCHANGED <<store, paused, isShutdown, workersStarted, counters, signals,
                   cur, scan, todo, lvl, sel, hand, kept, result, completes>>

CallResume(c) ==
    /\ At(c, "idle")
    /\ Spend("resume")
    /\ OpenLatch(c, "setResumed")
    /\ op' = [op EXCEPT ![c] = "resume"]
    /\ UNCHANGED <<store, paused, phase, isShutdown, workersStarted, counters,
                   signals, cur, scan, todo, lvl, sel, hand, kept, result,
                   completes>>

SetPaused(c) ==
    /\ \/ At(c, "setPaused") /\ paused' = TRUE /\ Return(c, "idle")
       \/ At(c, "setResumed") /\ paused' = FALSE /\ Return(c, "idle")
       \/ At(c, "unpause") /\ paused' = FALSE /\ Return(c, "wake1")
    /\ UNCHANGED <<store, latch, phase, isShutdown, workersStarted, counters,
                   signals, scan, todo, hand, kept, history>>

(* shutdown: getAndSet of the phase; only a call that finds "running" goes   *)
(* on.                                                                       *)
PhaseOnShutdown == "draining"

CallShutdown(c) ==
    /\ Call(c, "shutdown", IF phase = "running" THEN "setShutdown" ELSE "idle",
            AnySelector)
    /\ phase' = PhaseOnShutdown
    /\ UNCHANGED <<latch, paused, isShutdown, workersStarted>>

SetShutdown(c) ==
    /\ At(c, "setShutdown")
    /\ isShutdown' = TRUE
    /\ GoTo(c, IF ShutdownMode = "finishActive" THEN "drain" ELSE "wind")
    /\ UNCHANGED <<store, latch, paused, phase, workersStarted, counters,
                   signals, frame, history>>

DrainModeOpensLatch(c) ==
    /\ At(c, "wind")
    /\ OpenLatch(c, "unpause")
    /\ UNCHANGED <<store, paused, phase, isShutdown, workersStarted, counters,
                   signals, frame, history>>

(* clear, release, releaseEncoded and deadLetter / drop start by extracting. *)
CallExtract(c) ==
    /\ \/ \E o \in {"clear", "release", "releaseEncoded"} :
            Call(c, o, "drain", AnySelector)
       \/ \E s \in [by : {"entryId"}, v : EntryIds] \cup [by : {"item"}, v : Items]
                     \cup [by : {"key"}, v : Keys] :
            Call(c, "route", "drain", s)
    /\ UNCHANGED flags

(* drain / extractMatching: poll a lane until it is empty, put back what did *)
(* not match, go to the next lane.                                           *)
NextLane(c) ==
    IF scan[c] + 1 \in Levels
    THEN scan' = [scan EXCEPT ![c] = @ + 1] /\ GoTo(c, "drain")
    ELSE scan' = [scan EXCEPT ![c] = 0] /\ GoTo(c, "keys")

DrainLane(c) ==
    /\ At(c, "drain")
    /\ LET l == scan[c] IN
       \/ /\ lanes[l] # <<>>
          /\ lanes' = [lanes EXCEPT ![l] = Tail(@)]
          /\ IF Matches(Head(lanes[l]), sel[c])
             THEN /\ hand' = [hand EXCEPT ![c] = Append(@, Head(lanes[l]))]
                  /\ UNCHANGED kept
             ELSE /\ kept' = [kept EXCEPT ![c] = Append(@, Head(lanes[l]))]
                  /\ UNCHANGED hand
          /\ UNCHANGED <<scan, pc>>
       \/ /\ lanes[l] = <<>> /\ kept[c] # <<>>
          /\ GoTo(c, "putback")
          /\ UNCHANGED <<lanes, hand, kept, scan>>
       \/ /\ lanes[l] = <<>> /\ kept[c] = <<>>
          /\ NextLane(c)
          /\ UNCHANGED <<lanes, hand, kept>>
    /\ UNCHANGED <<entry, activeKeys, flags, counters, signals, op, cur, todo,
                   lvl, sel, history>>

PutBack(c) ==
    /\ At(c, "putback")
    /\ HasRoom(scan[c])
    /\ lanes' = [lanes EXCEPT ![scan[c]] = Append(@, Head(kept[c]))]
    /\ kept' = [kept EXCEPT ![c] = Tail(@)]
    /\ IF Len(kept[c]) = 1 THEN NextLane(c) ELSE UNCHANGED <<scan, pc>>
    /\ UNCHANGED <<entry, activeKeys, flags, counters, signals, op, cur, todo,
                   lvl, sel, hand, history>>

(* Mutant: a routed entry is not accounted for.                              *)
SettledAsLive(o) ==
    CASE o = "clear" -> "cleared" [] o = "release" -> "released"
      [] o = "route" -> "live"    [] o = "shutdown" -> "discarded"

(* The keys of what was extracted are released; except for releaseEncoded,   *)
(* that settles the entries (cleared, released, routed, discarded).          *)
SettledAs(o) ==
    CASE o = "clear"    -> "cleared"
      [] o = "release"  -> "released"
      [] o = "route"    -> "routed"
      [] o = "shutdown" -> "discarded"
AfterKeys(o) ==
    CASE o = "clear"    -> "zero"
      [] o = "shutdown" -> "wake1"
      [] OTHER          -> "empty"

ReleaseKeys(c) ==
    /\ At(c, "keys")
    /\ activeKeys' = activeKeys \ KeysOf(Range(hand[c]))
    /\ IF op[c] = "releaseEncoded"
       THEN GoTo(c, "encode") /\ UNCHANGED <<hand, result>>
       ELSE /\ result' = MarkAll(Range(hand[c]), SettledAs(op[c]))
            /\ hand' = [hand EXCEPT ![c] = <<>>]
            /\ GoTo(c, AfterKeys(op[c]))
    /\ UNCHANGED <<lanes, entry, flags, counters, signals, op, cur, scan, todo,
                   lvl, sel, kept, completes, left>>

(* clear resets the completed counter.                                       *)
ResetCompleted(c) ==
    /\ At(c, "zero")
    /\ completed' = 0
    /\ GoTo(c, "empty")
    /\ UNCHANGED <<store, flags, inFlight, permits, signals, frame, history>>

(* releaseEncodedPending: either every entry encodes, or the entries are     *)
(* restored one by one: the offer first, then the key.                       *)
EncodeReleased(c) ==
    /\ At(c, "encode")
    /\ \/ /\ result' = MarkAll(Range(hand[c]), "released")
          /\ hand' = [hand EXCEPT ![c] = <<>>]
          /\ GoTo(c, "empty")
          /\ UNCHANGED left
       \/ /\ hand[c] # <<>>
          /\ Spend("encodeError")
          /\ GoTo(c, "restore")
          /\ UNCHANGED <<result, hand>>
    /\ UNCHANGED <<store, flags, counters, signals, op, cur, scan, todo, lvl,
                   sel, kept, completes>>

RestorePending(c) ==
    /\ At(c, "restore")
    /\ LET e == Head(hand[c]) IN
       /\ HasRoom(LaneOf(e))
       /\ lanes' = [lanes EXCEPT ![LaneOf(e)] = Append(@, e)]
       /\ cur' = [cur EXCEPT ![c] = e]
    /\ hand' = [hand EXCEPT ![c] = Tail(@)]
    /\ GoTo(c, "rekey")
    /\ UNCHANGED <<entry, activeKeys, flags, counters, signals, op, scan, todo,
                   lvl, sel, kept, history>>

RestoreActiveKey(c) ==
    /\ At(c, "rekey")
    /\ activeKeys' = activeKeys \cup KeysOf({cur[c]})
    /\ GoTo(c, IF hand[c] = <<>> THEN "wake1" ELSE "restore")
    /\ UNCHANGED <<lanes, entry, flags, counters, signals, frame, history>>

(* start: ignored after shutdown; the Ref.modify lets one call fork.         *)
CallStart(c) ==
    /\ Call(c, "start", IF isShutdown THEN "idle" ELSE "claimStart", AnySelector)
    /\ UNCHANGED flags

ForkWorkers == [f \in Fibers |-> IF f \in Clients THEN pc[f] ELSE "loop"]

ForkProcessingFibers(c) ==
    /\ At(c, "claimStart")
    /\ workersStarted' = TRUE
    /\ pc' = [IF workersStarted THEN pc ELSE ForkWorkers EXCEPT ![c] = "idle"]
    /\ op' = [op EXCEPT ![c] = "none"]
    /\ UNCHANGED <<store, latch, paused, phase, isShutdown, counters, signals,
                   cur, scan, todo, lvl, sel, hand, kept, history>>

(* The caller of a handle operation is interrupted (a timeout, a lost race): *)
(* what it held is gone.                                                     *)
InterruptCall(c) ==
    /\ ~At(c, "idle")
    /\ Spend("interrupt")
    /\ Return(c, "idle")
    /\ result' = MarkAll(Range(hand[c]) \cup Range(kept[c]), "lost")
    /\ todo' = [todo EXCEPT ![c] = <<>>]
    /\ hand' = [hand EXCEPT ![c] = <<>>]
    /\ kept' = [kept EXCEPT ![c] = <<>>]
    /\ scan' = [scan EXCEPT ![c] = 0]
    /\ UNCHANGED <<store, flags, counters, signals, completes>>

ClientCall(c) ==
    \/ CallAdd(c) \/ CallEnqueueEntry(c) \/ CallPause(c) \/ CallResume(c)
    \/ CallShutdown(c) \/ CallExtract(c) \/ CallStart(c) \/ InterruptCall(c)

ClientStep(c) ==
    \/ SetPaused(c) \/ SetShutdown(c) \/ DrainModeOpensLatch(c)
    \/ DrainLane(c) \/ PutBack(c) \/ ReleaseKeys(c) \/ ResetCompleted(c)
    \/ EncodeReleased(c) \/ RestorePending(c) \/ RestoreActiveKey(c)
    \/ ForkProcessingFibers(c)

(* The subroutines every fiber shares.                                       *)
Subroutine(f) ==
    \/ EnqueueShutdownCheck(f) \/ DedupCheck(f) \/ ClaimKey(f) \/ DedupDone(f)
    \/ Offer(f) \/ SignalWorkerWake(f) \/ SignalDrainWake(f)
    \/ WakeDrainedIfEmpty(f) \/ FinalizeRead(f) \/ FinalizeSet(f)

(* Everybody rests: only a new call could change anything. A client that     *)
(* waits for room in a full lane rests too; a worker that does, does not.    *)
AwaitsRoom(c) ==
    \/ pc[c] = "offer" /\ ~HasRoom(LaneOf(Head(hand[c])))
    \/ pc[c] = "restore" /\ ~HasRoom(LaneOf(Head(hand[c])))
    \/ pc[c] = "putback" /\ ~HasRoom(scan[c])

Quiescent ==
    /\ \A c \in Clients : pc[c] = "idle" \/ AwaitsRoom(c)
    /\ \A w \in Workers : \/ pc[w] \in {"off", "exit", "shut1", "shut2"}
                          \/ pc[w] = "wait" /\ waitOn[w] # "fired"
    /\ \/ pc[DrainMonitor] \in {"off", "exit"}
       \/ pc[DrainMonitor] = "wait" /\ waitOn[DrainMonitor] # "fired"
AtRest == Quiescent /\ UNCHANGED vars

Step(f) ==
    \/ f \in Workers /\ Worker(f)
    \/ f \in Clients /\ ClientStep(f)
    \/ f = DrainMonitor /\ Monitor
    \/ Subroutine(f)

Next ==
    \/ \E w \in Workers : Worker(w)
    \/ \E c \in Clients : ClientCall(c) \/ ClientStep(c)
    \/ Monitor
    \/ \E f \in Fibers : Subroutine(f)
    \/ AtRest

Spec == Init /\ [][Next]_vars

(* The scheduler runs every fiber that can go on; nobody has to call.        *)
Fairness == \A f \in Fibers : WF_vars(Step(f))

----------------------------------------------------------------------------
(* Properties.                                                               *)

(* Where an entry can be.                                                    *)
Enqueuing(f, o) == op[f] = o /\ pc[f] \in EnqueueLabels
Holds(w) ==
    \/ pc[w] \in {"latch2", "shut2", "rate", "skip", "start", "run", "unkey",
                  "settle", "dispose"}
    \/ Enqueuing(w, "ctx")
InBody(w) == pc[w] \in {"run", "unkey", "settle"} \/ Enqueuing(w, "ctx")
HasPermit(w) ==
    \/ InBody(w)
    \/ pc[w] \in {"dispose", "requeue", "empty", "drain1", "drain2", "permit"}
    \/ Enqueuing(w, "retry")

(* What every step relies on.                                                *)
LabelsOf(f) ==
    IF f \in Workers THEN WorkerLabels
    ELSE IF f \in Clients THEN ClientLabels ELSE MonitorLabels
ExtractOps == {"clear", "release", "releaseEncoded", "route", "shutdown"}

WorksOnEntry(f) ==
    \/ f \in Workers /\ (Holds(f) \/ HasPermit(f))
    \/ Enqueuing(f, "reinject")
    \/ pc[f] = "rekey"

FrameOK(f) ==
    /\ pc[f] \in LabelsOf(f)
    /\ pc[f] = "claim" => todo[f] # <<>> /\ KeyOf[Head(todo[f])] # NoKey
    /\ pc[f] \in {"offer", "restore"} => hand[f] # <<>>
    /\ pc[f] = "putback" => kept[f] # <<>>
    /\ pc[f] \in {"setShutdown", "wind", "unpause"} => op[f] = "shutdown"
    /\ pc[f] \in {"drain", "putback", "keys"} => op[f] \in ExtractOps
    /\ f \in Workers /\ pc[f] \in EnqueueLabels => op[f] \in {"ctx", "retry"}
    /\ f \notin Workers => op[f] # "retry"
    /\ WorksOnEntry(f) => cur[f] \in EntryIds

StoreOK == entry \in Seq(EntryRecords) /\ activeKeys \subseteq Keys
FlagsOK ==
    /\ latch \in BOOLEAN /\ paused \in BOOLEAN /\ phase \in Phases
    /\ isShutdown \in BOOLEAN /\ workersStarted \in BOOLEAN
CountersOK == inFlight \in Nat /\ permits \in Nat /\ completed \in Nat
SignalsOK ==
    /\ fired \in [Channels -> BOOLEAN]
    /\ waitOn \in [Fibers -> WaitStates]
FramesOK ==
    /\ pc \in [Fibers -> Labels]
    /\ op \in [Fibers -> Ops]
    /\ cur \in [Fibers -> Nat]
    /\ scan \in [Fibers -> Levels]
    /\ todo \in [Fibers -> Seq(Items)]
    /\ lvl \in [Fibers -> Int]
    /\ sel \in [Fibers -> Selectors]
PlacesOK ==
    /\ lanes \in [Levels -> Seq(EntryIds)]
    /\ hand \in [Fibers -> Seq(EntryIds)]
    /\ kept \in [Fibers -> Seq(EntryIds)]
HistoryOK ==
    /\ result \in Seq(Results) /\ Len(result) = Len(entry)
    /\ completes \in Nat
    /\ left \in [OpNames -> Nat]

(* Types, and the frame conditions of every fiber: a fiber that offers or    *)
(* restores has an entry to offer, one that puts back has kept one, and a    *)
(* fiber that works on an entry works on one that exists.                    *)
TypeOK ==
    /\ StoreOK /\ FlagsOK /\ CountersOK /\ SignalsOK /\ FramesOK /\ PlacesOK
    /\ HistoryOK
    /\ \A f \in Fibers : FrameOK(f)

Copies(e) ==
    LET In(q) == {x \in UNION {{p} \X DOMAIN q[p] : p \in DOMAIN q} :
                    q[x[1]][x[2]] = e}
    IN  Cardinality(In(lanes)) + Cardinality(In(hand)) + Cardinality(In(kept))
        + Cardinality({w \in Workers : Holds(w) /\ cur[w] = e})

(* Every entry that has been minted and not ended is in exactly one place (a *)
(* lane, the hands of one fiber, or under one worker), and an ended entry is *)
(* nowhere: polling, draining, putting back, restoring and interrupting the  *)
(* caller never copy an entry and never lose track of one.                   *)
ExactlyOnePlace ==
    \A e \in EntryIds : Copies(e) = IF result[e] = "live" THEN 1 ELSE 0

(* inFlightRef counts exactly the workers between StartItem and SettleItem   *)
(* (so Math.max(0, n - 1) never hides a miscount), and the semaphore's free  *)
(* permits account for every worker inside withPermits.                      *)
InFlightAccounting ==
    /\ inFlight = Cardinality({w \in Workers : InBody(w)})
    /\ permits = Cardinality(Workers) - Cardinality({w \in Workers : HasPermit(w)})

(* The attempts budget: an entry that continues another one continues an     *)
(* entry that was retried or re-injected, alone, with the same item and      *)
(* level, and only a retry consumes an attempt. No chain outruns MaxRetries. *)
AttemptChain ==
    /\ \A e \in EntryIds : entry[e].retries <= MaxRetries
    /\ \A e \in EntryIds : entry[e].prev # 0 =>
         LET p == entry[e].prev IN
         /\ p < e
         /\ result[p] \in {"retried", "reinjected"}
         /\ entry[e].item = entry[p].item /\ entry[e].level = entry[p].level
         /\ entry[e].retries = entry[p].retries
                                 + (IF result[p] = "retried" THEN 1 ELSE 0)
    /\ \A e, g \in EntryIds : e # g /\ entry[e].prev # 0
                                => entry[e].prev # entry[g].prev

(* The key of an entry belongs to it from the claim until its release.       *)
OwnsKey(e) ==
    \/ \E l \in Levels : e \in Range(lanes[l])
    \/ \E f \in Fibers : /\ e \in Range(hand[f]) \cup Range(kept[f])
                         /\ pc[f] \notin {"encode", "restore", "rekey"}
    \/ \E w \in Workers : /\ Holds(w) /\ cur[w] = e
                          /\ pc[w] \notin {"settle", "dispose"}

(* No key outlives its entry: a key in activeKeys is the key of an entry     *)
(* that is enqueued or processing. A leaked key would make every later add   *)
(* of that key be dropped silently, for ever. Two things may leave one: a     *)
(* caller interrupted in an add, and a releaseEncoded that fails: it restores *)
(* an entry before its key, and the entry may have run by then.              *)
NoKeyLeak ==
    (\A o \in {"interrupt", "encodeError"} : left[o] = Budget[o])
    => \A k \in activeKeys : \E e \in EntryIds : OwnsKey(e) /\ KeyOfEntry(e) = k

(* Deduplication: two different entries with the same key are never enqueued *)
(* or processing at the same time.                                           *)
DedupExclusive ==
    \A e, g \in EntryIds :
        e # g /\ OwnsKey(e) /\ OwnsKey(g) /\ KeyOfEntry(e) # NoKey
            => KeyOfEntry(e) # KeyOfEntry(g)

(* The phase only moves running -> draining -> off.                          *)
PhaseRank(p) == CASE p = "running" -> 0 [] p = "draining" -> 1 [] p = "off" -> 2
PhaseForward == [][PhaseRank(phase') >= PhaseRank(phase)]_vars

(* ShutdownComplete is published at most once, however many fibers finalize. *)
ShutdownCompleteOnce == completes <= 1

(* With one client issuing the control calls, pausedRef agrees with the      *)
(* latch whenever no call is under way: status.paused tells the truth.       *)
PausedMatchesLatch == (\A c \in Clients : pc[c] = "idle") => paused = ~latch

(* An entry is queued, pulled out, taken, running or ended.                  *)
StatusOf(e) ==
    CASE result[e] # "live" -> "ended"
      [] \E l \in Levels : e \in Range(lanes[l]) -> "queued"
      [] \E w \in Workers : Holds(w) /\ cur[w] = e ->
           IF \E w \in Workers : cur[w] = e /\ HasPermit(w) THEN "running"
           ELSE "taken"
      [] \E f \in Fibers : e \in Range(hand[f]) /\ pc[f] \in {"dedup", "claim", "offer"} -> "offering"
      [] OTHER -> "pulled"

Lifecycle == INSTANCE EntryLifecycle WITH status <- [e \in EntryIds |-> StatusOf(e)]

(* The engine implements the life cycle of an entry: no entry runs twice,    *)
(* runs without having been queued and taken, or is queued again once a      *)
(* worker has taken it.                                                      *)
FollowsLifecycle == Lifecycle!Spec

Settled == \A e \in EntryIds : result[e] # "live"

(* A queue that is filled while paused and then resumed ends every entry.    *)
BacklogSettles == latch ~> Settled

(* A shutdown ends every entry and reaches "off".                            *)
ShutdownSettles == isShutdown ~> (Settled /\ phase = "off")

(* A retry that was announced reaches a lane, unless a shutdown rejects it.  *)
RetryPending(e) ==
    /\ result[e] = "retried"
    /\ \A g \in EntryIds : entry[g].prev = e => StatusOf(g) = "offering"
RetryFollows == []<>(isShutdown \/ \A e \in EntryIds : ~RetryPending(e))
=============================================================================
