---------------------------- MODULE DurableQueue ----------------------------
(* A queue with a durable store: the SQLite table                            *)
(* (src/src/storage/sqlite/durableQueue.ts), every operation of which is one   *)
(* transaction, and the persist mode of the engine                           *)
(* (src/src/internal/queueResource.ts): add persists, a feeder leases rows    *)
(* into the lanes, the workers run them and acknowledge or fail their rows,   *)
(* and an engine that starts takes back what a dead one had leased.           *)
(*                                                                           *)
(* The table outlives the engine; lanes, fibers and the counter of ids do     *)
(* not. A fiber that finds no work in the lanes polls them here; how it waits *)
(* and is woken, pause and the drain monitor are in QueueEngine.              *)
EXTENDS Integers, Sequences, FiniteSets, FiniteSetsExt

CONSTANTS
    Workers,      \* the worker fibers
    Clients,      \* the callers of the handle
    Feeder,       \* the feeder fiber
    Levels,       \* the lanes, 0 is taken first; the ranks of the store
    Capacity,     \* what a lane holds
    Attempts,     \* config.attempts (0: not set)
    AutoReEnqueue, \* config.attempts or config.retries is set
    Dispositions, \* what onFailure may answer
    ShutdownMode, \* "drain" or "finishActive"
    KeyOf,        \* the dedup key of each entry added, in order
    NoKey,        \* no key
    Budget        \* how often each event of Events happens (bound)

Events == {"add", "clear", "extract", "encodeError", "shutdown", "failure", "skip",
           "poison", "fault", "expire", "crash"}

\* An entry is known by the number of the add that made it, a row by its id.
Works == 1 .. Budget["add"]
RowIds == 1 .. Budget["add"]
Fibers == Workers \cup Clients \cup {Feeder}

ASSUME DurableAssumption ==
    /\ IsFiniteSet(Workers \cup Clients)
    /\ Feeder \notin Workers \cup Clients /\ Workers \cap Clients = {}
    /\ Levels # {} /\ Levels \subseteq Nat /\ Capacity \in Nat \ {0}
    /\ Attempts \in Nat /\ AutoReEnqueue \in BOOLEAN
    /\ Attempts > 0 => AutoReEnqueue
    /\ Dispositions \subseteq {"default", "retry", "deadLetter", "drop"}
    /\ Dispositions # {}
    /\ ShutdownMode \in {"drain", "finishActive"}
    /\ Budget \in [Events -> Nat]
    /\ DOMAIN KeyOf = Works

VARIABLES
    rows,       \* the table: what the row of each id holds
    lanes,      \* the lane store: the copies queued in each lane
    fib,        \* where each fiber is, and what it holds
    boot,       \* the engine: "new", "recovering", or "up" (workers forked)
    entrySeq,   \* the last id the engine made
    isShutdown, phase, inFlight,
    left,       \* events left of Budget
    accepted,   \* history: entries the store was asked to keep
    stored,     \* history: entries that got a row
    ended,      \* history: entries that are done with, or were handed out
    abandoned,  \* history: entries whose copy went away, lease unsettled
    begun,      \* history: how often the effect began on an entry
    failed      \* history: how often it failed

engine == <<boot, entrySeq, isShutdown, phase, inFlight>>
asked  == <<accepted, stored>>
runs   == <<begun, failed>>
vars   == <<rows, lanes, fib, engine, left, asked, ended, abandoned, runs>>

NoRow == [status |-> "none", work |-> 0, key |-> NoKey, rank |-> 0, seq |-> 0,
          attempts |-> 0, lease |-> "free"]
NoCopy == [id |-> 0, work |-> 0, level |-> 0]
FirstPc(f) == IF f = Feeder THEN "feed" ELSE IF f \in Workers THEN "loop" ELSE "idle"
AtStart == [f \in Fibers |-> [pc |-> FirstPc(f), copy |-> NoCopy, taken |-> {}]]

Init ==
    /\ rows = [i \in RowIds |-> NoRow]
    /\ lanes = [l \in Levels |-> <<>>]
    /\ fib = AtStart
    /\ boot = "new" /\ entrySeq = 0
    /\ isShutdown = FALSE /\ phase = "running" /\ inFlight = 0
    /\ left = Budget
    /\ accepted = {} /\ stored = {} /\ ended = {} /\ abandoned = {}
    /\ begun = [w \in Works |-> 0] /\ failed = [w \in Works |-> 0]

At(f, pc) == fib[f].pc = pc
GoTo(f, pc) == fib' = [fib EXCEPT ![f].pc = pc]
DropsCopy(f, pc) == fib' = [fib EXCEPT ![f].pc = pc, ![f].copy = NoCopy]
Spend(e) == left[e] > 0 /\ left' = [left EXCEPT ![e] = @ - 1]
Used(e) == Budget[e] - left[e]

----------------------------------------------------------------------------
(* The table.                                                                *)

MaxAttempts == Attempts + 1
Pending == {i \in RowIds : rows[i].status = "pending"}
Available == {i \in Pending : rows[i].lease # "held"}
WorksOf(ids) == {rows[i].work : i \in ids}
WorksInLanes == UNION {{lanes[l][n].work : n \in DOMAIN lanes[l]} : l \in Levels}
Before(r, s) == r.rank < s.rank \/ (r.rank = s.rank /\ r.seq < s.seq)
IsTop(i) == i \in Available /\ \A j \in Available \ {i} : Before(rows[i], rows[j])

(* One more than the largest of the whole table.                             *)
NextSeq == 1 + Max({0} \cup {rows[i].seq : i \in RowIds})

LiveWith(k) == {i \in Pending : k # NoKey /\ rows[i].key = k}

(* offer: an entry whose key is live raises the priority of that row at most; *)
(* else it becomes a row, unless its id is taken (PRIMARY KEY), which is an    *)
(* error of the store.                                                       *)
Offer(id, w, level) ==
    \/ /\ LiveWith(KeyOf[w]) # {}
       /\ rows' = [i \in RowIds |->
                     IF i \in LiveWith(KeyOf[w]) /\ rows[i].rank > level
                     THEN [rows[i] EXCEPT !.rank = level] ELSE rows[i]]
       /\ ended' = ended \cup {w}
       /\ UNCHANGED stored
    \/ /\ LiveWith(KeyOf[w]) = {} /\ rows[id].status = "none"
       /\ rows' = [rows EXCEPT ![id] =
                     [NoRow EXCEPT !.status = "pending", !.work = w, !.key = KeyOf[w],
                                   !.rank = level, !.seq = NextSeq]]
       /\ stored' = stored \cup {w}
       /\ ended' = ended \ {w}
    \/ /\ LiveWith(KeyOf[w]) = {} /\ rows[id].status # "none"
       /\ UNCHANGED <<rows, stored, ended>>

Take(i) == rows' = [rows EXCEPT ![i].lease = "held", ![i].attempts = @ + 1]

Delete(ids) == rows' = [i \in RowIds |-> IF i \in ids THEN NoRow ELSE rows[i]]

(* Mutant: one attempt more before a row is dead.                            *)
FailRowLate(i) ==
    rows' = [rows EXCEPT ![i].lease = "free",
               ![i].status = IF @ = "pending" /\ rows[i].attempts > MaxAttempts
                             THEN "dead" ELSE @]

(* Mutant: a row whose attempts are used is deleted.                         *)
BuryRow(i) ==
    rows' = [rows EXCEPT ![i] = IF @.attempts >= MaxAttempts THEN NoRow
                                ELSE [@ EXCEPT !.lease = "free"]]

(* fail: the lease is given up, and the row is dead once its attempts are used. *)
FailRow(i) ==
    rows' = [rows EXCEPT ![i].lease = "free",
               ![i].status = IF @ # "none" /\ rows[i].attempts >= MaxAttempts
                             THEN "dead" ELSE @]

(* recover: every lease is given up, expired or not.                         *)
Recover == rows' = [i \in RowIds |-> IF i \in Pending THEN [rows[i] EXCEPT !.lease = "free"]
                                     ELSE rows[i]]

(* The lease of a row runs out: locked_until_ms is past.                     *)
LeaseExpires(i) ==
    /\ rows[i].lease = "held"
    /\ Spend("expire")
    /\ rows' = [rows EXCEPT ![i].lease = "expired"]
    /\ UNCHANGED <<lanes, fib, engine, asked, ended, abandoned, runs>>

----------------------------------------------------------------------------
(* add (enqueueInternal): refused after a shutdown, else offered to the store  *)
(* under a fresh id. An error of the store is logged and add returns.         *)
CallAdd(c) ==
    /\ At(c, "idle") /\ Spend("add")
    /\ IF isShutdown THEN UNCHANGED fib
       ELSE \E l \in Levels :
              fib' = [fib EXCEPT ![c].pc = "offer",
                        ![c].copy = [id |-> 0, work |-> Used("add") + 1, level |-> l]]
    /\ UNCHANGED <<rows, lanes, engine, asked, ended, abandoned, runs>>

OfferRow(c) ==
    /\ At(c, "offer")
    /\ entrySeq' = entrySeq + 1
    /\ DropsCopy(c, "idle")
    /\ \/ /\ Offer(entrySeq', fib[c].copy.work, fib[c].copy.level)
          /\ accepted' = accepted \cup {fib[c].copy.work}
          /\ UNCHANGED left
       \/ Spend("fault") /\ UNCHANGED <<rows, asked, ended>>
    /\ UNCHANGED <<lanes, boot, isShutdown, phase, inFlight, abandoned, runs>>

----------------------------------------------------------------------------
(* start (forkProcessingFibers).                                             *)

ClaimStart ==
    /\ boot = "new" /\ ~isShutdown
    /\ boot' = "recovering"
    /\ UNCHANGED <<rows, lanes, fib, entrySeq, isShutdown, phase, inFlight, left, asked,
                   ended, abandoned, runs>>

(* Mutant: an engine that starts recovers nothing.                           *)
StartAtOnce ==
    /\ boot = "recovering" /\ boot' = "up"
    /\ UNCHANGED <<rows, lanes, fib, entrySeq, isShutdown, phase, inFlight, left, asked,
                   ended, abandoned, runs>>

RecoverAndFork ==
    /\ boot = "recovering" /\ boot' = "up"
    /\ \/ Recover /\ UNCHANGED <<left, abandoned>>
       \/ /\ Spend("fault")
          /\ abandoned' = abandoned \cup WorksOf(Pending \ Available)
          /\ UNCHANGED rows
    /\ UNCHANGED <<lanes, fib, entrySeq, isShutdown, phase, inFlight, asked, ended, runs>>

----------------------------------------------------------------------------
(* The feeder (feederLoop).                                                  *)

StopsAtOnce == isShutdown /\ ShutdownMode = "finishActive"

FeederCheck ==
    /\ At(Feeder, "feed") /\ boot = "up"
    /\ GoTo(Feeder, IF StopsAtOnce THEN "gone" ELSE "lease")
    /\ UNCHANGED <<rows, lanes, engine, left, asked, ended, abandoned, runs>>

FeederTake ==
    /\ At(Feeder, "lease")
    /\ \E i \in RowIds, pc \in {"put", "poisoned"} :
         /\ IsTop(i) /\ Take(i)
         /\ fib' = [fib EXCEPT ![Feeder].pc = pc,
                      ![Feeder].copy = [id |-> i, work |-> rows[i].work,
                                        level |-> rows[i].rank]]
         /\ IF pc = "put" THEN UNCHANGED left ELSE Spend("poison")
    /\ UNCHANGED <<lanes, engine, asked, ended, abandoned, runs>>

(* Nothing to take, or an error of the store: over after a shutdown, else    *)
(* asked again later.                                                        *)
FeederFindsNone ==
    /\ At(Feeder, "lease")
    /\ \/ Available = {} /\ UNCHANGED left
       \/ Spend("fault")
    /\ GoTo(Feeder, IF isShutdown THEN "gone" ELSE "feed")
    /\ UNCHANGED <<rows, lanes, engine, asked, ended, abandoned, runs>>

FeederPut ==
    LET copy == fib[Feeder].copy IN
    /\ At(Feeder, "put")
    /\ Len(lanes[copy.level]) < Capacity
    /\ lanes' = [lanes EXCEPT ![copy.level] = Append(@, copy)]
    /\ DropsCopy(Feeder, "feed")
    /\ UNCHANGED <<rows, engine, left, asked, ended, abandoned, runs>>

----------------------------------------------------------------------------
(* The workers (workerLoop, takeNext, processItem).                          *)

WorkerLoop(w) ==
    /\ At(w, "loop") /\ boot = "up"
    /\ GoTo(w, IF StopsAtOnce THEN "gone" ELSE "take")
    /\ UNCHANGED <<rows, lanes, engine, left, asked, ended, abandoned, runs>>

LanesEmpty == \A l \in Levels : lanes[l] = <<>>

TakeNext(w) ==
    /\ At(w, "take")
    /\ \E l \in Levels :
         /\ lanes[l] # <<>>
         /\ \A m \in Levels : m < l => lanes[m] = <<>>
         /\ fib' = [fib EXCEPT ![w].pc = "took", ![w].copy = Head(lanes[l])]
         /\ lanes' = [lanes EXCEPT ![l] = Tail(@)]
    /\ UNCHANGED <<rows, engine, left, asked, ended, abandoned, runs>>

TakeNextEmpty(w) ==
    /\ At(w, "take") /\ LanesEmpty /\ isShutdown
    /\ GoTo(w, "gone")
    /\ UNCHANGED <<rows, lanes, engine, left, asked, ended, abandoned, runs>>

(* A limiter that fails: the copy is dropped, the store is not told.          *)
SkipRateLimitedItem(w) ==
    /\ At(w, "took") /\ Spend("skip")
    /\ abandoned' = abandoned \cup {fib[w].copy.work}
    /\ DropsCopy(w, "final")
    /\ UNCHANGED <<rows, lanes, engine, asked, ended, runs>>

StartItem(w) ==
    /\ At(w, "took")
    /\ inFlight' = inFlight + 1
    /\ begun' = [begun EXCEPT ![fib[w].copy.work] = @ + 1]
    /\ GoTo(w, "running")
    /\ UNCHANGED <<rows, lanes, boot, entrySeq, isShutdown, phase, left, asked, ended,
                   abandoned, failed>>

(* Whether a failure is for the store to retry; else the row is completed.   *)
StoreRetries(disposition) ==
    disposition = "retry" \/ (disposition = "default" /\ AutoReEnqueue)

EffectExits(w) ==
    /\ At(w, "running")
    /\ inFlight' = inFlight - 1
    /\ \/ GoTo(w, "complete") /\ UNCHANGED <<left, failed>>
       \/ /\ Spend("failure")
          /\ failed' = [failed EXCEPT ![fib[w].copy.work] = @ + 1]
          /\ \E d \in Dispositions : GoTo(w, IF StoreRetries(d) THEN "fail" ELSE "complete")
    /\ UNCHANGED <<rows, lanes, boot, entrySeq, isShutdown, phase, asked, ended, abandoned,
                   begun>>

(* Mutant: an entry that is done with only gives up its lease.                 *)
RequeueDone(f) ==
    /\ At(f, IF f = Feeder THEN "poisoned" ELSE "complete")
    /\ DropsCopy(f, IF f = Feeder THEN "feed" ELSE "final")
    /\ FailRow(fib[f].copy.id)
    /\ UNCHANGED <<lanes, engine, left, asked, ended, abandoned, runs>>

(* complete deletes the row: a worker that is done (persistComplete), a feeder  *)
(* that cannot decode what it took.                                          *)
Complete(f) ==
    LET copy == fib[f].copy IN
    /\ At(f, IF f = Feeder THEN "poisoned" ELSE "complete")
    /\ DropsCopy(f, IF f = Feeder THEN "feed" ELSE "final")
    /\ \/ /\ Delete({copy.id})
          /\ ended' = ended \cup {copy.work}
          /\ UNCHANGED <<left, abandoned>>
       \/ /\ Spend("fault")
          /\ abandoned' = abandoned \cup {copy.work}
          /\ UNCHANGED <<rows, ended>>
    /\ UNCHANGED <<lanes, engine, asked, runs>>

PersistFail(w) ==
    LET copy == fib[w].copy IN
    /\ At(w, "fail")
    /\ DropsCopy(w, "final")
    /\ \/ FailRow(copy.id) /\ UNCHANGED <<left, abandoned>>
       \/ /\ Spend("fault")
          /\ abandoned' = abandoned \cup {copy.work}
          /\ UNCHANGED rows
    /\ UNCHANGED <<lanes, engine, asked, ended, runs>>

(* finalizeShutdownIfDrained: the sizes of the store (none when it fails),     *)
(* then the items in flight.                                                 *)
AfterFinalize(f) == IF f \in Workers THEN "loop" ELSE "idle"

FinalizeRead(f) ==
    /\ At(f, "final")
    /\ \/ GoTo(f, IF phase = "draining" /\ Pending = {} THEN "finish" ELSE AfterFinalize(f))
          /\ UNCHANGED left
       \/ phase = "draining" /\ Spend("fault") /\ GoTo(f, "finish")
    /\ UNCHANGED <<rows, lanes, engine, asked, ended, abandoned, runs>>

FinalizeSet(f) ==
    /\ At(f, "finish")
    /\ phase' = IF inFlight = 0 THEN "off" ELSE phase
    /\ GoTo(f, AfterFinalize(f))
    /\ UNCHANGED <<rows, lanes, boot, entrySeq, isShutdown, inFlight, left, asked, ended,
                   abandoned, runs>>

----------------------------------------------------------------------------
(* shutdown, clear, release, releaseEncoded, deadLetter and drop.            *)

CallShutdown(c) ==
    /\ At(c, "idle") /\ Spend("shutdown")
    /\ phase' = "draining"
    /\ isShutdown' = TRUE
    /\ GoTo(c, IF phase = "running" THEN "windDown" ELSE "idle")
    /\ UNCHANGED <<rows, lanes, boot, entrySeq, inFlight, asked, ended, abandoned, runs>>

(* The copies leave the lanes; their rows, if they still are, stay leased.    *)
EmptyLanes ==
    /\ lanes' = [l \in Levels |-> <<>>]
    /\ abandoned' = abandoned \cup WorksInLanes

WindDown(c) ==
    /\ At(c, "windDown")
    /\ IF ShutdownMode = "finishActive" THEN EmptyLanes ELSE UNCHANGED <<lanes, abandoned>>
    /\ GoTo(c, "final")
    /\ UNCHANGED <<rows, engine, left, asked, ended, runs>>

(* clear: first the table, then the lanes, even if the store failed.          *)
CallClear(c) ==
    /\ At(c, "idle") /\ left["clear"] > 0
    /\ \/ /\ Delete(Pending)
          /\ ended' = ended \cup WorksOf(Pending)
          /\ left' = [left EXCEPT !["clear"] = @ - 1]
       \/ /\ left["fault"] > 0
          /\ left' = [left EXCEPT !["clear"] = @ - 1, !["fault"] = @ - 1]
          /\ UNCHANGED <<rows, ended>>
    /\ GoTo(c, "purge")
    /\ UNCHANGED <<lanes, engine, asked, abandoned, runs>>

PurgeLanes(c) ==
    /\ At(c, "purge")
    /\ EmptyLanes
    /\ GoTo(c, "idle")
    /\ UNCHANGED <<rows, engine, left, asked, ended, runs>>

(* drain by release (everything), by an id or by a key: what is available is    *)
(* deleted and handed out. One that cannot be decoded is deleted all the same. *)
(* releaseEncoded offers it again when an item cannot be encoded. A drain that  *)
(* fails drains nothing.                                                     *)
Matching ==
    {Available} \cup {{i} \cap Available : i \in RowIds}
        \cup {LiveWith(KeyOf[w]) \cap Available : w \in Works}

CallExtract(c) ==
    /\ At(c, "idle") /\ left["extract"] > 0
    /\ \E drained \in Matching :
         /\ drained # {}
         /\ Delete(drained)
         /\ ended' = ended \cup WorksOf(drained)
         /\ \/ UNCHANGED fib
               /\ left' = [left EXCEPT !["extract"] = @ - 1]
            \/ /\ drained = Available /\ left["encodeError"] > 0
               /\ left' = [left EXCEPT !["extract"] = @ - 1, !["encodeError"] = @ - 1]
               /\ fib' = [fib EXCEPT ![c].pc = "restore",
                            ![c].taken = {[id |-> i, row |-> rows[i]] : i \in drained}]
    /\ UNCHANGED <<lanes, engine, asked, abandoned, runs>>

(* restorePending: in the order of the drain, as new offers; an error of the   *)
(* store is passed over.                                                     *)
RestorePending(c) ==
    /\ At(c, "restore")
    /\ \E t \in fib[c].taken :
         /\ \A u \in fib[c].taken \ {t} : Before(t.row, u.row)
         /\ \/ Offer(t.id, t.row.work, t.row.rank) /\ UNCHANGED left
            \/ Spend("fault") /\ UNCHANGED <<rows, stored, ended>>
         /\ fib' = [fib EXCEPT ![c].taken = @ \ {t},
                      ![c].pc = IF fib[c].taken = {t} THEN "idle" ELSE @]
    /\ UNCHANGED <<lanes, engine, accepted, abandoned, runs>>

----------------------------------------------------------------------------
(* The process dies and another one opens the table.                         *)
Crash ==
    /\ Spend("crash")
    /\ lanes' = [l \in Levels |-> <<>>]
    /\ fib' = AtStart
    /\ boot' = "new" /\ entrySeq' = 0
    /\ isShutdown' = FALSE /\ phase' = "running" /\ inFlight' = 0
    /\ UNCHANGED <<rows, asked, ended, abandoned, runs>>

ClientCall(c) == CallAdd(c) \/ CallShutdown(c) \/ CallClear(c) \/ CallExtract(c)

ClientStep(c) ==
    OfferRow(c) \/ WindDown(c) \/ PurgeLanes(c) \/ RestorePending(c)
        \/ FinalizeRead(c) \/ FinalizeSet(c)

WorkerStep(w) ==
    \/ WorkerLoop(w) \/ TakeNext(w) \/ TakeNextEmpty(w) \/ SkipRateLimitedItem(w)
    \/ StartItem(w) \/ EffectExits(w) \/ Complete(w) \/ PersistFail(w)
    \/ FinalizeRead(w) \/ FinalizeSet(w)

FeederStep ==
    FeederCheck \/ FeederTake \/ FeederFindsNone \/ FeederPut \/ Complete(Feeder)

Start == ClaimStart \/ RecoverAndFork

Next ==
    \/ Start
    \/ FeederStep
    \/ \E w \in Workers : WorkerStep(w)
    \/ \E c \in Clients : ClientCall(c) \/ ClientStep(c)
    \/ \E i \in RowIds : LeaseExpires(i)
    \/ Crash

Spec == Init /\ [][Next]_vars

(* Fibers that can go on go on (Effect's scheduler), effects end, the engine    *)
(* is started. No client has to call, nothing has to fail, crash or expire.    *)
Fair ==
    /\ WF_vars(Start) /\ WF_vars(FeederStep)
    /\ \A w \in Workers : WF_vars(WorkerStep(w))
    /\ \A c \in Clients : WF_vars(ClientStep(c))
FairSpec == Spec /\ Fair

----------------------------------------------------------------------------
(* Properties.                                                               *)

LiveRows == {i \in RowIds : rows[i].status # "none"}
InStore == {rows[i].work : i \in LiveRows}

(* Where a fiber holds the copy it took.                                     *)
Holding == {"put", "poisoned", "took", "running", "complete", "fail"}

(* The types of the variables; seq numbers of the table are distinct, a fiber  *)
(* that processes holds the copy it took, and inFlight counts the effects.     *)
TypeOK ==
    /\ \A i \in RowIds :
         /\ rows[i].status \in {"none", "pending", "dead"}
         /\ rows[i].status # "none" => rows[i].work \in Works
         /\ rows[i].lease \in {"free", "held", "expired"}
         /\ rows[i].attempts \in Nat
         /\ \A j \in RowIds \ {i} : rows[i].seq = rows[j].seq => rows[i].seq = 0
    /\ \A l \in Levels : lanes[l] \in Seq([id : RowIds, work : Works, level : {l}])
    /\ \A f \in Fibers :
         fib[f].pc \in Holding => fib[f].copy.id \in RowIds /\ fib[f].copy.work \in Works
    /\ boot \in {"new", "recovering", "up"} /\ entrySeq \in 0 .. Cardinality(RowIds)
    /\ isShutdown \in BOOLEAN /\ phase \in {"running", "draining", "off"}
    /\ inFlight = Cardinality({w \in Workers : At(w, "running")})
    /\ accepted \cup ended \cup abandoned \subseteq Works
    /\ left \in [Events -> Nat]

(* At least once: an entry that got a row keeps a row, pending or dead, until   *)
(* a worker is done with that very entry or a call takes it out: no crash, no   *)
(* error of the store, no lease that runs out and no stale worker loses it, as   *)
(* long as an id names one entry (AcceptedIsKept says what happens if not).      *)
NothingVanishes == stored \subseteq InStore \cup ended

(* What the effect begins again has a reason: a failure, a crash, a lease that  *)
(* ran out. (A row is leased to one copy, and settled with it.)               *)
NoSpuriousRerun ==
    \A w \in Works : begun[w] <= 1 + failed[w] + Used("crash") + Used("expire")

(* Dead letters are bounded: a row is taken MaxAttempts times, and once more    *)
(* for each crash and each lease that ran out, which fail never sees.         *)
AttemptsBounded ==
    \A i \in RowIds : rows[i].attempts <= MaxAttempts + Used("crash") + Used("expire")

(* Once the engine is up, a row that is leased is in the hands of somebody who  *)
(* will settle it: nothing waits for a lease to run out but what a crash, an    *)
(* error of the store, a limiter that failed, or an emptied lane left behind.  *)
HeldCopies ==
    WorksInLanes \cup
        {fib[f].copy.work : f \in {g \in Workers \cup {Feeder} : fib[g].pc \in Holding}}
NoOrphanLease ==
    boot = "up" =>
        \A i \in Pending : rows[i].lease = "held" =>
            rows[i].work \in HeldCopies \cup abandoned

(* Each entry goes the way that DurableLifecycle lays out: it is leased by one  *)
(* engine at a time, only while it waits, and every lease is a try; a failure    *)
(* with tries left makes it wait again, one without buries it; what is dead or    *)
(* done with does not come back. An entry is known by its row.                *)
RowOf(w) == {i \in LiveRows : rows[i].work = w}
Row(w) == rows[CHOOSE i \in RowOf(w) : TRUE]
PlaceOf(w) ==
    CASE RowOf(w) = {} -> IF w \in ended THEN "out" ELSE "new"
      [] RowOf(w) # {} /\ Row(w).status = "dead" -> "dead"
      [] RowOf(w) # {} /\ Row(w).status = "pending" ->
            IF Row(w).lease # "held" THEN "waiting"
            ELSE IF w \in HeldCopies THEN "leased" ELSE "orphaned"
TriesOf(w) == IF RowOf(w) = {} THEN 0 ELSE Row(w).attempts

Lifecycle ==
    INSTANCE DurableLifecycle
    WITH Entries <- Works, Limit <- MaxAttempts,
         place <- [w \in Works |-> PlaceOf(w)], tries <- [w \in Works |-> TriesOf(w)],
         lapses <- Used("crash") + Used("expire"), up <- boot = "up"
FollowsLifecycle == Lifecycle!Spec

(* "Durability: no enqueued work is lost across a restart": what add gave to a  *)
(* store that works is in the store until it is done with, or its key was live. *)
AcceptedIsKept == accepted \subseteq InStore \cup ended

=============================================================================
