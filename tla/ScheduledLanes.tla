---------------------------- MODULE ScheduledLanes ----------------------------
(* The lane store of a custom queue: internal/levelLaneStoreScheduled.ts,    *)
(* and the levels of internal/customQueueLevels.ts.                          *)
(*                                                                           *)
(* One bounded queue for each level. A poll reads the size of every lane,    *)
(* lets the take algorithm pick one and polls it; polls exclude each other,  *)
(* offers and extractions do not wait for them. The weighted algorithm keeps *)
(* a virtual time for every lane, here in units of 1 / Scale, and serves the *)
(* lane with the smallest. Left out: the items, and rounding.                *)
EXTENDS Integers, Sequences, FiniteSets

CONSTANTS
    LevelCount, Capacity,
    Algorithms,    \* a subset of {"weighted", "strict-descending", "custom"}
    Scale,         \* a common multiple of the weights
    Inputs,        \* what an add says of the level: [kind, level or name]
    NamedLevels,   \* the names that are configured, and their numbers
    DefaultLevel,
    Matching,      \* items that an extraction is after
    MaxOffers,     \* bound: items
    MaxExtracts    \* bound: calls of extractMatching and drain

Levels == 0..(LevelCount - 1)
Items == 1..MaxOffers
Weight(l) == IF l < 1 THEN 1 ELSE l

ASSUME LaneAssumption ==
    /\ LevelCount \in Nat \ {0}
    /\ Capacity \in Nat \ {0}
    /\ Algorithms \subseteq {"weighted", "strict-descending", "custom"}
    /\ Scale \in Nat \ {0}
    /\ \A l \in Levels : \E n \in 1..Scale : n * Weight(l) = Scale
    /\ MaxOffers \in Nat /\ MaxExtracts \in Nat
    /\ DefaultLevel \in Int
    /\ \A name \in DOMAIN NamedLevels : NamedLevels[name] \in Int
    /\ \A input \in Inputs : input.kind = "number" => input.level \in Int

VARIABLES
    takeAlgorithm,
    lanes,       \* the queues, of items
    offered,     \* items that were offered so far
    tagged, vtime, systemV,  \* sched: lanes with a virtual time, and the clock
    pc,          \* of the poll that runs: "idle", "scan", "take", "settle"
    scan,        \* the lane whose size it reads next
    nonEmpty,    \* the lanes it found non-empty
    level,       \* the lane that was picked
    taken,       \* items that polls returned
    extractPc,   \* of the extraction: "idle", "poll", "restore", "reset"
    draining,    \* is it a drain
    lane,        \* the lane it is at
    kept,        \* items it will put back
    out,         \* items that extractions returned
    extracts,
    atStart,     \* for the properties: lanes with items when the poll began
    sawEmpty,    \* for the properties: all lanes were empty during the poll
    met,         \* for the properties: an extraction ran during the poll
    stale,       \* for the properties: one has emptied a tagged lane
    served       \* for the properties: polls of each lane since any emptied

sched == <<tagged, vtime, systemV>>
poll == <<pc, scan, nonEmpty, level>>
extraction == <<extractPc, draining, lane, kept, out, extracts>>
vars == <<takeAlgorithm, lanes, offered, sched, poll, taken, extraction,
          atStart, sawEmpty, met, stale, served>>

Full(q) == {l \in Levels : Len(q[l]) > 0}
Zero == [l \in Levels |-> 0]

Init ==
    /\ takeAlgorithm \in Algorithms
    /\ lanes = [l \in Levels |-> <<>>]
    /\ offered = 0
    /\ tagged = {} /\ vtime = Zero /\ systemV = 0
    /\ pc = "idle" /\ scan = 0 /\ nonEmpty = {} /\ level = 0
    /\ taken = {}
    /\ extractPc = "idle" /\ draining = FALSE /\ lane = 0 /\ kept = <<>>
    /\ out = {} /\ extracts = MaxExtracts
    /\ atStart = {} /\ sawEmpty = FALSE /\ met = FALSE
    /\ stale = FALSE /\ served = Zero

----------------------------------------------------------------------------
Clamp(n) == IF n < 0 THEN 0 ELSE IF n > LevelCount - 1 THEN LevelCount - 1 ELSE n
(* resolveCustomQueueLevel: a number (also one that is written as a name), a *)
(* name that is configured, or else the default.                             *)
ResolveLevel(input) ==
    IF input.kind = "number" THEN Clamp(input.level)
    ELSE IF input.kind = "name" /\ input.name \in DOMAIN NamedLevels
    THEN Clamp(NamedLevels[input.name])
    ELSE Clamp(DefaultLevel)

(* The properties' view of a change of the lanes.                            *)
Watch(q) ==
    /\ sawEmpty' = (sawEmpty \/ Full(q) = {})
    /\ met' = (met \/ extractPc # "idle")

Offer(input) ==
    LET l == ResolveLevel(input) IN
    /\ offered < MaxOffers
    /\ Len(lanes[l]) < Capacity
    /\ offered' = offered + 1
    /\ lanes' = [lanes EXCEPT ![l] = Append(@, offered + 1)]
    /\ served' = IF lanes[l] = <<>> THEN Zero ELSE served
    /\ UNCHANGED <<takeAlgorithm, sched, poll, taken, extraction, atStart, sawEmpty,
                   met, stale>>

----------------------------------------------------------------------------
(* Mutant: the scan leaves out the lowest lane.                              *)
StartPollAtOne ==
    /\ pc = "idle"
    /\ pc' = "scan" /\ scan' = 1 /\ nonEmpty' = {}
    /\ atStart' = Full(lanes)
    /\ sawEmpty' = (Full(lanes) = {})
    /\ met' = (extractPc # "idle")
    /\ UNCHANGED <<takeAlgorithm, lanes, offered, sched, level, taken, extraction,
                   stale, served>>
(* poll: one at a time, by SynchronizedRef.                                  *)
StartPoll ==
    /\ pc = "idle"
    /\ pc' = "scan" /\ scan' = 0 /\ nonEmpty' = {}
    /\ atStart' = Full(lanes)
    /\ sawEmpty' = (Full(lanes) = {})
    /\ met' = (extractPc # "idle")
    /\ UNCHANGED <<takeAlgorithm, lanes, offered, sched, level, taken, extraction,
                   stale, served>>

(* nonEmptyLevels: the sizes, lane by lane.                                  *)
Scan ==
    /\ pc = "scan" /\ scan < LevelCount
    /\ nonEmpty' = IF Len(lanes[scan]) > 0 THEN nonEmpty \cup {scan} ELSE nonEmpty
    /\ scan' = scan + 1
    /\ UNCHANGED <<takeAlgorithm, lanes, offered, sched, pc, level, taken, extraction,
                   atStart, sawEmpty, met, stale, served>>

Eff(l) == IF l \in tagged THEN vtime[l] ELSE systemV
(* Mutant: the lowest level first.                                           *)
Lowest(ls) == CHOOSE l \in ls : \A k \in ls : l <= k
(* pickStrictDescending                                                      *)
Highest(ls) == CHOOSE l \in ls : \A k \in ls : l >= k
(* pickWeighted: the smallest virtual time, of equal ones the lower level.   *)
Earliest(ls) ==
    CHOOSE l \in ls : \A k \in ls : Eff(l) < Eff(k) \/ (Eff(l) = Eff(k) /\ l <= k)
(* resolvePick: a custom algorithm may take any of them, or none.            *)
Picks(ls) ==
    CASE takeAlgorithm = "weighted" -> {Earliest(ls)}
      [] takeAlgorithm = "strict-descending" -> {Highest(ls)}
      [] OTHER -> ls

Ended == pc' = "idle" /\ UNCHANGED <<scan, nonEmpty>>

Pick ==
    /\ pc = "scan" /\ scan = LevelCount
    /\ \/ /\ nonEmpty # {}
          /\ level' \in Picks(nonEmpty)
          /\ pc' = "take" /\ UNCHANGED <<scan, nonEmpty>>
       \/ (nonEmpty = {} \/ takeAlgorithm = "custom") /\ Ended /\ UNCHANGED level
    /\ UNCHANGED <<takeAlgorithm, lanes, offered, sched, taken, extraction, atStart,
                   sawEmpty, met, stale, served>>

(* The lane may be empty by now: then the poll has nothing and no new state. *)
Take ==
    /\ pc = "take"
    /\ IF lanes[level] = <<>>
       THEN Ended /\ UNCHANGED <<lanes, taken, served, level, sawEmpty, met>>
       ELSE /\ taken' = taken \cup {Head(lanes[level])}
            /\ lanes' = [lanes EXCEPT ![level] = Tail(@)]
            /\ served' = IF Len(lanes[level]) = 1 THEN Zero
                         ELSE [served EXCEPT ![level] = @ + 1]
            /\ pc' = "settle" /\ UNCHANGED <<scan, nonEmpty, level>>
            /\ Watch(lanes')
    /\ UNCHANGED <<takeAlgorithm, offered, sched, extraction, atStart, stale>>

(* 1 / weightOf(level)                                                       *)
Step(l) == CHOOSE n \in 1..Scale : n * Weight(l) = Scale

(* Mutant: the clock follows the virtual time that the lane has now.        *)
SettleAhead ==
    /\ pc = "settle"
    /\ Ended /\ UNCHANGED level
    /\ IF takeAlgorithm = "weighted"
       THEN /\ systemV' = Eff(level) + Step(level)
            /\ tagged' = IF lanes[level] = <<>> THEN tagged \ {level}
                         ELSE tagged \cup {level}
            /\ vtime' = [vtime EXCEPT ![level] = Eff(level) + Step(level)]
       ELSE UNCHANGED sched
    /\ UNCHANGED <<takeAlgorithm, lanes, offered, taken, extraction, atStart, sawEmpty,
                   met, stale, served>>
(* Mutant: the virtual time is dropped whether or not the lane is empty.     *)
SettleForgets ==
    /\ pc = "settle"
    /\ Ended /\ UNCHANGED level
    /\ IF takeAlgorithm = "weighted"
       THEN /\ systemV' = Eff(level)
            /\ tagged' = tagged \ {level}
            /\ vtime' = [vtime EXCEPT ![level] = Eff(level) + Step(level)]
       ELSE UNCHANGED sched
    /\ UNCHANGED <<takeAlgorithm, lanes, offered, taken, extraction, atStart, sawEmpty,
                   met, stale, served>>
(* The new state. The weighted algorithm forgets a lane that is empty now.   *)
Settle ==
    /\ pc = "settle"
    /\ Ended /\ UNCHANGED level
    /\ IF takeAlgorithm = "weighted"
       THEN /\ systemV' = Eff(level)
            /\ tagged' = IF lanes[level] = <<>> THEN tagged \ {level}
                         ELSE tagged \cup {level}
            /\ vtime' = [vtime EXCEPT ![level] = Eff(level) + Step(level)]
       ELSE UNCHANGED sched
    /\ UNCHANGED <<takeAlgorithm, lanes, offered, taken, extraction, atStart, sawEmpty,
                   met, stale, served>>

----------------------------------------------------------------------------
(* extractMatching and drain: lane by lane, item by item.                    *)
StartExtract ==
    /\ extractPc = "idle"
    /\ extracts > 0
    /\ extracts' = extracts - 1
    /\ draining' \in BOOLEAN
    /\ extractPc' = "poll" /\ lane' = 0 /\ kept' = <<>>
    /\ met' = TRUE
    /\ UNCHANGED <<takeAlgorithm, lanes, offered, sched, poll, taken, out, atStart,
                   sawEmpty, stale, served>>

NextLane ==
    IF lane + 1 < LevelCount
    THEN extractPc' = "poll" /\ lane' = lane + 1
    ELSE extractPc' = (IF draining THEN "reset" ELSE "idle") /\ UNCHANGED lane

ExtractPoll ==
    /\ extractPc = "poll"
    /\ IF lanes[lane] # <<>>
       THEN LET item == Head(lanes[lane]) IN
            /\ lanes' = [lanes EXCEPT ![lane] = Tail(@)]
            /\ \/ (draining \/ item \in Matching) /\ out' = out \cup {item} /\ UNCHANGED kept
               \/ ~(draining \/ item \in Matching) /\ kept' = Append(kept, item) /\ UNCHANGED out
            /\ stale' = (stale \/ /\ Len(lanes[lane]) = 1
                                  /\ lane \in tagged \/ (pc = "settle" /\ level = lane))
            /\ served' = IF Len(lanes[lane]) = 1 THEN Zero ELSE served
            /\ UNCHANGED <<extractPc, lane>>
       ELSE /\ IF kept # <<>> THEN extractPc' = "restore" /\ UNCHANGED lane ELSE NextLane
            /\ UNCHANGED <<lanes, out, kept, stale, served>>
    /\ Watch(lanes')
    /\ UNCHANGED <<takeAlgorithm, offered, sched, poll, taken, draining, extracts, atStart>>

(* Queue.offerAll: what the lane has room for at once, the rest when it has. *)
Fits == LET room == Capacity - Len(lanes[lane]) IN
        IF Len(kept) <= room THEN Len(kept) ELSE room
(* Mutant: what does not fit is dropped.                                     *)
RestoreWhatFits ==
    /\ extractPc = "restore"
    /\ Fits > 0
    /\ lanes' = [lanes EXCEPT ![lane] = @ \o SubSeq(kept, 1, Fits)]
    /\ kept' = <<>>
    /\ served' = IF lanes[lane] = <<>> THEN Zero ELSE served
    /\ NextLane
    /\ UNCHANGED <<takeAlgorithm, offered, sched, poll, taken, draining, out, extracts,
                   atStart, sawEmpty, met, stale>>
ExtractRestore ==
    /\ extractPc = "restore"
    /\ Fits > 0
    /\ lanes' = [lanes EXCEPT ![lane] = @ \o SubSeq(kept, 1, Fits)]
    /\ kept' = SubSeq(kept, Fits + 1, Len(kept))
    /\ served' = IF lanes[lane] = <<>> THEN Zero ELSE served
    /\ IF Fits = Len(kept) THEN NextLane ELSE UNCHANGED <<extractPc, lane>>
    /\ UNCHANGED <<takeAlgorithm, offered, sched, poll, taken, draining, out, extracts,
                   atStart, sawEmpty, met, stale>>

(* drain: SynchronizedRef.set waits for the poll that runs.                  *)
ExtractReset ==
    /\ extractPc = "reset"
    /\ pc = "idle"
    /\ extractPc' = "idle"
    /\ tagged' = {} /\ systemV' = 0 /\ stale' = FALSE /\ served' = Zero
    /\ UNCHANGED <<takeAlgorithm, lanes, offered, vtime, poll, taken, draining, lane,
                   kept, out, extracts, atStart, sawEmpty, met>>

Next ==
    \/ \E input \in Inputs : Offer(input)
    \/ StartPoll \/ Scan \/ Pick \/ Take \/ Settle
    \/ StartExtract \/ ExtractPoll \/ ExtractRestore \/ ExtractReset

Spec == Init /\ [][Next]_vars

----------------------------------------------------------------------------
InLane(l) == {lanes[l][i] : i \in DOMAIN lanes[l]}
Kept == {kept[i] : i \in DOMAIN kept}

TypeOK ==
    /\ takeAlgorithm \in Algorithms
    /\ offered \in Nat /\ lanes \in [Levels -> Seq(1..offered)]
    /\ tagged \subseteq Levels /\ vtime \in [Levels -> Nat] /\ systemV \in Nat
    /\ pc \in {"idle", "scan", "take", "settle"}
    /\ scan \in 0..LevelCount /\ nonEmpty \subseteq Levels /\ level \in Levels
    /\ extractPc \in {"idle", "poll", "restore", "reset"}
    /\ lane \in Levels
    /\ kept \in Seq(1..offered) /\ (extractPc = "restore" => kept # <<>>)
    /\ taken \subseteq 1..offered /\ out \subseteq 1..offered
    /\ stale \in BOOLEAN

(* An item that was offered is in one place: in one lane, with the           *)
(* extraction, or handed out, to one caller.                                 *)
EachOnce ==
    /\ \A x \in 1..offered :
          Cardinality({l \in Levels : x \in InLane(l)})
            + (IF x \in Kept THEN 1 ELSE 0) + (IF x \in taken THEN 1 ELSE 0)
            + (IF x \in out THEN 1 ELSE 0) = 1
    /\ \A l \in Levels : Cardinality(InLane(l)) = Len(lanes[l])

(* Of two lanes that have not been empty, neither gets more than its share   *)
(* by more than one item of each: the work is in proportion to the weights,  *)
(* unless an extraction left a lane an old virtual time since the last drain. *)
Shares ==
    takeAlgorithm = "weighted" /\ ~stale =>
        \A i, j \in Full(lanes) :
            served[i] * Step(i) - served[j] * Step(j) <= Step(i) + Step(j)

(* Virtual times: a lane with items is not behind the clock, and at most one *)
(* item ahead of it, with the same reserve: an old time that is picked sets   *)
(* the clock back, far behind the other lanes.                               *)
Waiting == Full(lanes) \cup (IF pc = "settle" THEN {level} ELSE {})
TagsNear ==
    ~stale =>
        \A l \in tagged \cap Waiting : vtime[l] \in systemV..(systemV + Step(l))

(* strict-descending: a poll takes from no lane below one that had items     *)
(* when it began.                                                            *)
StrictOrder ==
    [][takeAlgorithm = "strict-descending" /\ taken' # taken /\ ~met
          => \A l \in atStart : l <= level]_vars

(* A poll comes back without an item only if at some moment of it there was  *)
(* none, or an extraction was at work: a worker that goes to sleep on it     *)
(* leaves nothing behind.                                                    *)
NoneMeansEmpty ==
    [][(pc \in {"scan", "take"}) /\ pc' = "idle" /\ takeAlgorithm # "custom"
          => sawEmpty \/ met]_vars

=============================================================================
