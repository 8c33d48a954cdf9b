------------------------- MODULE QueueEngineProofs -------------------------
(* QueueEngine for every set of workers and clients, every number of lanes   *)
(* and capacity, and every configuration and budget: its types, its          *)
(* counters, its phase and its pause; then where its entries are; then their *)
(* attempts and their dedup keys.                                            *)
EXTENDS QueueEngine, TLAPS, FiniteSetTheorems, SequenceTheorems

----------------------------------------------------------------------------

LEMMA SeqMonotone ==
    ASSUME NEW S, NEW T, S \subseteq T
    PROVE  \A s \in Seq(S) : s \in Seq(T)
OBVIOUS

LEMMA TailLeft ==
    ASSUME NEW S, NEW s \in Seq(S), s # <<>>, Len(s) # 1
    PROVE  Tail(s) # <<>>
<1>1. Len(Tail(s)) = Len(s) - 1 /\ Len(s) \in Nat \ {0}
  BY HeadTailProperties, EmptySeq
<1>2. Len(Tail(s)) # 0
  BY <1>1
<1>3. Len(<< >>) = 0
  BY EmptySeq
<1> QED
  BY <1>2, <1>3, Zenon

LEMMA EntryOf ==
    ASSUME TypeOK, NEW e \in EntryIds
    PROVE  entry[e] \in EntryRecords
BY ElementOfSeq DEF TypeOK, StoreOK, EntryIds

----------------------------------------------------------------------------
(* Frames.                                                                   *)

USE DEF At, GoTo, Fibers, store, flags, counters, signals, frame, history

(* A step of fiber f leaves the frames of the others alone.                  *)
OnlyFrame(f) ==
    \A g \in Fibers \ {f} :
        /\ pc'[g] = pc[g] /\ op'[g] = op[g] /\ cur'[g] = cur[g]
        /\ todo'[g] = todo[g] /\ hand'[g] = hand[g] /\ kept'[g] = kept[g]

LEMMA Kept ==
    ASSUME TypeOK
    PROVE  /\ UNCHANGED <<entry, activeKeys>> => StoreOK'
           /\ UNCHANGED flags => FlagsOK'
           /\ UNCHANGED counters => CountersOK'
           /\ UNCHANGED signals => SignalsOK'
           /\ UNCHANGED <<entry, lanes, hand, kept>> => PlacesOK'
           /\ UNCHANGED <<entry, history>> => HistoryOK'
           /\ UNCHANGED entry => EntryIds' = EntryIds
BY DEF TypeOK, StoreOK, FlagsOK, CountersOK, SignalsOK, PlacesOK, HistoryOK,
       EntryIds

LEMMA StepTypeOK ==
    ASSUME TypeOK, NEW f \in Fibers, OnlyFrame(f), FrameOK(f)',
           StoreOK', FlagsOK', CountersOK', SignalsOK', FramesOK', PlacesOK',
           HistoryOK', EntryIds \subseteq EntryIds'
    PROVE  TypeOK'
<1> SUFFICES ASSUME NEW g \in Fibers, g # f PROVE FrameOK(g)'
  BY DEF TypeOK
<1>1. FrameOK(g)
  BY DEF TypeOK
<1>2. /\ pc'[g] = pc[g] /\ op'[g] = op[g] /\ cur'[g] = cur[g]
      /\ todo'[g] = todo[g] /\ hand'[g] = hand[g] /\ kept'[g] = kept[g]
  BY DEF OnlyFrame
<1>3. WorksOnEntry(g)' <=> WorksOnEntry(g)
  BY <1>2 DEF WorksOnEntry, Holds, HasPermit, InBody, Enqueuing
<1> QED
  BY <1>1, <1>2, <1>3 DEF FrameOK, LabelsOf

LEMMA SpendOK ==
    ASSUME TypeOK, NEW o \in OpNames, Spend(o)
    PROVE  left' \in [OpNames -> Nat]
BY DEF TypeOK, HistoryOK, Spend

LEMMA CallEnqueueOK ==
    ASSUME FramesOK, NEW f \in Fibers, NEW o \in Ops,
           NEW items \in Seq(Items), NEW level \in Int, NEW e \in Nat,
           CallEnqueue(f, o, items, level, e), UNCHANGED <<scan, sel>>
    PROVE  FramesOK'
BY DEF FramesOK, CallEnqueue, Labels, WorkerLabels, EnqueueLabels

LEMMA ReturnOK ==
    ASSUME FramesOK, NEW f \in Fibers, NEW label \in Labels, Return(f, label),
           UNCHANGED <<scan, todo>>
    PROVE  FramesOK'
<1>1. AnySelector \in Selectors
  BY DEF AnySelector, Selectors
<1>2. "none" \in Ops
  BY DEF Ops
<1> QED
  BY <1>1, <1>2 DEF FramesOK, Return

LEMMA CallOK ==
    ASSUME FramesOK, NEW c \in Clients, NEW o \in Ops, NEW label \in Labels,
           NEW s \in Selectors, Call(c, o, label, s)
    PROVE  FramesOK'
<1>1. "none" \in Ops
  BY DEF Ops
<1> QED
  BY <1>1 DEF FramesOK, Call

LEMMA ActiveKeysSub ==
    ASSUME TypeOK, UNCHANGED entry, activeKeys' \subseteq activeKeys
    PROVE  StoreOK'
BY DEF TypeOK, StoreOK

LEMMA ResultSet ==
    ASSUME TypeOK, NEW e \in EntryIds, NEW r \in Results,
           UNCHANGED <<entry, completes>>,
           result' = [result EXCEPT ![e] = r], left' \in [OpNames -> Nat]
    PROVE  HistoryOK'
<1>1. result \in Seq(Results) /\ Len(result) = Len(entry) /\ completes \in Nat
  BY DEF TypeOK, HistoryOK
<1>2. result' \in Seq(Results) /\ Len(result') = Len(result)
  BY <1>1, ExceptSeq DEF EntryIds
<1> QED
  BY <1>1, <1>2 DEF HistoryOK

LEMMA MarkAllOK ==
    ASSUME TypeOK, NEW S, NEW r \in Results, UNCHANGED <<entry, completes>>,
           result' = MarkAll(S, r), left' \in [OpNames -> Nat]
    PROVE  HistoryOK'
<1>1. result \in Seq(Results) /\ Len(result) = Len(entry) /\ completes \in Nat
  BY DEF TypeOK, HistoryOK
<1>2. result' \in Seq(Results) /\ Len(result') = Len(result)
  <2>1. result' = [e \in 1 .. Len(result) |-> result'[e]]
    BY <1>1 DEF MarkAll
  <2>2. \A e \in 1 .. Len(result) : result'[e] \in Results
    BY <1>1 DEF MarkAll
  <2> QED
    BY <1>1, <2>1, <2>2
<1> QED
  BY <1>1, <1>2 DEF HistoryOK

LEMMA LaneOfLevel ==
    ASSUME TypeOK, NEW e \in EntryIds
    PROVE  LaneOf(e) \in Levels
<1>1. entry[e].level \in Int
  BY EntryOf DEF EntryRecords
<1> QED
  BY <1>1, ConfigAssumption DEF LaneOf, ClampLevel, Levels

LEMMA KeysOfSub ==
    ASSUME TypeOK, NEW S, S \subseteq EntryIds
    PROVE  KeysOf(S) \subseteq Keys
<1>1. \A e \in EntryIds : entry[e].item \in Items
  BY EntryOf DEF EntryRecords
<1> QED
  BY <1>1, ConfigAssumption DEF KeysOf, KeyOfEntry

----------------------------------------------------------------------------
(* Worker and monitor steps, and the calls of the handle.                    *)

LEMMA WorkerLoopTypeOK ==
    ASSUME TypeOK, NEW w \in Workers, WorkerLoop(w)
    PROVE  TypeOK'
<1>1. FramesOK /\ FrameOK(w)
  BY DEF TypeOK
<1>2. FramesOK'
  BY <1>1 DEF FramesOK, Labels, WorkerLabels, ClientLabels, MonitorLabels,
     EnqueueLabels, WorkerLoop
<1>3. OnlyFrame(w)
  BY <1>1 DEF FramesOK, OnlyFrame, WorkerLoop
<1>4. FrameOK(w)'
  <2>1. pc'[w] \in {"exit", "latch1"}
    BY <1>1 DEF FramesOK, WorkerLoop
  <2> QED
    BY <1>1, <2>1, FibersAssumption DEF FramesOK, FrameOK, LabelsOf,
       WorkerLabels, ClientLabels, MonitorLabels, EnqueueLabels, WorksOnEntry,
       Holds, HasPermit, InBody, Enqueuing, EntryIds, WorkerLoop
<1> QED
  BY <1>1, <1>2, <1>3, <1>4, Kept, StepTypeOK DEF WorkerLoop

LEMMA AwaitLatchTypeOK ==
    ASSUME TypeOK, NEW w \in Workers, AwaitLatch(w)
    PROVE  TypeOK'
<1>1. FramesOK /\ FrameOK(w)
  BY DEF TypeOK
<1>2. FramesOK'
  BY Zenon, <1>1 DEF FramesOK, Labels, WorkerLabels, ClientLabels, MonitorLabels,
     EnqueueLabels, AwaitLatch
<1>3. OnlyFrame(w)
  BY <1>1 DEF FramesOK, OnlyFrame, AwaitLatch
<1>4. FrameOK(w)'
  <2>1. pc'[w] \in {"poll", "shut1", "rate", "shut2"}
    BY <1>1 DEF FramesOK, AwaitLatch
  <2> QED
    BY <1>1, <2>1, FibersAssumption DEF FramesOK, FrameOK, LabelsOf,
       WorkerLabels, ClientLabels, MonitorLabels, EnqueueLabels, WorksOnEntry,
       Holds, HasPermit, InBody, Enqueuing, EntryIds, AwaitLatch
<1> QED
  BY <1>1, <1>2, <1>3, <1>4, Kept, StepTypeOK DEF AwaitLatch

LEMMA PollLaneTypeOK ==
    ASSUME TypeOK, NEW w \in Workers, PollLane(w)
    PROVE  TypeOK'
<1>1. FramesOK /\ FrameOK(w)
  BY DEF TypeOK
<1>2. PlacesOK'
  <2> DEFINE l == scan[w]
  <2>1. l \in Levels /\ lanes \in [Levels -> Seq(EntryIds)]
    BY <1>1 DEF FramesOK, TypeOK, PlacesOK
  <2>2. lanes[l] # <<>> => Tail(lanes[l]) \in Seq(EntryIds)
    BY <2>1, HeadTailProperties
  <2>3. lanes' \in [Levels -> Seq(EntryIds)]
    BY <2>1, <2>2 DEF PollLane
  <2> QED
    BY <2>3, Kept DEF TypeOK, PlacesOK, PollLane
<1>3. FramesOK'
  <2> DEFINE l == scan[w]
  <2>1. lanes[l] # <<>> => Head(lanes[l]) \in EntryIds
    BY <1>1, HeadTailProperties DEF FramesOK, TypeOK, PlacesOK
  <2>2. EntryIds \subseteq Nat /\ 0 \in Levels
    BY ConfigAssumption DEF EntryIds, Levels
  <2>3. pc' \in [Fibers -> Labels]
    BY Zenon, <1>1 DEF FramesOK, PollLane, Labels, WorkerLabels
  <2>4. cur' \in [Fibers -> Nat] /\ scan' \in [Fibers -> Levels]
    BY Zenon, <1>1, <2>1, <2>2 DEF FramesOK, PollLane
  <2> QED
    BY <1>1, <2>3, <2>4 DEF FramesOK, PollLane
<1>4. OnlyFrame(w)
  BY <1>1 DEF TypeOK, PlacesOK, FramesOK, OnlyFrame, PollLane
<1>5. FrameOK(w)'
  <2>1. \/ pc'[w] = "latch2" /\ cur'[w] = Head(lanes[scan[w]])
           /\ lanes[scan[w]] # <<>>
        \/ pc'[w] \in {"poll", "check"}
    BY <1>1 DEF FramesOK, PollLane
  <2>2. CASE pc'[w] = "latch2"
    <3>1. cur'[w] \in EntryIds
      BY <1>1, <2>1, <2>2, HeadTailProperties DEF FramesOK, TypeOK, PlacesOK
    <3> QED
      BY <1>1, <2>2, <3>1, FibersAssumption, Kept
         DEF FrameOK, LabelsOf, WorkerLabels, EnqueueLabels, PollLane
  <2>3. CASE pc'[w] \in {"poll", "check"}
    BY <1>1, <2>3, FibersAssumption
       DEF FrameOK, LabelsOf, WorkerLabels, EnqueueLabels, WorksOnEntry, Holds,
           HasPermit, InBody, Enqueuing
  <2> QED
    BY <2>1, <2>2, <2>3
<1> QED
  BY <1>1, <1>2, <1>3, <1>4, <1>5, Kept, StepTypeOK DEF PollLane

LEMMA TakeNextEmptyTypeOK ==
    ASSUME TypeOK, NEW w \in Workers, TakeNextEmpty(w)
    PROVE  TypeOK'
<1>1. FramesOK /\ FrameOK(w)
  BY DEF TypeOK
<1>2. SignalsOK'
  BY DEF TypeOK, SignalsOK, WaitStates, TakeNextEmpty, Capture
<1>3. FramesOK'
  BY <1>1 DEF FramesOK, Labels, WorkerLabels, ClientLabels, MonitorLabels,
     EnqueueLabels, TakeNextEmpty, Capture, Waits, Channels
<1>4. OnlyFrame(w)
  BY <1>1 DEF FramesOK, OnlyFrame, TakeNextEmpty, Capture, Waits, Channels
<1>5. FrameOK(w)'
  <2>1. pc'[w] \in {"exit", "wait"}
    BY <1>1 DEF FramesOK, TakeNextEmpty, Capture, Waits, Channels
  <2> QED
    BY <1>1, <2>1, FibersAssumption DEF FramesOK, FrameOK, LabelsOf,
       WorkerLabels, ClientLabels, MonitorLabels, EnqueueLabels, WorksOnEntry,
       Holds, HasPermit, InBody, Enqueuing, EntryIds, TakeNextEmpty, Capture,
       Waits, Channels
<1> QED
  BY <1>1, <1>2, <1>3, <1>4, <1>5, Kept, StepTypeOK DEF TakeNextEmpty,
     Capture, Waits, Channels

LEMMA WorkerWokenTypeOK ==
    ASSUME TypeOK, NEW w \in Workers, WorkerWoken(w)
    PROVE  TypeOK'
<1>1. FramesOK /\ FrameOK(w)
  BY DEF TypeOK
<1>2. SignalsOK'
  BY DEF TypeOK, SignalsOK, WaitStates, WorkerWoken
<1>3. FramesOK'
  BY <1>1 DEF FramesOK, Labels, WorkerLabels, ClientLabels, MonitorLabels,
     EnqueueLabels, WorkerWoken
<1>4. OnlyFrame(w)
  BY <1>1 DEF FramesOK, OnlyFrame, WorkerWoken
<1>5. FrameOK(w)'
  <2>1. pc'[w] \in {"poll"}
    BY <1>1 DEF FramesOK, WorkerWoken
  <2> QED
    BY <1>1, <2>1, FibersAssumption DEF FramesOK, FrameOK, LabelsOf,
       WorkerLabels, ClientLabels, MonitorLabels, EnqueueLabels, WorksOnEntry,
       Holds, HasPermit, InBody, Enqueuing, EntryIds, WorkerWoken
<1> QED
  BY <1>1, <1>2, <1>3, <1>4, <1>5, Kept, StepTypeOK DEF WorkerWoken

LEMMA RateLimitAwaitTypeOK ==
    ASSUME TypeOK, NEW w \in Workers, RateLimitAwait(w)
    PROVE  TypeOK'
<1>1. FramesOK /\ FrameOK(w)
  BY DEF TypeOK
<1>2. FramesOK'
  BY Zenon, <1>1 DEF FramesOK, Labels, WorkerLabels, ClientLabels, MonitorLabels,
     EnqueueLabels, RateLimitAwait
<1>3. OnlyFrame(w)
  BY <1>1 DEF FramesOK, OnlyFrame, RateLimitAwait
<1>4. FrameOK(w)'
  <2>1. pc'[w] \in {"start", "skip"}
    BY <1>1 DEF FramesOK, RateLimitAwait
  <2> QED
    BY <1>1, <2>1, FibersAssumption DEF FramesOK, FrameOK, LabelsOf,
       WorkerLabels, ClientLabels, MonitorLabels, EnqueueLabels, WorksOnEntry,
       Holds, HasPermit, InBody, Enqueuing, EntryIds, RateLimitAwait
<1> QED
  BY <1>1, <1>2, <1>3, <1>4, Kept, StepTypeOK DEF RateLimitAwait

LEMMA SkipRateLimitedItemTypeOK ==
    ASSUME TypeOK, NEW w \in Workers, SkipRateLimitedItem(w)
    PROVE  TypeOK'
<1>1. FramesOK /\ FrameOK(w)
  BY DEF TypeOK
<1>2. StoreOK'
  BY ActiveKeysSub DEF SkipRateLimitedItem
<1>3. HistoryOK'
  <2>1. cur[w] \in EntryIds
    BY <1>1 DEF FrameOK, WorksOnEntry, Holds, SkipRateLimitedItem
  <2>2. left \in [OpNames -> Nat]
    BY DEF TypeOK, HistoryOK
  <2>3. {"skipped"} \subseteq Results
    BY DEF Results
  <2> QED
    BY <2>1, <2>2, <2>3, ResultSet, Kept DEF SkipRateLimitedItem
<1>4. FramesOK'
  BY <1>1 DEF FramesOK, Labels, WorkerLabels, ClientLabels, MonitorLabels,
     EnqueueLabels, SkipRateLimitedItem
<1>5. OnlyFrame(w)
  BY <1>1 DEF FramesOK, OnlyFrame, SkipRateLimitedItem
<1>6. FrameOK(w)'
  <2>1. pc'[w] \in {"fin1"}
    BY <1>1 DEF FramesOK, SkipRateLimitedItem
  <2> QED
    BY <1>1, <2>1, FibersAssumption DEF FramesOK, FrameOK, LabelsOf,
       WorkerLabels, ClientLabels, MonitorLabels, EnqueueLabels, WorksOnEntry,
       Holds, HasPermit, InBody, Enqueuing, EntryIds, SkipRateLimitedItem
<1> QED
  BY <1>1, <1>2, <1>3, <1>4, <1>5, <1>6, Kept, StepTypeOK DEF
     SkipRateLimitedItem

LEMMA StartItemTypeOK ==
    ASSUME TypeOK, NEW w \in Workers, StartItem(w)
    PROVE  TypeOK'
<1>1. FramesOK /\ FrameOK(w)
  BY DEF TypeOK
<1>2. CountersOK'
  BY DEF TypeOK, CountersOK, StartItem
<1>3. FramesOK'
  BY <1>1 DEF FramesOK, Labels, WorkerLabels, ClientLabels, MonitorLabels,
     EnqueueLabels, StartItem
<1>4. OnlyFrame(w)
  BY <1>1 DEF FramesOK, OnlyFrame, StartItem
<1>5. FrameOK(w)'
  <2>1. pc'[w] \in {"run"}
    BY <1>1 DEF FramesOK, StartItem
  <2> QED
    BY <1>1, <2>1, FibersAssumption DEF FramesOK, FrameOK, LabelsOf,
       WorkerLabels, ClientLabels, MonitorLabels, EnqueueLabels, WorksOnEntry,
       Holds, HasPermit, InBody, Enqueuing, EntryIds, StartItem
<1> QED
  BY <1>1, <1>2, <1>3, <1>4, <1>5, Kept, StepTypeOK DEF StartItem

LEMMA CtxEnqueueTypeOK ==
    ASSUME TypeOK, NEW w \in Workers, CtxEnqueue(w)
    PROVE  TypeOK'
<1>1. FramesOK /\ FrameOK(w)
  BY DEF TypeOK
<1>2. HistoryOK'
  BY SpendOK DEF TypeOK, HistoryOK, CtxEnqueue, OpNames
<1>3. FramesOK'
  <2>1. PICK items \in Batches, level \in AddLevels :
          CallEnqueue(w, "ctx", items, level, cur[w])
    BY DEF CtxEnqueue
  <2>2. /\ items \in Seq(Items) /\ level \in Int
        /\ cur[w] \in Nat /\ "ctx" \in Ops
    BY <1>1, ConfigAssumption DEF FramesOK, Ops, OpNames
  <2> QED
    BY <1>1, <2>1, <2>2, CallEnqueueOK DEF CtxEnqueue
<1>4. OnlyFrame(w)
  BY <1>1 DEF FramesOK, OnlyFrame, CtxEnqueue, CallEnqueue
<1>5. FrameOK(w)'
  <2>1. pc'[w] \in {"enq"}
    BY <1>1 DEF FramesOK, CtxEnqueue, CallEnqueue
  <2> QED
    BY <1>1, <2>1, FibersAssumption DEF FramesOK, FrameOK, LabelsOf,
       WorkerLabels, ClientLabels, MonitorLabels, EnqueueLabels, WorksOnEntry,
       Holds, HasPermit, InBody, Enqueuing, EntryIds, CtxEnqueue, CallEnqueue
<1> QED
  BY <1>1, <1>2, <1>3, <1>4, <1>5, Kept, StepTypeOK DEF CtxEnqueue,
     CallEnqueue

LEMMA EffectExitsTypeOK ==
    ASSUME TypeOK, NEW w \in Workers, EffectExits(w)
    PROVE  TypeOK'
<1>1. FramesOK /\ FrameOK(w)
  BY DEF TypeOK
<1>2. CountersOK'
  BY DEF TypeOK, CountersOK, EffectExits
<1>3. HistoryOK'
  BY SpendOK DEF TypeOK, HistoryOK, EffectExits, OpNames
<1>4. FramesOK'
  BY <1>1 DEF FramesOK, Labels, WorkerLabels, Ops, EffectExits
<1>5. OnlyFrame(w)
  BY <1>1 DEF FramesOK, OnlyFrame, EffectExits
<1>6. FrameOK(w)'
  <2>1. pc'[w] \in {"unkey"}
    BY <1>1 DEF FramesOK, EffectExits
  <2> QED
    BY <1>1, <2>1, FibersAssumption DEF FramesOK, FrameOK, LabelsOf,
       WorkerLabels, ClientLabels, MonitorLabels, EnqueueLabels, WorksOnEntry,
       Holds, HasPermit, InBody, Enqueuing, EntryIds, EffectExits
<1> QED
  BY <1>1, <1>2, <1>3, <1>4, <1>5, <1>6, Kept, StepTypeOK DEF EffectExits

LEMMA ReleaseKeyTypeOK ==
    ASSUME TypeOK, NEW w \in Workers, ReleaseKey(w)
    PROVE  TypeOK'
<1>1. FramesOK /\ FrameOK(w)
  BY DEF TypeOK
<1>2. StoreOK'
  BY ActiveKeysSub DEF ReleaseKey
<1>3. FramesOK'
  BY <1>1 DEF FramesOK, Labels, WorkerLabels, ClientLabels, MonitorLabels,
     EnqueueLabels, ReleaseKey
<1>4. OnlyFrame(w)
  BY <1>1 DEF FramesOK, OnlyFrame, ReleaseKey
<1>5. FrameOK(w)'
  <2>1. pc'[w] \in {"settle"}
    BY <1>1 DEF FramesOK, ReleaseKey
  <2> QED
    BY <1>1, <2>1, FibersAssumption DEF FramesOK, FrameOK, LabelsOf,
       WorkerLabels, ClientLabels, MonitorLabels, EnqueueLabels, WorksOnEntry,
       Holds, HasPermit, InBody, Enqueuing, EntryIds, ReleaseKey
<1> QED
  BY <1>1, <1>2, <1>3, <1>4, <1>5, Kept, StepTypeOK DEF ReleaseKey

LEMMA SettleItemTypeOK ==
    ASSUME TypeOK, NEW w \in Workers, SettleItem(w)
    PROVE  TypeOK'
<1>1. FramesOK /\ FrameOK(w)
  BY DEF TypeOK
<1>2. CountersOK'
  BY DEF TypeOK, CountersOK, SettleItem, InFlightLeft
<1>3. HistoryOK'
  <2>1. cur[w] \in EntryIds
    BY <1>1 DEF FrameOK, WorksOnEntry, Holds, InBody, SettleItem
  <2>2. left \in [OpNames -> Nat]
    BY DEF TypeOK, HistoryOK
  <2>3. {"ok"} \subseteq Results
    BY DEF Results
  <2> QED
    BY <2>1, <2>2, <2>3, ResultSet, Kept DEF SettleItem
<1>4. FramesOK'
  BY <1>1 DEF FramesOK, Labels, WorkerLabels, Ops, SettleItem
<1>5. OnlyFrame(w)
  BY <1>1 DEF FramesOK, OnlyFrame, SettleItem
<1>6. FrameOK(w)'
  <2>1. pc'[w] \in {"empty", "dispose"}
    BY <1>1 DEF FramesOK, SettleItem
  <2> QED
    BY <1>1, <2>1, FibersAssumption DEF FramesOK, FrameOK, LabelsOf,
       WorkerLabels, ClientLabels, MonitorLabels, EnqueueLabels, WorksOnEntry,
       Holds, HasPermit, InBody, Enqueuing, EntryIds, SettleItem
<1> QED
  BY <1>1, <1>2, <1>3, <1>4, <1>5, <1>6, Kept, StepTypeOK DEF SettleItem

LEMMA DisposeFailureTypeOK ==
    ASSUME TypeOK, NEW w \in Workers, DisposeFailure(w)
    PROVE  TypeOK'
<1>1. FramesOK /\ FrameOK(w)
  BY DEF TypeOK
<1>2. HistoryOK'
  <2>1. cur[w] \in EntryIds
    BY <1>1 DEF FrameOK, WorksOnEntry, Holds, DisposeFailure
  <2>2. left \in [OpNames -> Nat]
    BY DEF TypeOK, HistoryOK
  <2>3. {"retried", "exhausted", "routed", "failed"} \subseteq Results
    BY DEF Results
  <2>4. \E r \in Results : result' = [result EXCEPT ![cur[w]] = r]
    BY <2>3 DEF DisposeFailure
  <2> QED
    BY <2>1, <2>2, <2>4, ResultSet, Kept DEF DisposeFailure
<1>3. FramesOK'
  BY <1>1 DEF FramesOK, Labels, WorkerLabels, Ops, OpNames, DisposeFailure
<1>4. OnlyFrame(w)
  BY <1>1 DEF FramesOK, OnlyFrame, DisposeFailure
<1>5. FrameOK(w)'
  <2>1. pc'[w] \in {"requeue", "empty"}
    BY <1>1 DEF FramesOK, DisposeFailure
  <2> QED
    BY <1>1, <2>1, FibersAssumption DEF FramesOK, FrameOK, LabelsOf,
       WorkerLabels, ClientLabels, MonitorLabels, EnqueueLabels, WorksOnEntry,
       Holds, HasPermit, InBody, Enqueuing, EntryIds, DisposeFailure
<1> QED
  BY <1>1, <1>2, <1>3, <1>4, <1>5, Kept, StepTypeOK DEF DisposeFailure

LEMMA RetryReleaseTypeOK ==
    ASSUME TypeOK, NEW w \in Workers, RetryRelease(w)
    PROVE  TypeOK'
<1>1. FramesOK /\ FrameOK(w)
  BY DEF TypeOK
<1>2. StoreOK'
  BY ActiveKeysSub DEF RetryRelease
<1>3. FramesOK'
  <2>1. cur[w] \in EntryIds
    BY <1>1 DEF FrameOK, WorksOnEntry, HasPermit, RetryRelease
  <2>2. <<entry[cur[w]].item>> \in Seq(Items)
    BY <2>1, EntryOf DEF EntryRecords
  <2>3. cur[w] \in Nat /\ 0 \in Int /\ "retry" \in Ops
    BY <1>1 DEF FramesOK, Ops
  <2>4. CallEnqueue(w, "retry", <<entry[cur[w]].item>>, 0, cur[w])
    BY DEF RetryRelease
  <2>5. UNCHANGED <<scan, sel>>
    BY DEF RetryRelease
  <2> QED
    BY <1>1, <2>2, <2>3, <2>4, <2>5, CallEnqueueOK
<1>4. OnlyFrame(w)
  BY <1>1 DEF FramesOK, OnlyFrame, RetryRelease, CallEnqueue
<1>5. FrameOK(w)'
  <2>1. pc'[w] \in {"enq"}
    BY <1>1 DEF FramesOK, RetryRelease, CallEnqueue
  <2> QED
    BY <1>1, <2>1, FibersAssumption DEF FramesOK, FrameOK, LabelsOf,
       WorkerLabels, ClientLabels, MonitorLabels, EnqueueLabels, WorksOnEntry,
       Holds, HasPermit, InBody, Enqueuing, EntryIds, RetryRelease, CallEnqueue
<1> QED
  BY <1>1, <1>2, <1>3, <1>4, <1>5, Kept, StepTypeOK DEF RetryRelease,
     CallEnqueue

LEMMA ReleasePermitTypeOK ==
    ASSUME TypeOK, NEW w \in Workers, ReleasePermit(w)
    PROVE  TypeOK'
<1>1. FramesOK /\ FrameOK(w)
  BY DEF TypeOK
<1>2. CountersOK'
  BY DEF TypeOK, CountersOK, ReleasePermit
<1>3. FramesOK'
  BY <1>1 DEF FramesOK, Labels, WorkerLabels, ClientLabels, MonitorLabels,
     EnqueueLabels, ReleasePermit
<1>4. OnlyFrame(w)
  BY <1>1 DEF FramesOK, OnlyFrame, ReleasePermit
<1>5. FrameOK(w)'
  <2>1. pc'[w] \in {"fin1"}
    BY <1>1 DEF FramesOK, ReleasePermit
  <2> QED
    BY <1>1, <2>1, FibersAssumption DEF FramesOK, FrameOK, LabelsOf,
       WorkerLabels, ClientLabels, MonitorLabels, EnqueueLabels, WorksOnEntry,
       Holds, HasPermit, InBody, Enqueuing, EntryIds, ReleasePermit
<1> QED
  BY <1>1, <1>2, <1>3, <1>4, <1>5, Kept, StepTypeOK DEF ReleasePermit

LEMMA MonitorLoopTypeOK ==
    ASSUME TypeOK, MonitorLoop
    PROVE  TypeOK'
<1>1. FramesOK /\ FrameOK(DrainMonitor)
  BY DEF TypeOK
<1>2. SignalsOK'
  BY DEF TypeOK, SignalsOK, WaitStates, MonitorLoop, Capture, Waits, Channels
<1>3. FramesOK'
  BY <1>1 DEF FramesOK, Labels, WorkerLabels, ClientLabels, MonitorLabels,
     EnqueueLabels, MonitorLoop, Capture, Waits
<1>4. OnlyFrame(DrainMonitor)
  BY <1>1 DEF FramesOK, OnlyFrame, MonitorLoop, Capture, Waits
<1>5. FrameOK(DrainMonitor)'
  <2>1. pc'[DrainMonitor] \in {"wait"}
    BY <1>1 DEF FramesOK, MonitorLoop, Capture, Waits
  <2> QED
    BY <1>1, <2>1, FibersAssumption DEF FramesOK, FrameOK, LabelsOf,
       WorkerLabels, ClientLabels, MonitorLabels, EnqueueLabels, WorksOnEntry,
       Holds, HasPermit, InBody, Enqueuing, EntryIds, MonitorLoop, Capture,
       Waits
<1> QED
  BY <1>1, <1>2, <1>3, <1>4, <1>5, Kept, StepTypeOK DEF MonitorLoop, Capture,
     Waits

LEMMA MonitorWokenTypeOK ==
    ASSUME TypeOK, MonitorWoken
    PROVE  TypeOK'
<1>1. FramesOK /\ FrameOK(DrainMonitor)
  BY DEF TypeOK
<1>2. SignalsOK'
  BY DEF TypeOK, SignalsOK, WaitStates, MonitorWoken
<1>3. FramesOK'
  BY <1>1 DEF FramesOK, Labels, WorkerLabels, ClientLabels, MonitorLabels,
     EnqueueLabels, MonitorWoken
<1>4. OnlyFrame(DrainMonitor)
  BY <1>1 DEF FramesOK, OnlyFrame, MonitorWoken
<1>5. FrameOK(DrainMonitor)'
  <2>1. pc'[DrainMonitor] \in {"check"}
    BY <1>1 DEF FramesOK, MonitorWoken
  <2> QED
    BY <1>1, <2>1, FibersAssumption DEF FramesOK, FrameOK, LabelsOf,
       WorkerLabels, ClientLabels, MonitorLabels, EnqueueLabels, WorksOnEntry,
       Holds, HasPermit, InBody, Enqueuing, EntryIds, MonitorWoken
<1> QED
  BY <1>1, <1>2, <1>3, <1>4, <1>5, Kept, StepTypeOK DEF MonitorWoken

LEMMA MonitorCheckTypeOK ==
    ASSUME TypeOK, MonitorCheck
    PROVE  TypeOK'
<1>1. FramesOK /\ FrameOK(DrainMonitor)
  BY DEF TypeOK
<1>2. FramesOK'
  BY <1>1 DEF FramesOK, Labels, WorkerLabels, ClientLabels, MonitorLabels,
     EnqueueLabels, MonitorCheck
<1>3. OnlyFrame(DrainMonitor)
  BY <1>1 DEF FramesOK, OnlyFrame, MonitorCheck
<1>4. FrameOK(DrainMonitor)'
  <2>1. pc'[DrainMonitor] \in {"exit", "isEmpty", "load", "loop"}
    BY <1>1 DEF FramesOK, MonitorCheck
  <2> QED
    BY <1>1, <2>1, FibersAssumption DEF FramesOK, FrameOK, LabelsOf,
       WorkerLabels, ClientLabels, MonitorLabels, EnqueueLabels, WorksOnEntry,
       Holds, HasPermit, InBody, Enqueuing, EntryIds, MonitorCheck
<1> QED
  BY <1>1, <1>2, <1>3, <1>4, Kept, StepTypeOK DEF MonitorCheck

LEMMA MonitorLoadTypeOK ==
    ASSUME TypeOK, MonitorLoad
    PROVE  TypeOK'
<1>1. FramesOK /\ FrameOK(DrainMonitor)
  BY DEF TypeOK
<1>2. HistoryOK'
  BY SpendOK DEF TypeOK, HistoryOK, MonitorLoad, OpNames
<1>3. FramesOK'
  <2>1. PICK items \in Batches, level \in AddLevels :
          CallEnqueue(DrainMonitor, "refill", items, level, 0)
    BY DEF MonitorLoad
  <2>2. items \in Seq(Items) /\ level \in Int /\ "refill" \in Ops
    BY ConfigAssumption DEF Ops, OpNames
  <2> QED
    BY <1>1, <2>1, <2>2, CallEnqueueOK DEF MonitorLoad
<1>4. OnlyFrame(DrainMonitor)
  BY <1>1 DEF FramesOK, OnlyFrame, MonitorLoad, CallEnqueue
<1>5. FrameOK(DrainMonitor)'
  <2>1. pc'[DrainMonitor] \in {"enq"}
    BY <1>1 DEF FramesOK, MonitorLoad, CallEnqueue
  <2> QED
    BY <1>1, <2>1, FibersAssumption DEF FramesOK, FrameOK, LabelsOf,
       WorkerLabels, ClientLabels, MonitorLabels, EnqueueLabels, WorksOnEntry,
       Holds, HasPermit, InBody, Enqueuing, EntryIds, MonitorLoad, CallEnqueue
<1> QED
  BY <1>1, <1>2, <1>3, <1>4, <1>5, Kept, StepTypeOK DEF MonitorLoad,
     CallEnqueue

LEMMA CallAddTypeOK ==
    ASSUME TypeOK, NEW c \in Clients, CallAdd(c)
    PROVE  TypeOK'
<1>1. FramesOK /\ FrameOK(c)
  BY DEF TypeOK
<1>2. HistoryOK'
  BY SpendOK DEF TypeOK, HistoryOK, CallAdd, OpNames
<1>3. FramesOK'
  <2>1. PICK items \in Batches, level \in AddLevels :
          CallEnqueue(c, "add", items, level, 0)
    BY DEF CallAdd
  <2>2. items \in Seq(Items) /\ level \in Int /\ "add" \in Ops
    BY ConfigAssumption DEF Ops, OpNames
  <2> QED
    BY <1>1, <2>1, <2>2, CallEnqueueOK DEF CallAdd
<1>4. OnlyFrame(c)
  BY <1>1 DEF FramesOK, OnlyFrame, CallAdd, CallEnqueue
<1>5. FrameOK(c)'
  <2>1. pc'[c] \in {"enq"}
    BY <1>1 DEF FramesOK, CallAdd, CallEnqueue
  <2> QED
    BY <1>1, <2>1, FibersAssumption DEF FramesOK, FrameOK, LabelsOf,
       WorkerLabels, ClientLabels, MonitorLabels, EnqueueLabels, WorksOnEntry,
       Holds, HasPermit, InBody, Enqueuing, EntryIds, CallAdd, CallEnqueue
<1> QED
  BY <1>1, <1>2, <1>3, <1>4, <1>5, Kept, StepTypeOK DEF CallAdd, CallEnqueue

LEMMA CallEnqueueEntryTypeOK ==
    ASSUME TypeOK, NEW c \in Clients, CallEnqueueEntry(c)
    PROVE  TypeOK'
<1>1. FramesOK /\ FrameOK(c)
  BY DEF TypeOK
<1>2. HistoryOK'
  <2>1. PICK e \in EntryIds :
          /\ CallEnqueue(c, "reinject", <<entry[e].item>>, 0, e)
          /\ result' = [result EXCEPT ![e] = "reinjected"]
    BY DEF CallEnqueueEntry
  <2>2. left' \in [OpNames -> Nat]
    BY SpendOK DEF CallEnqueueEntry, OpNames
  <2>3. "reinjected" \in Results
    BY DEF Results
  <2> QED
    BY <2>1, <2>2, <2>3, ResultSet DEF CallEnqueueEntry
<1>3. FramesOK'
  <2>1. PICK e \in EntryIds :
          /\ CallEnqueue(c, "reinject", <<entry[e].item>>, 0, e)
          /\ result' = [result EXCEPT ![e] = "reinjected"]
    BY DEF CallEnqueueEntry
  <2>2. /\ <<entry[e].item>> \in Seq(Items) /\ e \in Nat /\ 0 \in Int
        /\ "reinject" \in Ops
    BY EntryOf DEF EntryRecords, EntryIds, Ops, OpNames
  <2>3. UNCHANGED <<scan, sel>>
    BY DEF CallEnqueueEntry
  <2> QED
    BY <1>1, <2>1, <2>2, <2>3, CallEnqueueOK
<1>4. OnlyFrame(c)
  BY <1>1 DEF FramesOK, OnlyFrame, CallEnqueueEntry, CallEnqueue
<1>5. FrameOK(c)'
  <2>1. pc'[c] \in {"enq"}
    BY <1>1 DEF FramesOK, CallEnqueueEntry, CallEnqueue
  <2> QED
    BY <1>1, <2>1, FibersAssumption DEF FramesOK, FrameOK, LabelsOf,
       WorkerLabels, ClientLabels, MonitorLabels, EnqueueLabels, WorksOnEntry,
       Holds, HasPermit, InBody, Enqueuing, EntryIds, CallEnqueueEntry,
       CallEnqueue
<1> QED
  BY <1>1, <1>2, <1>3, <1>4, <1>5, Kept, StepTypeOK DEF CallEnqueueEntry,
     CallEnqueue

LEMMA CallPauseTypeOK ==
    ASSUME TypeOK, NEW c \in Clients, CallPause(c)
    PROVE  TypeOK'
<1>1. FramesOK /\ FrameOK(c)
  BY DEF TypeOK
<1>2. FlagsOK'
  BY DEF TypeOK, FlagsOK, CallPause, Call
<1>3. HistoryOK'
  BY SpendOK DEF TypeOK, HistoryOK, CallPause, Call, OpNames
<1>4. FramesOK'
  <2>1. "pause" \in Ops /\ {"setPaused"} \subseteq Labels /\ AnySelector \in Selectors
    BY DEF Ops, OpNames, Labels, ClientLabels, AnySelector, Selectors
  <2> QED
    BY <1>1, <2>1, CallOK DEF CallPause
<1>5. OnlyFrame(c)
  BY <1>1 DEF FramesOK, OnlyFrame, CallPause, Call
<1>6. FrameOK(c)'
  <2>1. pc'[c] \in {"setPaused"}
    BY <1>1 DEF FramesOK, CallPause, Call
  <2> QED
    BY <1>1, <2>1, FibersAssumption DEF FramesOK, FrameOK, LabelsOf,
       WorkerLabels, ClientLabels, MonitorLabels, EnqueueLabels, WorksOnEntry,
       Holds, HasPermit, InBody, Enqueuing, EntryIds, CallPause, Call
<1> QED
  BY <1>1, <1>2, <1>3, <1>4, <1>5, <1>6, Kept, StepTypeOK DEF CallPause, Call

LEMMA CallShutdownTypeOK ==
    ASSUME TypeOK, NEW c \in Clients, CallShutdown(c)
    PROVE  TypeOK'
<1>1. FramesOK /\ FrameOK(c)
  BY DEF TypeOK
<1>2. FlagsOK'
  BY DEF TypeOK, FlagsOK, CallShutdown, Call, Phases, PhaseOnShutdown
<1>3. HistoryOK'
  BY SpendOK DEF TypeOK, HistoryOK, CallShutdown, Call, OpNames
<1>4. FramesOK'
  <2>1. "shutdown" \in Ops /\ {"idle", "setShutdown"} \subseteq Labels /\ AnySelector \in Selectors
    BY DEF Ops, OpNames, Labels, ClientLabels, AnySelector, Selectors
  <2> QED
    BY <1>1, <2>1, CallOK DEF CallShutdown
<1>5. OnlyFrame(c)
  BY <1>1 DEF FramesOK, OnlyFrame, CallShutdown, Call
<1>6. FrameOK(c)'
  <2>1. pc'[c] \in {"setShutdown", "idle"}
    BY <1>1 DEF FramesOK, CallShutdown, Call
  <2> QED
    BY <1>1, <2>1, FibersAssumption DEF FramesOK, FrameOK, LabelsOf,
       WorkerLabels, ClientLabels, MonitorLabels, EnqueueLabels, WorksOnEntry,
       Holds, HasPermit, InBody, Enqueuing, EntryIds, CallShutdown, Call
<1> QED
  BY <1>1, <1>2, <1>3, <1>4, <1>5, <1>6, Kept, StepTypeOK DEF CallShutdown,
     Call

LEMMA CallExtractTypeOK ==
    ASSUME TypeOK, NEW c \in Clients, CallExtract(c)
    PROVE  TypeOK'
<1>1. FramesOK /\ FrameOK(c)
  BY DEF TypeOK
<1>2. HistoryOK'
  <2>1. PICK o \in {"clear", "release", "releaseEncoded", "route"},
             s \in Selectors : Call(c, o, "drain", s)
    BY DEF CallExtract, Selectors, AnySelector, EntryIds
  <2> QED
    BY Zenon, <2>1, SpendOK DEF TypeOK, HistoryOK, CallExtract, Call, OpNames
<1>3. FramesOK'
  <2>1. PICK o \in {"clear", "release", "releaseEncoded", "route"},
             s \in Selectors : Call(c, o, "drain", s)
    BY DEF CallExtract, Selectors, AnySelector, EntryIds
  <2>2. o \in Ops /\ "drain" \in Labels
    BY DEF Ops, OpNames, Labels, ClientLabels
  <2> QED
    BY <1>1, <2>1, <2>2, CallOK
<1>4. OnlyFrame(c)
  BY <1>1 DEF FramesOK, OnlyFrame, CallExtract, Call
<1>5. FrameOK(c)'
  <2>1. PICK o \in {"clear", "release", "releaseEncoded", "route"},
             s \in Selectors : Call(c, o, "drain", s)
    BY DEF CallExtract, Selectors, AnySelector, EntryIds
  <2>2. pc'[c] = "drain" /\ op'[c] = o
    BY <1>1, <2>1 DEF FramesOK, Call
  <2> QED
    BY <2>2, FibersAssumption
       DEF FrameOK, LabelsOf, ClientLabels, EnqueueLabels, ExtractOps,
           WorksOnEntry, Enqueuing
<1> QED
  BY <1>1, <1>2, <1>3, <1>4, <1>5, Kept, StepTypeOK DEF CallExtract, Call

LEMMA CallStartTypeOK ==
    ASSUME TypeOK, NEW c \in Clients, CallStart(c)
    PROVE  TypeOK'
<1>1. FramesOK /\ FrameOK(c)
  BY DEF TypeOK
<1>2. HistoryOK'
  BY SpendOK DEF TypeOK, HistoryOK, CallStart, Call, OpNames
<1>3. FramesOK'
  <2>1. "start" \in Ops /\ {"idle", "claimStart"} \subseteq Labels /\ AnySelector \in Selectors
    BY DEF Ops, OpNames, Labels, ClientLabels, AnySelector, Selectors
  <2> QED
    BY <1>1, <2>1, CallOK DEF CallStart
<1>4. OnlyFrame(c)
  BY <1>1 DEF FramesOK, OnlyFrame, CallStart, Call
<1>5. FrameOK(c)'
  <2>1. pc'[c] \in {"idle", "claimStart"}
    BY <1>1 DEF FramesOK, CallStart, Call
  <2> QED
    BY <1>1, <2>1, FibersAssumption DEF FramesOK, FrameOK, LabelsOf,
       WorkerLabels, ClientLabels, MonitorLabels, EnqueueLabels, WorksOnEntry,
       Holds, HasPermit, InBody, Enqueuing, EntryIds, CallStart, Call
<1> QED
  BY <1>1, <1>2, <1>3, <1>4, <1>5, Kept, StepTypeOK DEF CallStart, Call

LEMMA InterruptCallTypeOK ==
    ASSUME TypeOK, NEW c \in Clients, InterruptCall(c)
    PROVE  TypeOK'
<1>1. FramesOK /\ FrameOK(c)
  BY DEF TypeOK
<1>2. PlacesOK'
  BY DEF TypeOK, PlacesOK, EntryIds, InterruptCall
<1>3. HistoryOK'
  <2>1. left' \in [OpNames -> Nat] /\ "lost" \in Results
    BY SpendOK DEF InterruptCall, OpNames, Results
  <2> QED
    BY <2>1, MarkAllOK DEF InterruptCall
<1>4. FramesOK'
  <2>1. AnySelector \in Selectors /\ "none" \in Ops /\ "idle" \in Labels
    BY DEF AnySelector, Selectors, Ops, Labels, ClientLabels
  <2>2. 0 \in Levels
    BY ConfigAssumption DEF Levels
  <2> QED
    BY <1>1, <2>1, <2>2 DEF FramesOK, InterruptCall, Return
<1>5. OnlyFrame(c)
  BY <1>1 DEF TypeOK, PlacesOK, FramesOK, OnlyFrame, InterruptCall, Return
<1>6. FrameOK(c)'
  <2>1. pc'[c] \in {"idle"}
    BY <1>1 DEF FramesOK, InterruptCall, Return
  <2> QED
    BY <1>1, <2>1, FibersAssumption DEF FramesOK, FrameOK, LabelsOf,
       WorkerLabels, ClientLabels, MonitorLabels, EnqueueLabels, WorksOnEntry,
       Holds, HasPermit, InBody, Enqueuing, EntryIds, InterruptCall, Return
<1> QED
  BY <1>1, <1>2, <1>3, <1>4, <1>5, <1>6, Kept, StepTypeOK DEF InterruptCall,
     Return

LEMMA SetPausedTypeOK ==
    ASSUME TypeOK, NEW c \in Clients, SetPaused(c)
    PROVE  TypeOK'
<1>1. FramesOK /\ FrameOK(c)
  BY DEF TypeOK
<1>2. FlagsOK'
  BY DEF TypeOK, FlagsOK, SetPaused
<1>3. FramesOK'
  <2>1. {"idle", "wake1"} \subseteq Labels
    BY DEF Labels, ClientLabels, EnqueueLabels
  <2> QED
    BY <1>1, <2>1, ReturnOK DEF SetPaused
<1>4. OnlyFrame(c)
  BY <1>1 DEF FramesOK, OnlyFrame, SetPaused, Return
<1>5. FrameOK(c)'
  <2>1. \/ pc'[c] = "idle" /\ op'[c] = "none"
        \/ pc'[c] = "wake1" /\ op[c] = "shutdown" /\ op'[c] = "shutdown"
    BY <1>1 DEF FramesOK, FrameOK, SetPaused, Return
  <2> QED
    BY <2>1, FibersAssumption
       DEF FrameOK, LabelsOf, ClientLabels, EnqueueLabels, WorksOnEntry,
           Enqueuing
<1> QED
  BY <1>1, <1>2, <1>3, <1>4, <1>5, Kept, StepTypeOK DEF SetPaused, Return

LEMMA SetShutdownTypeOK ==
    ASSUME TypeOK, NEW c \in Clients, SetShutdown(c)
    PROVE  TypeOK'
<1>1. FramesOK /\ FrameOK(c)
  BY DEF TypeOK
<1>2. FlagsOK'
  BY DEF TypeOK, FlagsOK, SetShutdown
<1>3. FramesOK'
  BY <1>1 DEF FramesOK, Labels, WorkerLabels, ClientLabels, MonitorLabels,
     EnqueueLabels, SetShutdown
<1>4. OnlyFrame(c)
  BY <1>1 DEF FramesOK, OnlyFrame, SetShutdown
<1>5. FrameOK(c)'
  <2>1. pc'[c] \in {"drain", "wind"} /\ op'[c] = "shutdown"
    BY <1>1 DEF FramesOK, FrameOK, SetShutdown
  <2> QED
    BY <2>1, FibersAssumption
       DEF FrameOK, LabelsOf, ClientLabels, EnqueueLabels, ExtractOps,
           WorksOnEntry, Enqueuing
<1> QED
  BY <1>1, <1>2, <1>3, <1>4, <1>5, Kept, StepTypeOK DEF SetShutdown

----------------------------------------------------------------------------
(* The steps of a handle operation.                                          *)

LEMMA DrainLaneTypeOK ==
    ASSUME TypeOK, NEW c \in Clients, DrainLane(c)
    PROVE  TypeOK'
<1>1. FramesOK /\ FrameOK(c)
  BY DEF TypeOK
<1>2. PlacesOK'
  <2> DEFINE l == scan[c]
  <2>1. /\ l \in Levels /\ lanes \in [Levels -> Seq(EntryIds)]
        /\ hand \in [Fibers -> Seq(EntryIds)]
        /\ kept \in [Fibers -> Seq(EntryIds)]
    BY <1>1 DEF FramesOK, TypeOK, PlacesOK
  <2>2. ASSUME lanes[l] # <<>>
        PROVE  /\ Tail(lanes[l]) \in Seq(EntryIds)
               /\ Append(hand[c], Head(lanes[l])) \in Seq(EntryIds)
               /\ Append(kept[c], Head(lanes[l])) \in Seq(EntryIds)
    BY <2>1, <2>2, HeadTailProperties, AppendProperties
  <2>3. /\ lanes' \in [Levels -> Seq(EntryIds)]
        /\ hand' \in [Fibers -> Seq(EntryIds)]
        /\ kept' \in [Fibers -> Seq(EntryIds)]
    BY <2>1, <2>2 DEF DrainLane
  <2> QED
    BY <2>3, Kept DEF PlacesOK, DrainLane
<1>3. FramesOK'
  <2>1. 0 \in Levels
    BY ConfigAssumption DEF Levels
  <2>2. pc' \in [Fibers -> Labels] /\ scan' \in [Fibers -> Levels]
    BY Zenon, <1>1, <2>1 DEF FramesOK, DrainLane, NextLane, Labels, ClientLabels
  <2> QED
    BY <1>1, <2>2 DEF FramesOK, DrainLane
<1>4. OnlyFrame(c)
  BY <1>1 DEF TypeOK, PlacesOK, FramesOK, OnlyFrame, DrainLane, NextLane
<1>5. FrameOK(c)'
  <2>1. /\ pc'[c] \in {"drain", "putback", "keys"}
        /\ pc'[c] = "putback" => kept'[c] # <<>>
        /\ op[c] \in ExtractOps /\ op' = op
    BY <1>1 DEF FramesOK, FrameOK, DrainLane, NextLane
  <2> QED
    BY <1>1, <2>1, FibersAssumption
       DEF FrameOK, LabelsOf, ClientLabels, EnqueueLabels, WorksOnEntry,
           Enqueuing
<1> QED
  BY <1>1, <1>2, <1>3, <1>4, <1>5, Kept, StepTypeOK DEF DrainLane, NextLane

LEMMA PutBackTypeOK ==
    ASSUME TypeOK, NEW c \in Clients, PutBack(c)
    PROVE  TypeOK'
<1>1. FramesOK /\ FrameOK(c)
  BY DEF TypeOK
<1>2. PlacesOK'
  <2> DEFINE l == scan[c]
  <2>1. /\ l \in Levels /\ lanes \in [Levels -> Seq(EntryIds)]
        /\ hand \in [Fibers -> Seq(EntryIds)]
        /\ kept \in [Fibers -> Seq(EntryIds)]
    BY <1>1 DEF FramesOK, TypeOK, PlacesOK
  <2>2. kept[c] # <<>>
    BY <1>1 DEF FrameOK, PutBack
  <2>3. /\ Tail(kept[c]) \in Seq(EntryIds)
        /\ Append(lanes[l], Head(kept[c])) \in Seq(EntryIds)
    BY <2>1, <2>2, HeadTailProperties, AppendProperties
  <2>4. /\ lanes' \in [Levels -> Seq(EntryIds)]
        /\ kept' \in [Fibers -> Seq(EntryIds)]
    BY <2>1, <2>3 DEF PutBack
  <2> QED
    BY <2>1, <2>4, Kept DEF PlacesOK, PutBack
<1>3. FramesOK'
  <2>1. 0 \in Levels
    BY ConfigAssumption DEF Levels
  <2>2. pc' \in [Fibers -> Labels] /\ scan' \in [Fibers -> Levels]
    BY <1>1, <2>1 DEF FramesOK, PutBack, NextLane, Labels, ClientLabels
  <2> QED
    BY <1>1, <2>2 DEF FramesOK, PutBack
<1>4. OnlyFrame(c)
  BY <1>1 DEF TypeOK, PlacesOK, FramesOK, OnlyFrame, PutBack, NextLane
<1>5. FrameOK(c)'
  <2>1. kept[c] \in Seq(EntryIds) /\ kept[c] # <<>>
    BY <1>1 DEF TypeOK, PlacesOK, FrameOK, PutBack
  <2>2. Len(kept[c]) # 1 => Tail(kept[c]) # <<>>
    BY <2>1, TailLeft
  <2>3. kept'[c] = Tail(kept[c])
    BY DEF TypeOK, PlacesOK, PutBack
  <2>4. /\ pc'[c] \in {"drain", "putback", "keys"}
        /\ pc'[c] = "putback" => Len(kept[c]) # 1
        /\ op[c] \in ExtractOps /\ op' = op
    BY <1>1 DEF FramesOK, FrameOK, PutBack, NextLane
  <2> QED
    BY <1>1, <2>2, <2>3, <2>4, FibersAssumption
       DEF FrameOK, LabelsOf, ClientLabels, EnqueueLabels, WorksOnEntry,
           Enqueuing
<1> QED
  BY <1>1, <1>2, <1>3, <1>4, <1>5, Kept, StepTypeOK DEF PutBack, NextLane

LEMMA ReleaseKeysTypeOK ==
    ASSUME TypeOK, NEW c \in Clients, ReleaseKeys(c)
    PROVE  TypeOK'
<1>1. FramesOK /\ FrameOK(c)
  BY DEF TypeOK
<1>2. StoreOK'
  BY ActiveKeysSub DEF ReleaseKeys
<1>3. PlacesOK'
  <2>1. << >> \in Seq(EntryIds)
    BY EmptySeq
  <2>2. hand' \in [Fibers -> Seq(EntryIds)]
    BY <2>1 DEF TypeOK, PlacesOK, ReleaseKeys
  <2> QED
    BY <2>2, Kept DEF TypeOK, PlacesOK, ReleaseKeys
<1>4. HistoryOK'
  <2>1. left \in [OpNames -> Nat]
    BY DEF TypeOK, HistoryOK
  <2>2. op[c] # "releaseEncoded" => SettledAs(op[c]) \in Results
    BY <1>1 DEF FrameOK, ReleaseKeys, ExtractOps, SettledAs, Results
  <2>3. CASE op[c] = "releaseEncoded"
    BY <2>3, Kept DEF ReleaseKeys
  <2>4. CASE op[c] # "releaseEncoded"
    BY <2>1, <2>2, <2>4, MarkAllOK DEF ReleaseKeys
  <2> QED
    BY <2>3, <2>4
<1>5. FramesOK'
  BY Zenon, <1>1 DEF FramesOK, Labels, WorkerLabels, ClientLabels, EnqueueLabels,
     ReleaseKeys, AfterKeys
<1>6. OnlyFrame(c)
  BY <1>1 DEF TypeOK, PlacesOK, FramesOK, OnlyFrame, ReleaseKeys, AfterKeys
<1>7. FrameOK(c)'
  <2>1. pc'[c] \in {"encode", "zero", "wake1", "empty"}
    BY <1>1 DEF FramesOK, ReleaseKeys, AfterKeys
  <2> QED
    BY <1>1, <2>1, FibersAssumption DEF FramesOK, FrameOK, LabelsOf,
       WorkerLabels, ClientLabels, MonitorLabels, EnqueueLabels, WorksOnEntry,
       Holds, HasPermit, InBody, Enqueuing, EntryIds, ReleaseKeys, AfterKeys
<1> QED
  BY <1>1, <1>2, <1>3, <1>4, <1>5, <1>6, <1>7, Kept, StepTypeOK DEF
     ReleaseKeys, AfterKeys

LEMMA ResetCompletedTypeOK ==
    ASSUME TypeOK, NEW c \in Clients, ResetCompleted(c)
    PROVE  TypeOK'
<1>1. FramesOK /\ FrameOK(c)
  BY DEF TypeOK
<1>2. CountersOK'
  BY DEF TypeOK, CountersOK, ResetCompleted
<1>3. FramesOK'
  BY <1>1 DEF FramesOK, Labels, WorkerLabels, ClientLabels, MonitorLabels,
     EnqueueLabels, ResetCompleted
<1>4. OnlyFrame(c)
  BY <1>1 DEF FramesOK, OnlyFrame, ResetCompleted
<1>5. FrameOK(c)'
  <2>1. pc'[c] \in {"empty"}
    BY <1>1 DEF FramesOK, ResetCompleted
  <2> QED
    BY <1>1, <2>1, FibersAssumption DEF FramesOK, FrameOK, LabelsOf,
       WorkerLabels, ClientLabels, MonitorLabels, EnqueueLabels, WorksOnEntry,
       Holds, HasPermit, InBody, Enqueuing, EntryIds, ResetCompleted
<1> QED
  BY <1>1, <1>2, <1>3, <1>4, <1>5, Kept, StepTypeOK DEF ResetCompleted

LEMMA EncodeReleasedTypeOK ==
    ASSUME TypeOK, NEW c \in Clients, EncodeReleased(c)
    PROVE  TypeOK'
<1>1. FramesOK /\ FrameOK(c)
  BY DEF TypeOK
<1>2. PlacesOK'
  <2>1. << >> \in Seq(EntryIds)
    BY EmptySeq
  <2>2. hand' \in [Fibers -> Seq(EntryIds)]
    BY <2>1 DEF TypeOK, PlacesOK, EncodeReleased
  <2> QED
    BY <2>2, Kept DEF TypeOK, PlacesOK, EncodeReleased
<1>3. HistoryOK'
  <2>1. left \in [OpNames -> Nat] /\ "released" \in Results
    BY DEF TypeOK, HistoryOK, Results
  <2>2. CASE Spend("encodeError") /\ result' = result
    BY <2>2, SpendOK DEF TypeOK, HistoryOK, EncodeReleased, OpNames
  <2>3. CASE result' = MarkAll(Range(hand[c]), "released") /\ left' = left
    BY <2>1, <2>3, MarkAllOK DEF EncodeReleased
  <2> QED
    BY <2>2, <2>3 DEF EncodeReleased
<1>4. FramesOK'
  BY Zenon, <1>1 DEF FramesOK, Labels, WorkerLabels, ClientLabels, MonitorLabels,
     EnqueueLabels, EncodeReleased
<1>5. OnlyFrame(c)
  BY <1>1 DEF TypeOK, PlacesOK, FramesOK, OnlyFrame, EncodeReleased
<1>6. FrameOK(c)'
  <2>1. \/ pc'[c] = "empty"
        \/ pc'[c] = "restore" /\ hand'[c] # <<>>
    BY <1>1 DEF FramesOK, EncodeReleased
  <2> QED
    BY <1>1, <2>1, FibersAssumption
       DEF FrameOK, LabelsOf, ClientLabels, EnqueueLabels, WorksOnEntry,
           Enqueuing, EncodeReleased
<1> QED
  BY <1>1, <1>2, <1>3, <1>4, <1>5, <1>6, Kept, StepTypeOK DEF EncodeReleased

LEMMA RestorePendingTypeOK ==
    ASSUME TypeOK, NEW c \in Clients, RestorePending(c)
    PROVE  TypeOK'
<1>1. FramesOK /\ FrameOK(c)
  BY DEF TypeOK
<1>2. PlacesOK'
  <2> DEFINE e == Head(hand[c])
  <2>1. /\ lanes \in [Levels -> Seq(EntryIds)]
        /\ hand \in [Fibers -> Seq(EntryIds)] /\ hand[c] # <<>>
    BY <1>1 DEF TypeOK, PlacesOK, FrameOK, RestorePending
  <2>2. e \in EntryIds /\ Tail(hand[c]) \in Seq(EntryIds)
    BY <2>1, HeadTailProperties
  <2>3. LaneOf(e) \in Levels
    BY <2>2, LaneOfLevel
  <2>4. Append(lanes[LaneOf(e)], e) \in Seq(EntryIds)
    BY <2>1, <2>2, <2>3, AppendProperties
  <2>5. /\ lanes' \in [Levels -> Seq(EntryIds)]
        /\ hand' \in [Fibers -> Seq(EntryIds)]
    BY <2>1, <2>2, <2>3, <2>4 DEF RestorePending
  <2> QED
    BY <2>5, Kept DEF TypeOK, PlacesOK, RestorePending
<1>3. FramesOK'
  <2>1. Head(hand[c]) \in EntryIds /\ EntryIds \subseteq Nat
    BY <1>1, HeadTailProperties
       DEF TypeOK, PlacesOK, FrameOK, RestorePending, EntryIds
  <2> QED
    BY <1>1, <2>1 DEF FramesOK, RestorePending, Labels, ClientLabels
<1>4. OnlyFrame(c)
  BY <1>1 DEF TypeOK, PlacesOK, FramesOK, OnlyFrame, RestorePending
<1>5. FrameOK(c)'
  <2>1. Head(hand[c]) \in EntryIds /\ EntryIds \subseteq Nat
    BY <1>1, HeadTailProperties
       DEF TypeOK, PlacesOK, FrameOK, RestorePending, EntryIds
  <2>2. /\ pc'[c] = "rekey" /\ op'[c] = op[c]
        /\ cur'[c] = Head(hand[c]) /\ entry' = entry
    BY <1>1 DEF FramesOK, RestorePending
  <2> QED
    BY <1>1, <2>1, <2>2, FibersAssumption
       DEF FrameOK, LabelsOf, ClientLabels, EnqueueLabels, WorksOnEntry,
           Enqueuing, EntryIds
<1> QED
  BY <1>1, <1>2, <1>3, <1>4, <1>5, Kept, StepTypeOK DEF RestorePending

LEMMA RestoreActiveKeyTypeOK ==
    ASSUME TypeOK, NEW c \in Clients, RestoreActiveKey(c)
    PROVE  TypeOK'
<1>1. FramesOK /\ FrameOK(c)
  BY DEF TypeOK
<1>2. StoreOK'
  <2>1. cur[c] \in EntryIds
    BY <1>1 DEF FrameOK, WorksOnEntry, RestoreActiveKey
  <2>2. KeysOf({cur[c]}) \subseteq Keys
    BY <2>1, KeysOfSub
  <2> QED
    BY <2>2 DEF TypeOK, StoreOK, RestoreActiveKey
<1>3. FramesOK'
  BY <1>1 DEF FramesOK, Labels, WorkerLabels, ClientLabels, MonitorLabels,
     EnqueueLabels, RestoreActiveKey
<1>4. OnlyFrame(c)
  BY <1>1 DEF FramesOK, OnlyFrame, RestoreActiveKey
<1>5. FrameOK(c)'
  <2>1. /\ \/ pc'[c] = "wake1"
           \/ pc'[c] = "restore" /\ hand'[c] # <<>>
        /\ op' = op /\ cur' = cur /\ entry' = entry
    BY <1>1 DEF FramesOK, RestoreActiveKey
  <2>2. cur[c] \in EntryIds
    BY <1>1 DEF FrameOK, WorksOnEntry, RestoreActiveKey
  <2> QED
    BY <1>1, <2>1, <2>2, FibersAssumption
       DEF FrameOK, LabelsOf, ClientLabels, EnqueueLabels, WorksOnEntry,
           Enqueuing, EntryIds
<1> QED
  BY <1>1, <1>2, <1>3, <1>4, <1>5, Kept, StepTypeOK DEF RestoreActiveKey

LEMMA OpenLatchOK ==
    ASSUME TypeOK, NEW c \in Clients, NEW label \in ClientLabels,
           OpenLatch(c, label), FrameOK(c)',
           UNCHANGED <<entry, activeKeys, lanes, cur, scan, todo, lvl, sel,
                       hand, kept>>,
           op' \in [Fibers -> Ops], \A g \in Fibers \ {c} : op'[g] = op[g]
    PROVE  FramesOK' /\ \A g \in Fibers : FrameOK(g)'
<1>1. FramesOK /\ \A g \in Fibers : FrameOK(g)
  BY DEF TypeOK
<1>2. FramesOK'
  BY <1>1 DEF FramesOK, OpenLatch, Labels, WorkerLabels
<1>3. ASSUME NEW g \in Fibers, g # c
      PROVE  FrameOK(g)'
  <2>1. pc'[g] = IF pc[g] = "shut1" THEN "poll"
                 ELSE IF pc[g] = "shut2" THEN "rate" ELSE pc[g]
    BY <1>1, <1>3 DEF FramesOK, OpenLatch
  <2>2. /\ op'[g] = op[g] /\ cur'[g] = cur[g] /\ entry' = entry
        /\ todo'[g] = todo[g] /\ hand'[g] = hand[g] /\ kept'[g] = kept[g]
    BY <1>3
  <2>3. CASE pc[g] \in {"shut1", "shut2"}
    <3>1. g \in Workers
      BY <1>1, <2>3
         DEF FrameOK, LabelsOf, ClientLabels, MonitorLabels, EnqueueLabels
    <3> QED
      BY <1>1, <2>1, <2>2, <2>3, <3>1
         DEF FrameOK, LabelsOf, WorkerLabels, EnqueueLabels, WorksOnEntry,
             Holds, HasPermit, InBody, Enqueuing, EntryIds
  <2>4. CASE pc[g] \notin {"shut1", "shut2"}
    <3>1. pc'[g] = pc[g]
      BY <2>1, <2>4
    <3>2. WorksOnEntry(g)' <=> WorksOnEntry(g)
      BY <2>2, <3>1 DEF WorksOnEntry, Holds, HasPermit, InBody, Enqueuing
    <3> QED
      BY <1>1, <2>2, <3>1, <3>2 DEF FrameOK, LabelsOf, EntryIds
  <2> QED
    BY <2>3, <2>4
<1> QED
  BY <1>2, <1>3

LEMMA CallResumeTypeOK ==
    ASSUME TypeOK, NEW c \in Clients, CallResume(c)
    PROVE  TypeOK'
<1>1. FramesOK /\ FrameOK(c)
  BY DEF TypeOK
<1>2. FlagsOK'
  BY DEF TypeOK, FlagsOK, CallResume, OpenLatch
<1>3. HistoryOK'
  BY SpendOK DEF TypeOK, HistoryOK, CallResume, OpNames
<1>4. pc'[c] = "setResumed" /\ op'[c] = "resume"
  BY <1>1 DEF FramesOK, CallResume, OpenLatch
<1>5. FrameOK(c)'
  BY <1>4, FibersAssumption
     DEF FrameOK, LabelsOf, ClientLabels, EnqueueLabels, WorksOnEntry,
         Enqueuing
<1>6. op' \in [Fibers -> Ops] /\ \A g \in Fibers \ {c} : op'[g] = op[g]
  BY <1>1 DEF FramesOK, CallResume, Ops, OpNames
<1>7. "setResumed" \in ClientLabels
  BY DEF ClientLabels
<1> QED
  BY <1>2, <1>3, <1>5, <1>6, <1>7, OpenLatchOK, Kept DEF TypeOK, CallResume

LEMMA DrainModeOpensLatchTypeOK ==
    ASSUME TypeOK, NEW c \in Clients, DrainModeOpensLatch(c)
    PROVE  TypeOK'
<1>1. FramesOK /\ FrameOK(c)
  BY DEF TypeOK
<1>2. FlagsOK'
  BY DEF TypeOK, FlagsOK, DrainModeOpensLatch, OpenLatch
<1>3. pc'[c] = "unpause" /\ op'[c] = "shutdown"
  BY <1>1 DEF FramesOK, FrameOK, DrainModeOpensLatch, OpenLatch
<1>4. FrameOK(c)'
  BY <1>3, FibersAssumption
     DEF FrameOK, LabelsOf, ClientLabels, EnqueueLabels, WorksOnEntry,
         Enqueuing
<1>5. op' \in [Fibers -> Ops] /\ \A g \in Fibers \ {c} : op'[g] = op[g]
  BY <1>1 DEF FramesOK, DrainModeOpensLatch
<1>6. "unpause" \in ClientLabels
  BY DEF ClientLabels
<1> QED
  BY <1>2, <1>4, <1>5, <1>6, OpenLatchOK, Kept DEF TypeOK, DrainModeOpensLatch

LEMMA ForkProcessingFibersTypeOK ==
    ASSUME TypeOK, NEW c \in Clients, ForkProcessingFibers(c)
    PROVE  TypeOK'
<1>1. FramesOK /\ \A g \in Fibers : FrameOK(g)
  BY DEF TypeOK
<1>2. FlagsOK'
  BY DEF TypeOK, FlagsOK, ForkProcessingFibers
<1>3. FramesOK'
  BY <1>1 DEF FramesOK, ForkProcessingFibers, ForkWorkers, Labels,
              WorkerLabels, ClientLabels, Ops
<1>4. pc'[c] = "idle" /\ op'[c] = "none"
  BY <1>1 DEF FramesOK, ForkProcessingFibers, ForkWorkers
<1>5. FrameOK(c)'
  BY <1>4, FibersAssumption
     DEF FrameOK, LabelsOf, ClientLabels, EnqueueLabels, WorksOnEntry,
         Enqueuing
<1>6. ASSUME NEW g \in Fibers, g # c
      PROVE  FrameOK(g)'
  <2>1. \/ pc'[g] = "loop" /\ g \notin Clients
        \/ pc'[g] = pc[g]
    BY <1>1, <1>6 DEF FramesOK, ForkProcessingFibers, ForkWorkers
  <2>2. /\ op'[g] = op[g] /\ cur'[g] = cur[g] /\ entry' = entry
        /\ todo'[g] = todo[g] /\ hand'[g] = hand[g] /\ kept'[g] = kept[g]
    BY <1>1, <1>6 DEF FramesOK, ForkProcessingFibers
  <2>3. CASE pc'[g] = "loop" /\ g \notin Clients
    BY <1>1, <2>2, <2>3
       DEF FrameOK, LabelsOf, WorkerLabels, MonitorLabels, EnqueueLabels,
           WorksOnEntry, Holds, HasPermit, InBody, Enqueuing
  <2>4. CASE pc'[g] = pc[g]
    <3>1. WorksOnEntry(g)' <=> WorksOnEntry(g)
      BY <2>2, <2>4 DEF WorksOnEntry, Holds, HasPermit, InBody, Enqueuing
    <3> QED
      BY <1>1, <2>2, <2>4, <3>1 DEF FrameOK, LabelsOf, EntryIds
  <2> QED
    BY <2>1, <2>3, <2>4
<1> QED
  BY <1>2, <1>3, <1>5, <1>6, Kept DEF TypeOK, ForkProcessingFibers

----------------------------------------------------------------------------
(* The subroutines every fiber shares.                                       *)

LEMMA AfterEnqueueLabel ==
    ASSUME NEW f \in Fibers
    PROVE  AfterEnqueue(f) \in Labels
BY DEF AfterEnqueue, Labels, WorkerLabels, ClientLabels, MonitorLabels, EnqueueLabels

LEMMA AfterWorkerWakeLabel ==
    ASSUME NEW f \in Fibers
    PROVE  AfterWorkerWake(f) \in Labels
BY DEF AfterWorkerWake, AfterEnqueue, Labels, WorkerLabels, ClientLabels, MonitorLabels, EnqueueLabels

LEMMA AfterDrainWakeLabel ==
    ASSUME NEW f \in Fibers
    PROVE  AfterDrainWake(f) \in Labels
BY DEF AfterDrainWake, Labels, WorkerLabels, ClientLabels, MonitorLabels, EnqueueLabels

LEMMA AfterFinalizeLabel ==
    ASSUME NEW f \in Fibers
    PROVE  AfterFinalize(f) \in Labels
BY DEF AfterFinalize, Labels, WorkerLabels, ClientLabels, MonitorLabels, EnqueueLabels

(* Where a returning fiber arrives, no frame condition is stronger than the  *)
(* one it leaves.                                                            *)
LEMMA ReturnFrame ==
    ASSUME FramesOK, NEW f \in Fibers, FrameOK(f), NEW label \in LabelsOf(f),
           label \notin EnqueueLabels,
           label \notin {"claim", "offer", "restore", "putback", "setShutdown",
                         "wind", "unpause", "drain", "keys", "rekey"},
           f \in Workers /\ label \in {"run", "empty", "permit"}
             => cur[f] \in EntryIds,
           f \in Workers => label \in {"run", "empty", "permit", "loop"},
           Return(f, label), UNCHANGED <<entry, todo, hand, kept>>
    PROVE  FrameOK(f)'
<1>1. /\ pc'[f] = label /\ op'[f] \in {op[f], "none"}
      /\ label # "idle" => cur'[f] = cur[f]
  BY DEF FramesOK, Return
<1>2. WorksOnEntry(f)' => f \in Workers /\ label \in {"run", "empty", "permit"}
  BY <1>1 DEF WorksOnEntry, Holds, HasPermit, InBody, Enqueuing
<1> QED
  BY <1>1, <1>2 DEF FrameOK, LabelsOf, EntryIds

LEMMA WorkerWorks ==
    ASSUME NEW f \in Workers, FrameOK(f),
           pc[f] \in EnqueueLabels \cup {"empty", "drain1", "drain2", "permit"}
    PROVE  cur[f] \in EntryIds
BY FibersAssumption
   DEF FrameOK, WorksOnEntry, HasPermit, Holds, InBody, Enqueuing

LEMMA ReturnOnly ==
    ASSUME FramesOK, NEW f \in Fibers, NEW label, Return(f, label),
           UNCHANGED <<hand, kept>>, \A g \in Fibers \ {f} : todo'[g] = todo[g]
    PROVE  OnlyFrame(f)
BY DEF FramesOK, OnlyFrame, Return

LEMMA DedupDoneTypeOK ==
    ASSUME TypeOK, NEW f \in Fibers, DedupDone(f)
    PROVE  TypeOK'
<1>1. FramesOK /\ FrameOK(f)
  BY DEF TypeOK
<1>2. CASE Return(f, AfterEnqueue(f))
  <2>1. FramesOK'
    BY <1>1, <1>2, ReturnOK, AfterEnqueueLabel DEF DedupDone
  <2>2. OnlyFrame(f)
    BY <1>1, <1>2, ReturnOnly DEF DedupDone
  <2>3. f \in Workers => cur[f] \in EntryIds
    BY <1>1, WorkerWorks DEF DedupDone, EnqueueLabels
  <2>4. /\ AfterEnqueue(f) \in LabelsOf(f) \ EnqueueLabels
        /\ f \in Workers => AfterEnqueue(f) \in {"run", "empty", "permit", "loop"}
    BY <1>1, FibersAssumption
       DEF FrameOK, DedupDone, AfterEnqueue, LabelsOf, WorkerLabels, ClientLabels,
           MonitorLabels, EnqueueLabels
  <2>5. FrameOK(f)'
    BY <1>1, <1>2, <2>3, <2>4, ReturnFrame DEF DedupDone, AfterEnqueue
  <2> QED
    BY <2>1, <2>2, <2>5, Kept, StepTypeOK DEF DedupDone
<1>3. CASE GoTo(f, "offer") /\ hand[f] # <<>> /\ UNCHANGED <<op, cur, lvl, sel>>
  <2>1. FramesOK'
    BY <1>1, <1>3 DEF FramesOK, DedupDone, Labels, WorkerLabels, ClientLabels,
                      EnqueueLabels
  <2>2. OnlyFrame(f)
    BY <1>1, <1>3 DEF FramesOK, OnlyFrame, DedupDone
  <2>3. FrameOK(f)'
    BY <1>1, <1>3
       DEF FramesOK, FrameOK, DedupDone, LabelsOf, WorkerLabels, ClientLabels,
           MonitorLabels, EnqueueLabels, WorksOnEntry, Holds, HasPermit,
           InBody, Enqueuing, EntryIds
  <2> QED
    BY <1>3, <2>1, <2>2, <2>3, Kept, StepTypeOK DEF DedupDone
<1> QED
  BY <1>2, <1>3 DEF DedupDone

LEMMA WakeDrainedIfEmptyTypeOK ==
    ASSUME TypeOK, NEW f \in Fibers, WakeDrainedIfEmpty(f)
    PROVE  TypeOK'
<1>1. FramesOK /\ FrameOK(f)
  BY DEF TypeOK
<1>2. CASE Return(f, AfterDrainWake(f))
  <2>1. FramesOK'
    BY <1>1, <1>2, ReturnOK, AfterDrainWakeLabel DEF WakeDrainedIfEmpty
  <2>2. OnlyFrame(f)
    BY <1>1, <1>2, ReturnOnly DEF WakeDrainedIfEmpty
  <2>3. f \in Workers => cur[f] \in EntryIds
    BY <1>1, WorkerWorks DEF WakeDrainedIfEmpty, EnqueueLabels
  <2>4. /\ AfterDrainWake(f) \in LabelsOf(f) \ EnqueueLabels
        /\ f \in Workers => AfterDrainWake(f) \in {"run", "empty", "permit", "loop"}
    BY <1>1, FibersAssumption
       DEF FrameOK, WakeDrainedIfEmpty, AfterDrainWake, LabelsOf, WorkerLabels, ClientLabels,
           MonitorLabels, EnqueueLabels
  <2>5. FrameOK(f)'
    BY <1>1, <1>2, <2>3, <2>4, ReturnFrame DEF WakeDrainedIfEmpty, AfterDrainWake
  <2> QED
    BY <2>1, <2>2, <2>5, Kept, StepTypeOK DEF WakeDrainedIfEmpty
<1>3. CASE GoTo(f, "drain1") /\ UNCHANGED <<op, cur, lvl, sel>>
  <2>1. FramesOK'
    BY <1>1, <1>3 DEF FramesOK, WakeDrainedIfEmpty, Labels, WorkerLabels, ClientLabels,
                      EnqueueLabels
  <2>2. OnlyFrame(f)
    BY <1>1, <1>3 DEF FramesOK, OnlyFrame, WakeDrainedIfEmpty
  <2>3. FrameOK(f)'
    BY <1>1, <1>3
       DEF FramesOK, FrameOK, WakeDrainedIfEmpty, LabelsOf, WorkerLabels, ClientLabels,
           MonitorLabels, EnqueueLabels, WorksOnEntry, Holds, HasPermit,
           InBody, Enqueuing, EntryIds
  <2> QED
    BY <1>3, <2>1, <2>2, <2>3, Kept, StepTypeOK DEF WakeDrainedIfEmpty
<1> QED
  BY <1>2, <1>3 DEF WakeDrainedIfEmpty

LEMMA FinalizeReadTypeOK ==
    ASSUME TypeOK, NEW f \in Fibers, FinalizeRead(f)
    PROVE  TypeOK'
<1>1. FramesOK /\ FrameOK(f)
  BY DEF TypeOK
<1>2. CASE Return(f, AfterFinalize(f))
  <2>1. FramesOK'
    BY <1>1, <1>2, ReturnOK, AfterFinalizeLabel DEF FinalizeRead
  <2>2. OnlyFrame(f)
    BY <1>1, <1>2, ReturnOnly DEF FinalizeRead
  <2>4. /\ AfterFinalize(f) \in LabelsOf(f) \ EnqueueLabels
        /\ f \in Workers => AfterFinalize(f) \in {"run", "empty", "permit", "loop"}
    BY <1>1, FibersAssumption
       DEF FrameOK, FinalizeRead, AfterFinalize, LabelsOf, WorkerLabels, ClientLabels,
           MonitorLabels, EnqueueLabels
  <2>5. FrameOK(f)'
    BY <1>1, <1>2, <2>4, ReturnFrame DEF FinalizeRead, AfterFinalize
  <2> QED
    BY <2>1, <2>2, <2>5, Kept, StepTypeOK DEF FinalizeRead
<1>3. CASE GoTo(f, "fin2") /\ UNCHANGED <<op, cur, lvl, sel>>
  <2>1. FramesOK'
    BY <1>1, <1>3 DEF FramesOK, FinalizeRead, Labels, WorkerLabels, ClientLabels,
                      EnqueueLabels
  <2>2. OnlyFrame(f)
    BY <1>1, <1>3 DEF FramesOK, OnlyFrame, FinalizeRead
  <2>3. FrameOK(f)'
    BY <1>1, <1>3
       DEF FramesOK, FrameOK, FinalizeRead, LabelsOf, WorkerLabels, ClientLabels,
           MonitorLabels, EnqueueLabels, WorksOnEntry, Holds, HasPermit,
           InBody, Enqueuing, EntryIds
  <2> QED
    BY <1>3, <2>1, <2>2, <2>3, Kept, StepTypeOK DEF FinalizeRead
<1> QED
  BY <1>2, <1>3 DEF FinalizeRead

LEMMA SignalWorkerWakeTypeOK ==
    ASSUME TypeOK, NEW f \in Fibers, SignalWorkerWake(f)
    PROVE  TypeOK'
<1>1. FramesOK /\ FrameOK(f)
  BY DEF TypeOK
<1>4. SignalsOK'
  BY DEF TypeOK, SignalsOK, SignalWorkerWake, Succeed, Replace, WaitStates,
         Waits, Channels
<1>2. CASE Return(f, AfterWorkerWake(f))
  <2>1. FramesOK'
    BY <1>1, <1>2, ReturnOK, AfterWorkerWakeLabel DEF SignalWorkerWake
  <2>2. OnlyFrame(f)
    BY <1>1, <1>2, ReturnOnly DEF SignalWorkerWake
  <2>3. f \in Workers => cur[f] \in EntryIds
    BY <1>1, WorkerWorks DEF SignalWorkerWake, EnqueueLabels
  <2>4. /\ AfterWorkerWake(f) \in LabelsOf(f) \ EnqueueLabels
        /\ f \in Workers => AfterWorkerWake(f) \in {"run", "empty", "permit", "loop"}
    BY <1>1, FibersAssumption
       DEF FrameOK, SignalWorkerWake, AfterWorkerWake, AfterEnqueue, LabelsOf, WorkerLabels, ClientLabels,
           MonitorLabels, EnqueueLabels
  <2>5. FrameOK(f)'
    BY <1>1, <1>2, <2>3, <2>4, ReturnFrame
       DEF SignalWorkerWake, AfterWorkerWake, AfterEnqueue
  <2> QED
    BY <2>1, <2>2, <2>5, Kept, StepTypeOK, <1>4 DEF SignalWorkerWake
<1>3. CASE GoTo(f, "wake2") /\ UNCHANGED frame
  <2>1. FramesOK'
    BY <1>1, <1>3 DEF FramesOK, SignalWorkerWake, Labels, WorkerLabels, ClientLabels,
                      EnqueueLabels
  <2>2. OnlyFrame(f)
    BY <1>1, <1>3 DEF FramesOK, OnlyFrame, SignalWorkerWake
  <2>3. FrameOK(f)'
    BY <1>1, <1>3
       DEF FramesOK, FrameOK, SignalWorkerWake, LabelsOf, WorkerLabels, ClientLabels,
           MonitorLabels, EnqueueLabels, WorksOnEntry, Holds, HasPermit,
           InBody, Enqueuing, EntryIds
  <2> QED
    BY <1>3, <2>1, <2>2, <2>3, Kept, StepTypeOK, <1>4 DEF SignalWorkerWake
<1> QED
  BY <1>2, <1>3 DEF SignalWorkerWake

LEMMA SignalDrainWakeTypeOK ==
    ASSUME TypeOK, NEW f \in Fibers, SignalDrainWake(f)
    PROVE  TypeOK'
<1>1. FramesOK /\ FrameOK(f)
  BY DEF TypeOK
<1>4. SignalsOK'
  BY DEF TypeOK, SignalsOK, SignalDrainWake, Succeed, Replace, WaitStates,
         Waits, Channels
<1>2. CASE Return(f, AfterDrainWake(f))
  <2>1. FramesOK'
    BY <1>1, <1>2, ReturnOK, AfterDrainWakeLabel DEF SignalDrainWake
  <2>2. OnlyFrame(f)
    BY <1>1, <1>2, ReturnOnly DEF SignalDrainWake
  <2>3. f \in Workers => cur[f] \in EntryIds
    BY <1>1, WorkerWorks DEF SignalDrainWake, EnqueueLabels
  <2>4. /\ AfterDrainWake(f) \in LabelsOf(f) \ EnqueueLabels
        /\ f \in Workers => AfterDrainWake(f) \in {"run", "empty", "permit", "loop"}
    BY <1>1, FibersAssumption
       DEF FrameOK, SignalDrainWake, AfterDrainWake, LabelsOf, WorkerLabels, ClientLabels,
           MonitorLabels, EnqueueLabels
  <2>5. FrameOK(f)'
    BY <1>1, <1>2, <2>3, <2>4, ReturnFrame DEF SignalDrainWake, AfterDrainWake
  <2> QED
    BY <2>1, <2>2, <2>5, Kept, StepTypeOK, <1>4 DEF SignalDrainWake
<1>3. CASE GoTo(f, "drain2") /\ UNCHANGED frame
  <2>1. FramesOK'
    BY <1>1, <1>3 DEF FramesOK, SignalDrainWake, Labels, WorkerLabels, ClientLabels,
                      EnqueueLabels
  <2>2. OnlyFrame(f)
    BY <1>1, <1>3 DEF FramesOK, OnlyFrame, SignalDrainWake
  <2>3. FrameOK(f)'
    BY <1>1, <1>3
       DEF FramesOK, FrameOK, SignalDrainWake, LabelsOf, WorkerLabels, ClientLabels,
           MonitorLabels, EnqueueLabels, WorksOnEntry, Holds, HasPermit,
           InBody, Enqueuing, EntryIds
  <2> QED
    BY <1>3, <2>1, <2>2, <2>3, Kept, StepTypeOK, <1>4 DEF SignalDrainWake
<1> QED
  BY <1>2, <1>3 DEF SignalDrainWake

LEMMA FinalizeSetTypeOK ==
    ASSUME TypeOK, NEW f \in Fibers, FinalizeSet(f)
    PROVE  TypeOK'
<1>1. FramesOK /\ FrameOK(f)
  BY DEF TypeOK
<1>2. FlagsOK' /\ HistoryOK'
  BY DEF TypeOK, FlagsOK, HistoryOK, FinalizeSet, Phases
<1>3. FramesOK'
  BY <1>1, ReturnOK, AfterFinalizeLabel DEF FinalizeSet
<1>4. OnlyFrame(f)
  BY <1>1, ReturnOnly DEF FinalizeSet
<1>5. /\ AfterFinalize(f) \in LabelsOf(f) \ EnqueueLabels
      /\ f \in Workers => AfterFinalize(f) = "loop"
  BY <1>1, FibersAssumption
     DEF FrameOK, FinalizeSet, AfterFinalize, LabelsOf, WorkerLabels,
         ClientLabels, MonitorLabels, EnqueueLabels
<1>6. FrameOK(f)'
  BY <1>1, <1>5, ReturnFrame DEF FinalizeSet, AfterFinalize
<1> QED
  BY <1>2, <1>3, <1>4, <1>6, Kept, StepTypeOK DEF FinalizeSet

LEMMA EnqueueShutdownCheckTypeOK ==
    ASSUME TypeOK, NEW f \in Fibers, EnqueueShutdownCheck(f)
    PROVE  TypeOK'
<1>1. FramesOK /\ FrameOK(f)
  BY DEF TypeOK
<1>2. /\ pc'[f] \in {AfterEnqueue(f), "dedup"}
      /\ \/ pc'[f] = AfterEnqueue(f) /\ op'[f] \in {op[f], "none"}
         \/ pc'[f] = "dedup" /\ op'[f] = op[f]
      /\ pc'[f] # "idle" => cur'[f] = cur[f]
  BY <1>1 DEF FramesOK, EnqueueShutdownCheck, Return
<1>3. FramesOK'
  <2>1. AnySelector \in Selectors /\ "none" \in Ops /\ "dedup" \in Labels
    BY DEF AnySelector, Selectors, Ops, Labels, WorkerLabels, EnqueueLabels
  <2>2. << >> \in Seq(Items)
    BY EmptySeq
  <2>3. AfterEnqueue(f) \in Labels
    BY AfterEnqueueLabel
  <2>4. pc' \in [Fibers -> Labels] /\ op' \in [Fibers -> Ops]
    BY Zenon, <1>1, <2>1, <2>3 DEF FramesOK, EnqueueShutdownCheck, Return
  <2>5. /\ cur' \in [Fibers -> Nat] /\ lvl' \in [Fibers -> Int]
        /\ scan' \in [Fibers -> Levels]
    BY <1>1 DEF FramesOK, EnqueueShutdownCheck, Return
  <2>6. sel' \in [Fibers -> Selectors] /\ todo' \in [Fibers -> Seq(Items)]
    BY Zenon, <1>1, <2>1, <2>2 DEF FramesOK, EnqueueShutdownCheck, Return
  <2> QED
    BY <2>4, <2>5, <2>6 DEF FramesOK
<1>4. OnlyFrame(f)
  BY <1>1 DEF FramesOK, OnlyFrame, EnqueueShutdownCheck, Return
<1>5. f \in Workers => cur[f] \in EntryIds
  BY <1>1, WorkerWorks DEF EnqueueShutdownCheck, EnqueueLabels
<1>6. ASSUME pc'[f] = AfterEnqueue(f)
      PROVE  FrameOK(f)'
  <2>1. pc'[f] \in LabelsOf(f) /\ pc'[f] \in {"idle", "loaded", "run", "empty"}
    BY <1>6, FibersAssumption
       DEF AfterEnqueue, LabelsOf, WorkerLabels, ClientLabels, MonitorLabels
  <2>2. f \notin Workers => op'[f] # "retry"
    BY <1>1, <1>2 DEF FrameOK
  <2>3. f \notin Workers => ~WorksOnEntry(f)'
    BY <2>1 DEF WorksOnEntry, Enqueuing, EnqueueLabels
  <2>4. f \in Workers => cur'[f] \in EntryIds'
    BY <1>2, <1>5, <1>6, FibersAssumption
       DEF EnqueueShutdownCheck, EntryIds, AfterEnqueue
  <2>5. FrameOK(f)' <=> /\ pc'[f] \in LabelsOf(f)
                        /\ f \notin Workers => op'[f] # "retry"
                        /\ WorksOnEntry(f)' => cur'[f] \in EntryIds'
    BY <2>1 DEF FrameOK, EnqueueLabels, LabelsOf
  <2> QED
    BY <2>1, <2>2, <2>3, <2>4, <2>5
<1>7. ASSUME pc'[f] = "dedup", op'[f] = op[f]
      PROVE  FrameOK(f)'
  <2>1. cur'[f] = cur[f] /\ entry' = entry /\ pc[f] = "enq"
    BY <1>2, <1>7 DEF EnqueueShutdownCheck
  <2>2. WorksOnEntry(f)' <=> WorksOnEntry(f)
    BY <1>7, <2>1
       DEF WorksOnEntry, Holds, HasPermit, InBody, Enqueuing, EnqueueLabels
  <2> QED
    BY <1>1, <1>7, <2>1, <2>2
     DEF FrameOK, LabelsOf, WorkerLabels, ClientLabels,
         MonitorLabels, EnqueueLabels, WorksOnEntry, Holds, HasPermit, InBody,
         Enqueuing, EntryIds
<1> QED
  BY <1>2, <1>3, <1>4, <1>6, <1>7, Kept, StepTypeOK DEF EnqueueShutdownCheck

LEMMA OfferTypeOK ==
    ASSUME TypeOK, NEW f \in Fibers, Offer(f)
    PROVE  TypeOK'
<1>1. FramesOK /\ FrameOK(f)
  BY DEF TypeOK
<1>2. PlacesOK'
  <2> DEFINE e == Head(hand[f])
  <2>1. /\ lanes \in [Levels -> Seq(EntryIds)]
        /\ hand \in [Fibers -> Seq(EntryIds)] /\ hand[f] # <<>>
    BY <1>1 DEF TypeOK, PlacesOK, FrameOK, Offer
  <2>2. e \in EntryIds /\ Tail(hand[f]) \in Seq(EntryIds)
    BY <2>1, HeadTailProperties
  <2>3. LaneOf(e) \in Levels
    BY <2>2, LaneOfLevel
  <2>4. Append(lanes[LaneOf(e)], e) \in Seq(EntryIds)
    BY <2>1, <2>2, <2>3, AppendProperties
  <2>5. /\ lanes' \in [Levels -> Seq(EntryIds)]
        /\ hand' \in [Fibers -> Seq(EntryIds)]
    BY <2>1, <2>2, <2>3, <2>4 DEF Offer
  <2> QED
    BY <2>5, Kept DEF TypeOK, PlacesOK, Offer
<1>3. FramesOK'
  BY <1>1 DEF FramesOK, Offer, Labels, WorkerLabels, EnqueueLabels
<1>4. OnlyFrame(f)
  BY <1>1 DEF TypeOK, PlacesOK, FramesOK, OnlyFrame, Offer
<1>5. FrameOK(f)'
  <2>1. hand[f] \in Seq(EntryIds) /\ hand[f] # <<>>
    BY <1>1 DEF TypeOK, PlacesOK, FrameOK, Offer
  <2>2. Len(hand[f]) # 1 => Tail(hand[f]) # <<>>
    BY <2>1, TailLeft
  <2>3. hand'[f] = Tail(hand[f])
    BY DEF TypeOK, PlacesOK, Offer
  <2>4. /\ pc'[f] \in {"wake1", "offer"}
        /\ pc'[f] = "offer" => Len(hand[f]) # 1
    BY <1>1 DEF FramesOK, Offer
  <2> QED
    BY <1>1, <2>2, <2>3, <2>4
       DEF FrameOK, Offer, LabelsOf, WorkerLabels, ClientLabels, MonitorLabels,
           EnqueueLabels, WorksOnEntry, Holds, HasPermit, InBody, Enqueuing,
           EntryIds
<1> QED
  BY <1>1, <1>2, <1>3, <1>4, <1>5, Kept, StepTypeOK DEF Offer

(* Minting appends one entry, and the fiber that mints it holds it.          *)
LEMMA MintOK ==
    ASSUME TypeOK, NEW f \in Fibers, Mint(f), todo[f] # <<>>,
           pc[f] \in EnqueueLabels,
           UNCHANGED <<lanes, op, cur, scan, lvl, sel, kept, completes, left>>,
           activeKeys' \subseteq Keys
    PROVE  /\ StoreOK' /\ PlacesOK' /\ HistoryOK'
           /\ todo' \in [Fibers -> Seq(Items)]
           /\ EntryIds \subseteq EntryIds'
           /\ \A g \in Fibers \ {f} : todo'[g] = todo[g] /\ hand'[g] = hand[g]
<1>1. FramesOK /\ FrameOK(f) /\ StoreOK /\ PlacesOK /\ HistoryOK
  BY DEF TypeOK
<1>2. Head(todo[f]) \in Items /\ Tail(todo[f]) \in Seq(Items)
  BY <1>1, HeadTailProperties DEF FramesOK
<1>3. Continues(f) => cur[f] \in EntryIds
  BY <1>1 DEF FrameOK, Continues, WorksOnEntry, HasPermit, Enqueuing
<1>4. NewEntry(f) \in EntryRecords
  <2>1. lvl[f] \in Int /\ cur[f] \in Nat
    BY <1>1 DEF FramesOK
  <2>2. Continues(f) => entry[cur[f]].level \in Int /\ entry[cur[f]].retries \in Nat
    BY <1>3, EntryOf DEF EntryRecords
  <2>3. NewEntry(f).level \in Int
    BY <2>1, <2>2 DEF NewEntry
  <2>4. NewEntry(f).retries \in Nat
    BY <2>2 DEF NewEntry, Continues
  <2>5. NewEntry(f).prev \in Nat
    BY <2>1 DEF NewEntry
  <2> QED
    BY <1>2, <2>3, <2>4, <2>5 DEF NewEntry, EntryRecords
<1>5. /\ entry' \in Seq(EntryRecords) /\ Len(entry') = Len(entry) + 1
      /\ Len(entry) \in Nat
  BY <1>1, <1>4, AppendProperties, LenProperties DEF StoreOK, Mint
<1>6. EntryIds \subseteq EntryIds' /\ Len(entry) + 1 \in EntryIds'
  BY <1>5 DEF EntryIds
<1>7. \A s \in Seq(EntryIds) : s \in Seq(EntryIds')
  BY <1>6, SeqMonotone
<1>8. HistoryOK'
  <2>1. "live" \in Results
    BY DEF Results
  <2>2. result' \in Seq(Results) /\ Len(result') = Len(result) + 1
    BY <1>1, <2>1, AppendProperties DEF HistoryOK, Mint
  <2> QED
    BY <1>1, <1>5, <2>2 DEF HistoryOK
<1>9. PlacesOK'
  <2>1. lanes' \in [Levels -> Seq(EntryIds')] /\ kept' \in [Fibers -> Seq(EntryIds')]
    BY <1>1, <1>7 DEF PlacesOK
  <2>2. hand[f] \in Seq(EntryIds') /\ hand \in [Fibers -> Seq(EntryIds')]
    BY <1>1, <1>7 DEF PlacesOK
  <2>3. Append(hand[f], Len(entry) + 1) \in Seq(EntryIds')
    BY <1>6, <2>2, AppendProperties
  <2>4. hand' \in [Fibers -> Seq(EntryIds')]
    BY <2>2, <2>3 DEF Mint
  <2> QED
    BY <2>1, <2>4 DEF PlacesOK
<1> QED
  BY <1>1, <1>2, <1>5, <1>6, <1>8, <1>9 DEF StoreOK, PlacesOK, FramesOK, Mint

LEMMA KeyOfHead ==
    ASSUME TypeOK, NEW f \in Fibers, todo[f] # <<>>
    PROVE  KeyOf[Head(todo[f])] \in Keys \cup {NoKey}
<1>1. Head(todo[f]) \in Items
  BY HeadTailProperties DEF TypeOK, FramesOK
<1> QED
  BY <1>1, ConfigAssumption

LEMMA DedupCheckTypeOK ==
    ASSUME TypeOK, NEW f \in Fibers, DedupCheck(f)
    PROVE  TypeOK'
<1>1. FramesOK /\ FrameOK(f) /\ todo[f] # <<>> /\ pc[f] \in EnqueueLabels
  BY DEF TypeOK, DedupCheck, EnqueueLabels
<1>2. activeKeys \subseteq Keys /\ UNCHANGED <<activeKeys, op, cur>>
  BY DEF TypeOK, StoreOK, DedupCheck
<1>3. CASE Mint(f) /\ UNCHANGED pc
  <2>1. /\ StoreOK' /\ PlacesOK' /\ HistoryOK' /\ EntryIds \subseteq EntryIds'
        /\ todo' \in [Fibers -> Seq(Items)]
        /\ \A g \in Fibers \ {f} : todo'[g] = todo[g] /\ hand'[g] = hand[g]
    BY <1>1, <1>2, <1>3, MintOK DEF DedupCheck
  <2>2. FramesOK'
    BY <1>1, <1>3, <2>1 DEF FramesOK, DedupCheck
  <2>3. OnlyFrame(f)
    BY <1>3, <2>1 DEF OnlyFrame, DedupCheck
  <2>4. FrameOK(f)'
    BY <1>1, <1>2, <1>3, <2>1
       DEF FrameOK, DedupCheck, LabelsOf, WorksOnEntry, Holds, HasPermit,
           InBody, Enqueuing
  <2> QED
    BY <2>1, <2>2, <2>3, <2>4, Kept, StepTypeOK DEF DedupCheck
<1>4. CASE /\ todo' = [todo EXCEPT ![f] = Tail(@)]
           /\ UNCHANGED <<entry, result, hand, pc>>
  <2>1. Tail(todo[f]) \in Seq(Items)
    BY <1>1, HeadTailProperties DEF FramesOK
  <2>2. FramesOK'
    BY <1>1, <1>4, <2>1 DEF FramesOK, DedupCheck
  <2>3. OnlyFrame(f)
    BY <1>1, <1>4 DEF FramesOK, OnlyFrame, DedupCheck
  <2>4. FrameOK(f)'
    BY <1>1, <1>2, <1>4
       DEF FrameOK, DedupCheck, LabelsOf, WorksOnEntry, Holds, HasPermit,
           InBody, Enqueuing, EntryIds
  <2> QED
    BY <1>4, <2>2, <2>3, <2>4, Kept, StepTypeOK DEF DedupCheck
<1>5. CASE GoTo(f, "claim") /\ UNCHANGED <<entry, result, hand, todo>>
  <2>1. FramesOK'
    BY <1>1, <1>5 DEF FramesOK, DedupCheck, Labels, WorkerLabels, EnqueueLabels
  <2>2. OnlyFrame(f)
    BY <1>1, <1>5 DEF FramesOK, OnlyFrame, DedupCheck
  <2>3. FrameOK(f)'
    <3>1. pc'[f] = "claim" /\ pc[f] = "dedup"
      BY <1>1, <1>5 DEF FramesOK, DedupCheck
    <3> QED
      BY <1>1, <1>2, <1>5, <3>1
         DEF FrameOK, DedupCheck, LabelsOf, WorkerLabels, ClientLabels,
             MonitorLabels, EnqueueLabels, WorksOnEntry, Holds, HasPermit,
             InBody, Enqueuing, EntryIds
  <2> QED
    BY <1>5, <2>1, <2>2, <2>3, Kept, StepTypeOK DEF DedupCheck
<1> QED
  BY <1>3, <1>4, <1>5 DEF DedupCheck

LEMMA ClaimKeyTypeOK ==
    ASSUME TypeOK, NEW f \in Fibers, ClaimKey(f)
    PROVE  TypeOK'
<1>1. FramesOK /\ FrameOK(f) /\ todo[f] # <<>> /\ pc[f] \in EnqueueLabels
  BY DEF TypeOK, FrameOK, ClaimKey, EnqueueLabels
<1>2. activeKeys' \subseteq Keys
  <2>1. KeyOf[Head(todo[f])] \in Keys
    BY <1>1, KeyOfHead DEF FrameOK, ClaimKey
  <2> QED
    BY <2>1 DEF TypeOK, StoreOK, ClaimKey
<1>3. /\ StoreOK' /\ PlacesOK' /\ HistoryOK' /\ EntryIds \subseteq EntryIds'
      /\ todo' \in [Fibers -> Seq(Items)]
      /\ \A g \in Fibers \ {f} : todo'[g] = todo[g] /\ hand'[g] = hand[g]
  BY <1>1, <1>2, MintOK DEF ClaimKey
<1>4. FramesOK'
  BY <1>1, <1>3
     DEF FramesOK, ClaimKey, Labels, WorkerLabels, EnqueueLabels
<1>5. OnlyFrame(f)
  BY <1>1, <1>3 DEF FramesOK, OnlyFrame, ClaimKey
<1>6. FrameOK(f)'
  <2>1. pc'[f] = "dedup" /\ op' = op /\ cur' = cur
    BY <1>1 DEF FramesOK, ClaimKey
  <2> QED
    BY <1>1, <1>3, <2>1
       DEF FrameOK, ClaimKey, LabelsOf, WorkerLabels, ClientLabels,
           MonitorLabels, EnqueueLabels, WorksOnEntry, Holds, HasPermit,
           InBody, Enqueuing
<1> QED
  BY <1>3, <1>4, <1>5, <1>6, Kept, StepTypeOK DEF ClaimKey

----------------------------------------------------------------------------
(* The theorem.                                                              *)

LEMMA InitTypeOK == Init => TypeOK
<1> SUFFICES ASSUME Init PROVE TypeOK
  OBVIOUS
<1>1. StoreOK /\ FlagsOK /\ HistoryOK
  BY ConfigAssumption, EmptySeq
     DEF Init, StoreOK, FlagsOK, HistoryOK, Phases
<1>2. CountersOK
  BY FibersAssumption, FS_CardinalityType DEF Init, CountersOK
<1>3. SignalsOK
  BY DEF Init, SignalsOK, WaitStates
<1>4. FramesOK
  <2>1. AnySelector \in Selectors /\ "none" \in Ops /\ 0 \in Levels
    BY ConfigAssumption DEF AnySelector, Selectors, Ops, Levels
  <2>2. {"idle", "loop", "off"} \subseteq Labels
    BY DEF Labels, WorkerLabels, ClientLabels
  <2>3. << >> \in Seq(Items)
    BY EmptySeq
  <2> QED
    BY <2>1, <2>2, <2>3 DEF Init, FramesOK
<1>5. PlacesOK
  <2>1. << >> \in Seq(EntryIds)
    BY EmptySeq
  <2> QED
    BY <2>1 DEF Init, PlacesOK
<1>6. ASSUME NEW f \in Fibers
      PROVE  FrameOK(f)
  BY <1>6, FibersAssumption
     DEF Init, FrameOK, LabelsOf, WorkerLabels, ClientLabels, MonitorLabels,
         EnqueueLabels, WorksOnEntry, Holds, HasPermit, InBody, Enqueuing
<1> QED
  BY <1>1, <1>2, <1>3, <1>4, <1>5, <1>6 DEF TypeOK

LEMMA NextTypeOK == TypeOK /\ [Next]_vars => TypeOK'
<1> SUFFICES ASSUME TypeOK, [Next]_vars PROVE TypeOK'
  OBVIOUS
<1>1. ASSUME NEW w \in Workers, Worker(w)
      PROVE  TypeOK'
  BY <1>1, WorkerLoopTypeOK, AwaitLatchTypeOK, PollLaneTypeOK,
     TakeNextEmptyTypeOK, WorkerWokenTypeOK, RateLimitAwaitTypeOK,
     SkipRateLimitedItemTypeOK, StartItemTypeOK, CtxEnqueueTypeOK,
     EffectExitsTypeOK, ReleaseKeyTypeOK, SettleItemTypeOK,
     DisposeFailureTypeOK, RetryReleaseTypeOK, ReleasePermitTypeOK DEF Worker
<1>2. ASSUME NEW c \in Clients, ClientCall(c)
      PROVE  TypeOK'
  BY <1>2, CallAddTypeOK, CallEnqueueEntryTypeOK, CallPauseTypeOK,
     CallResumeTypeOK, CallShutdownTypeOK, CallExtractTypeOK, CallStartTypeOK,
     InterruptCallTypeOK DEF ClientCall
<1>3. ASSUME NEW c \in Clients, ClientStep(c)
      PROVE  TypeOK'
  BY <1>3, SetPausedTypeOK, SetShutdownTypeOK, DrainModeOpensLatchTypeOK,
     DrainLaneTypeOK, PutBackTypeOK, ReleaseKeysTypeOK, ResetCompletedTypeOK,
     EncodeReleasedTypeOK, RestorePendingTypeOK, RestoreActiveKeyTypeOK,
     ForkProcessingFibersTypeOK DEF ClientStep
<1>4. ASSUME Monitor
      PROVE  TypeOK'
  BY <1>4, MonitorLoopTypeOK, MonitorWokenTypeOK, MonitorCheckTypeOK,
     MonitorLoadTypeOK DEF Monitor
<1>5. ASSUME NEW f \in Fibers, Subroutine(f)
      PROVE  TypeOK'
  BY <1>5, EnqueueShutdownCheckTypeOK, DedupCheckTypeOK, ClaimKeyTypeOK,
     DedupDoneTypeOK, OfferTypeOK, SignalWorkerWakeTypeOK,
     SignalDrainWakeTypeOK, WakeDrainedIfEmptyTypeOK, FinalizeReadTypeOK,
     FinalizeSetTypeOK DEF Subroutine
<1>6. ASSUME UNCHANGED vars
      PROVE  TypeOK'
  <2>1. UNCHANGED <<store, flags, counters, signals, frame, history, pc>>
    BY <1>6 DEF vars
  <2>2. EntryIds' = EntryIds
    BY <2>1 DEF EntryIds
  <2>3. FramesOK'
    BY <2>1 DEF TypeOK, FramesOK
  <2>4. ASSUME NEW f \in Fibers PROVE FrameOK(f)'
    <3>1. FrameOK(f)
      BY DEF TypeOK
    <3>2. WorksOnEntry(f)' <=> WorksOnEntry(f)
      BY <2>1 DEF WorksOnEntry, Holds, HasPermit, InBody, Enqueuing
    <3> QED
      BY <2>1, <2>2, <3>1, <3>2 DEF FrameOK, LabelsOf
  <2> QED
    BY <2>1, <2>3, <2>4, Kept DEF TypeOK
<1> QED
  BY <1>1, <1>2, <1>3, <1>4, <1>5, <1>6 DEF Next, AtRest

(* In every reachable state the variables have their types and every fiber   *)
(* satisfies its frame condition: whoever polls, offers, restores, retries   *)
(* or re-injects has an entry that exists to do it with.                     *)
THEOREM TypeCorrect == Spec => []TypeOK
<1>1. Init => TypeOK
  BY InitTypeOK
<1>2. TypeOK /\ [Next]_vars => TypeOK'
  BY NextTypeOK
<1> QED
  BY <1>1, <1>2, PTL DEF Spec

----------------------------------------------------------------------------
(* The counters: inFlightRef and the free permits of the concurrency         *)
(* semaphore account for every worker.                                       *)
(* The invariant: forking the processing fibers puts every worker at the     *)
(* head of its loop, which loses count unless no worker was running before:  *)
(* that is what the flag read by forkProcessingFibers stands for.            *)

Unstarted == ~workersStarted => \A w \in Workers : pc[w] = "off"

Accounts == InFlightAccounting /\ Unstarted

InBodies == {w \in Workers : InBody(w)}
Permitted == {w \in Workers : HasPermit(w)}

LEMMA Counted ==
    /\ IsFiniteSet(InBodies) /\ Cardinality(InBodies) \in Nat
    /\ IsFiniteSet(Permitted) /\ Cardinality(Permitted) \in Nat
    /\ Cardinality(Workers) \in Nat
BY FibersAssumption, FS_Subset, FS_CardinalityType DEF InBodies, Permitted

----------------------------------------------------------------------------
(* Steps that count nothing.                                                 *)

(* What a step may do to a worker that it does not count.                    *)
Uncounted(w) ==
    /\ InBody(w)' <=> InBody(w)
    /\ HasPermit(w)' <=> HasPermit(w)
    /\ pc[w] = "off" => pc'[w] = "off" \/ workersStarted'

LEMMA NothingCounted ==
    ASSUME Accounts, UNCHANGED <<inFlight, permits>>,
           workersStarted => workersStarted', \A w \in Workers : Uncounted(w)
    PROVE  Accounts'
<1>1. InBodies' = InBodies /\ Permitted' = Permitted
  BY DEF InBodies, Permitted, Uncounted
<1>2. InFlightAccounting'
  BY <1>1 DEF Accounts, InFlightAccounting, InBodies, Permitted
<1>3. Unstarted'
  BY DEF Accounts, Unstarted, Uncounted
<1> QED
  BY <1>2, <1>3 DEF Accounts

(* A fiber whose label and operation stay is not counted.                    *)
Stays(f) == pc'[f] = pc[f] /\ op'[f] = op[f]

LEMMA StaysUncounted ==
    ASSUME NEW w \in Workers, Stays(w)
    PROVE  Uncounted(w)
BY DEF Stays, Uncounted, HasPermit, InBody, Enqueuing

OthersStay(f) == \A g \in Fibers \ {f} : Stays(g)

(* The steps of a fiber that is not a worker.                                *)
LEMMA NoWorker ==
    ASSUME Accounts, NEW f \in Fibers \ Workers, OthersStay(f),
           UNCHANGED <<inFlight, permits, workersStarted>>
    PROVE  Accounts'
<1>1. ASSUME NEW w \in Workers PROVE Uncounted(w)
  BY StaysUncounted DEF OthersStay
<1> QED
  BY <1>1, NothingCounted

(* The steps of a worker that count nothing.                                 *)
LEMMA WorkerUncounted ==
    ASSUME Accounts, NEW f \in Workers, OthersStay(f), Uncounted(f),
           UNCHANGED <<inFlight, permits, workersStarted>>
    PROVE  Accounts'
<1>1. ASSUME NEW w \in Workers PROVE Uncounted(w)
  BY StaysUncounted DEF OthersStay
<1> QED
  BY <1>1, NothingCounted

LEMMA Moves ==
    ASSUME TypeOK, NEW f \in Fibers
    PROVE  /\ \A label : GoTo(f, label) =>
                /\ pc'[f] = label
                /\ \A g \in Fibers \ {f} : pc'[g] = pc[g]
           /\ \A v : op' = [op EXCEPT ![f] = v] =>
                /\ op'[f] = v
                /\ \A g \in Fibers \ {f} : op'[g] = op[g]
BY DEF TypeOK, FramesOK

LEMMA ReturnMoves ==
    ASSUME TypeOK, NEW f \in Fibers, NEW label, Return(f, label)
    PROVE  /\ pc'[f] = label
           /\ op'[f] = IF f \notin Clients \/ label = "idle" THEN "none" ELSE op[f]
           /\ OthersStay(f)
BY DEF TypeOK, FramesOK, Return, OthersStay, Stays

LEMMA Apart ==
    \A w \in Workers : w \in Fibers /\ w \notin Clients /\ w # DrainMonitor
BY FibersAssumption

----------------------------------------------------------------------------
(* The steps that count.                                                     *)

LEMMA StartItemAccounts ==
    ASSUME TypeOK, Accounts, NEW w \in Workers, StartItem(w)
    PROVE  Accounts'
<1>1. pc'[w] = "run" /\ OthersStay(w) /\ pc[w] = "start"
  BY Moves DEF StartItem, OthersStay, Stays
<1>2. InBodies' = InBodies \cup {w} /\ w \notin InBodies
  BY <1>1, Apart
     DEF InBodies, InBody, Enqueuing, OthersStay, Stays, EnqueueLabels
<1>3. Permitted' = Permitted \cup {w} /\ w \notin Permitted
  BY <1>1, Apart
     DEF Permitted, HasPermit, InBody, Enqueuing, OthersStay, Stays,
         EnqueueLabels
<1>4. /\ Cardinality(InBodies') = Cardinality(InBodies) + 1
      /\ Cardinality(Permitted') = Cardinality(Permitted) + 1
  BY <1>2, <1>3, Counted, FS_AddElement
<1>5. InFlightAccounting'
  BY <1>4, Counted
     DEF Accounts, InFlightAccounting, InBodies, Permitted, StartItem
<1>6. Unstarted'
  BY <1>1, Apart DEF Accounts, Unstarted, StartItem, OthersStay, Stays
<1> QED
  BY <1>5, <1>6 DEF Accounts

LEMMA SettleItemAccounts ==
    ASSUME TypeOK, Accounts, NEW w \in Workers, SettleItem(w)
    PROVE  Accounts'
<1>1. /\ pc'[w] \in {"empty", "dispose"} /\ OthersStay(w) /\ pc[w] = "settle"
  BY Moves DEF SettleItem, OthersStay, Stays
<1>2. InBodies' = InBodies \ {w} /\ w \in InBodies
  BY <1>1, Apart
     DEF InBodies, InBody, Enqueuing, OthersStay, Stays, EnqueueLabels
<1>3. Permitted' = Permitted
  BY <1>1, Apart
     DEF Permitted, HasPermit, InBody, Enqueuing, OthersStay, Stays,
         EnqueueLabels
<1>4. Cardinality(InBodies') = Cardinality(InBodies) - 1
  BY <1>2, Counted, FS_RemoveElement
<1>5. inFlight > 0
  <2>1. Cardinality(InBodies) # 0
    BY <1>2, Counted, FS_EmptySet
  <2> QED
    BY <2>1, Counted DEF Accounts, InFlightAccounting, InBodies
<1>6. inFlight' = inFlight - 1 /\ permits' = permits
  BY <1>5 DEF SettleItem, InFlightLeft
<1>7. InFlightAccounting'
  BY <1>3, <1>4, <1>6, Counted
     DEF Accounts, InFlightAccounting, InBodies, Permitted
<1>8. Unstarted'
  BY <1>1, Apart DEF Accounts, Unstarted, SettleItem, OthersStay, Stays
<1> QED
  BY <1>7, <1>8 DEF Accounts

LEMMA ReleasePermitAccounts ==
    ASSUME TypeOK, Accounts, NEW w \in Workers, ReleasePermit(w)
    PROVE  Accounts'
<1>1. pc'[w] = "fin1" /\ OthersStay(w) /\ pc[w] = "permit"
  BY Moves DEF ReleasePermit, OthersStay, Stays
<1>2. InBodies' = InBodies
  BY <1>1, Apart
     DEF InBodies, InBody, Enqueuing, OthersStay, Stays, EnqueueLabels
<1>3. Permitted' = Permitted \ {w} /\ w \in Permitted
  BY <1>1, Apart
     DEF Permitted, HasPermit, InBody, Enqueuing, OthersStay, Stays,
         EnqueueLabels
<1>4. Cardinality(Permitted') = Cardinality(Permitted) - 1
  BY <1>3, Counted, FS_RemoveElement
<1>5. InFlightAccounting'
  BY <1>2, <1>4, Counted
     DEF Accounts, InFlightAccounting, InBodies, Permitted, ReleasePermit
<1>6. Unstarted'
  BY <1>1, Apart DEF Accounts, Unstarted, ReleasePermit, OthersStay, Stays
<1> QED
  BY <1>5, <1>6 DEF Accounts

(* Letting the suspended workers go, and forking the processing fibers.      *)
LEMMA OpenLatchAccounts ==
    ASSUME TypeOK, Accounts, NEW c \in Clients, NEW label, OpenLatch(c, label),
           UNCHANGED <<inFlight, permits, workersStarted>>,
           \A w \in Workers : op'[w] = op[w]
    PROVE  Accounts'
<1>1. ASSUME NEW w \in Workers PROVE Uncounted(w)
  <2>1. \/ pc'[w] = pc[w]
        \/ pc[w] = "shut1" /\ pc'[w] = "poll"
        \/ pc[w] = "shut2" /\ pc'[w] = "rate"
    BY Apart DEF OpenLatch
  <2> QED
    BY <2>1 DEF Uncounted, HasPermit, InBody, Enqueuing, EnqueueLabels
<1> QED
  BY <1>1, NothingCounted

LEMMA ForkAccounts ==
    ASSUME TypeOK, Accounts, NEW c \in Clients, ForkProcessingFibers(c)
    PROVE  Accounts'
<1>1. ASSUME NEW w \in Workers PROVE Uncounted(w)
  <2>1. op'[w] = op[w] /\ w # c /\ w \in Fibers
    BY Apart, Moves DEF ForkProcessingFibers
  <2>2. CASE workersStarted
    <3>1. pc'[w] = pc[w]
      BY <2>1, <2>2 DEF TypeOK, FramesOK, ForkProcessingFibers
    <3> QED
      BY <2>1, <3>1, StaysUncounted DEF Stays
  <2>3. CASE ~workersStarted
    <3>1. pc[w] = "off"
      BY <2>3 DEF Accounts, Unstarted
    <3>2. pc'[w] = "loop"
      BY <2>1, <2>3, Apart DEF ForkProcessingFibers, ForkWorkers
    <3> QED
      BY <2>3, <3>1, <3>2
         DEF Uncounted, HasPermit, InBody, Enqueuing, EnqueueLabels,
             ForkProcessingFibers
  <2> QED
    BY <2>2, <2>3
<1>2. UNCHANGED <<inFlight, permits>> /\ workersStarted'
  BY DEF ForkProcessingFibers
<1> QED
  BY <1>1, <1>2, NothingCounted

----------------------------------------------------------------------------
(* The other steps of a worker.                                              *)

LEMMA WorkerMovesOn ==
    ASSUME TypeOK, Accounts, NEW w \in Workers,
           \/ WorkerLoop(w) \/ AwaitLatch(w) \/ PollLane(w) \/ TakeNextEmpty(w)
           \/ WorkerWoken(w) \/ RateLimitAwait(w) \/ SkipRateLimitedItem(w)
    PROVE  Accounts'
<1> DEFINE outside == {"loop", "latch1", "shut1", "latch2", "shut2", "poll",
                       "check", "wait", "rate", "skip", "start", "fin1", "exit"}
<1>1. /\ pc[w] \in outside /\ pc'[w] \in outside
      /\ OthersStay(w)
      /\ UNCHANGED <<inFlight, permits, workersStarted>>
  <2>1. CASE WorkerLoop(w) \/ AwaitLatch(w)
    BY <2>1, Apart, Moves DEF WorkerLoop, AwaitLatch, OthersStay, Stays
  <2>2. CASE PollLane(w)
    <3>1. /\ pc[w] = "poll"
          /\ UNCHANGED pc \/ GoTo(w, "latch2") \/ GoTo(w, "check")
          /\ UNCHANGED <<op, inFlight, permits, workersStarted>>
      BY <2>2, Zenon DEF PollLane
    <3> QED
      BY <3>1, Apart, Moves DEF OthersStay, Stays
  <2>3. CASE TakeNextEmpty(w) \/ WorkerWoken(w)
    BY <2>3, Apart, Moves DEF TakeNextEmpty, WorkerWoken, OthersStay, Stays
  <2>4. CASE RateLimitAwait(w) \/ SkipRateLimitedItem(w)
    BY <2>4, Apart, Moves
       DEF RateLimitAwait, SkipRateLimitedItem, OthersStay, Stays
  <2> QED
    BY <2>1, <2>2, <2>3, <2>4
<1>2. Uncounted(w)
  BY <1>1 DEF Uncounted, HasPermit, InBody, Enqueuing, EnqueueLabels
<1> QED
  BY <1>1, <1>2, WorkerUncounted

(* A running item stays in its body until SettleItem.                        *)
LEMMA WorkerRuns ==
    ASSUME TypeOK, Accounts, NEW w \in Workers,
           CtxEnqueue(w) \/ EffectExits(w) \/ ReleaseKey(w)
    PROVE  Accounts'
<1>1. CASE CtxEnqueue(w)
  <2>1. /\ pc[w] = "run" /\ pc'[w] = "enq" /\ op'[w] = "ctx" /\ OthersStay(w)
        /\ UNCHANGED <<inFlight, permits, workersStarted>>
    BY Zenon, <1>1, Apart, Moves DEF CtxEnqueue, CallEnqueue, OthersStay, Stays
  <2>2. Uncounted(w)
    BY <2>1 DEF Uncounted, HasPermit, InBody, Enqueuing, EnqueueLabels
  <2> QED
    BY <2>1, <2>2, WorkerUncounted
<1>2. CASE EffectExits(w) \/ ReleaseKey(w)
  <2>1. /\ pc[w] \in {"run", "unkey"} /\ pc'[w] \in {"unkey", "settle"}
        /\ OthersStay(w) /\ UNCHANGED <<inFlight, permits, workersStarted>>
    BY <1>2, Apart, Moves DEF EffectExits, ReleaseKey, OthersStay, Stays
  <2>2. Uncounted(w)
    BY <2>1 DEF Uncounted, HasPermit, InBody, Enqueuing, EnqueueLabels
  <2> QED
    BY <2>1, <2>2, WorkerUncounted
<1> QED
  BY <1>1, <1>2

(* A failed item keeps its permit while it is disposed of and enqueued again.*)
LEMMA WorkerDisposes ==
    ASSUME TypeOK, Accounts, NEW w \in Workers,
           DisposeFailure(w) \/ RetryRelease(w)
    PROVE  Accounts'
<1>1. CASE DisposeFailure(w)
  <2>1. /\ pc[w] = "dispose" /\ pc'[w] \in {"requeue", "empty"}
        /\ OthersStay(w) /\ UNCHANGED <<inFlight, permits, workersStarted>>
    BY Zenon, <1>1, Apart, Moves DEF DisposeFailure, OthersStay, Stays
  <2>2. Uncounted(w)
    BY <2>1 DEF Uncounted, HasPermit, InBody, Enqueuing, EnqueueLabels
  <2> QED
    BY <2>1, <2>2, WorkerUncounted
<1>2. CASE RetryRelease(w)
  <2>1. /\ pc[w] = "requeue" /\ pc'[w] = "enq" /\ op'[w] = "retry"
        /\ OthersStay(w) /\ UNCHANGED <<inFlight, permits, workersStarted>>
    BY <1>2, Apart, Moves DEF RetryRelease, CallEnqueue, OthersStay, Stays
  <2>2. Uncounted(w)
    BY <2>1 DEF Uncounted, HasPermit, InBody, Enqueuing, EnqueueLabels
  <2> QED
    BY <2>1, <2>2, WorkerUncounted
<1> QED
  BY <1>1, <1>2

LEMMA WorkerAccounts ==
    ASSUME TypeOK, Accounts, NEW w \in Workers, Worker(w)
    PROVE  Accounts'
BY StartItemAccounts, SettleItemAccounts, ReleasePermitAccounts, WorkerMovesOn,
   WorkerRuns, WorkerDisposes DEF Worker

----------------------------------------------------------------------------
(* The subroutines. A worker is inside enqueueInternal as the running effect *)
(* or as a retry; it returns to the body or to the end of the retry.         *)

LEMMA MintMoves ==
    ASSUME TypeOK, NEW f \in Fibers,
           DedupCheck(f) \/ ClaimKey(f) \/ Offer(f)
    PROVE  /\ pc[f] \in EnqueueLabels /\ pc'[f] \in EnqueueLabels
           /\ op' = op /\ OthersStay(f)
           /\ UNCHANGED <<inFlight, permits, workersStarted>>
<1>1. CASE DedupCheck(f)
  <2>1. /\ pc[f] = "dedup" /\ (UNCHANGED pc \/ GoTo(f, "claim"))
        /\ UNCHANGED <<op, inFlight, permits, workersStarted>>
    BY <1>1, Zenon DEF DedupCheck
  <2> QED
    BY <2>1, Moves DEF OthersStay, Stays, EnqueueLabels
<1>2. CASE ClaimKey(f)
  BY <1>2, Moves DEF ClaimKey, OthersStay, Stays, EnqueueLabels
<1>3. CASE Offer(f)
  <2>1. /\ pc[f] = "offer" /\ (GoTo(f, "wake1") \/ GoTo(f, "offer"))
        /\ UNCHANGED <<op, inFlight, permits, workersStarted>>
    BY <1>3 DEF Offer
  <2> QED
    BY <2>1, Moves DEF OthersStay, Stays, EnqueueLabels
<1> QED
  BY <1>1, <1>2, <1>3

(* Every other step of a subroutine goes to a label or returns to one.       *)
LEMMA SubroutineMoves ==
    ASSUME TypeOK, NEW f \in Fibers,
           \/ EnqueueShutdownCheck(f) \/ DedupDone(f) \/ SignalWorkerWake(f)
           \/ SignalDrainWake(f) \/ WakeDrainedIfEmpty(f) \/ FinalizeRead(f)
           \/ FinalizeSet(f)
    PROVE  /\ OthersStay(f)
           /\ UNCHANGED <<inFlight, permits, workersStarted>>
           /\ \/ /\ pc[f] \in {"enq", "dedup", "wake1"}
                 /\ pc'[f] \in {"dedup", "offer", "wake2"} /\ op'[f] = op[f]
              \/ pc[f] \in {"enq", "dedup"} /\ Return(f, AfterEnqueue(f))
              \/ pc[f] = "wake2" /\ Return(f, AfterWorkerWake(f))
              \/ /\ pc[f] \in {"empty", "drain1"}
                 /\ pc'[f] \in {"drain1", "drain2"} /\ op'[f] = op[f]
              \/ pc[f] \in {"empty", "drain2"} /\ Return(f, AfterDrainWake(f))
              \/ pc[f] = "fin1" /\ pc'[f] = "fin2" /\ op'[f] = op[f]
              \/ pc[f] \in {"fin1", "fin2"} /\ Return(f, AfterFinalize(f))
<1>1. CASE EnqueueShutdownCheck(f) \/ DedupDone(f)
  BY <1>1, Moves, ReturnMoves
     DEF EnqueueShutdownCheck, DedupDone, OthersStay, Stays
<1>2. CASE SignalWorkerWake(f) \/ SignalDrainWake(f)
  BY <1>2, Moves, ReturnMoves
     DEF SignalWorkerWake, SignalDrainWake, OthersStay, Stays
<1>3. CASE WakeDrainedIfEmpty(f) \/ FinalizeRead(f) \/ FinalizeSet(f)
  BY <1>3, Moves, ReturnMoves
     DEF WakeDrainedIfEmpty, FinalizeRead, FinalizeSet, OthersStay, Stays
<1> QED
  BY <1>1, <1>2, <1>3

LEMMA SubroutineAccounts ==
    ASSUME TypeOK, Accounts, NEW f \in Fibers, Subroutine(f)
    PROVE  Accounts'
<1>1. OthersStay(f) /\ UNCHANGED <<inFlight, permits, workersStarted>>
  BY MintMoves, SubroutineMoves DEF Subroutine
<1>2. CASE f \notin Workers
  BY <1>1, <1>2, NoWorker
<1>3. CASE f \in Workers
  <2>1. f \notin Clients /\ f # DrainMonitor
    BY <1>3, Apart
  <2>2. pc[f] \in EnqueueLabels => op[f] \in {"ctx", "retry"}
    BY <1>3 DEF TypeOK, FrameOK
  <2>3. CASE DedupCheck(f) \/ ClaimKey(f) \/ Offer(f)
    <3>1. /\ pc[f] \in EnqueueLabels /\ pc'[f] \in EnqueueLabels
          /\ op'[f] = op[f]
      BY <2>3, MintMoves
    <3>2. Uncounted(f)
      BY <3>1 DEF Uncounted, HasPermit, InBody, Enqueuing, EnqueueLabels
    <3> QED
      BY <1>1, <1>3, <3>2, WorkerUncounted
  <2>4. CASE \/ EnqueueShutdownCheck(f) \/ DedupDone(f) \/ SignalWorkerWake(f)
             \/ SignalDrainWake(f) \/ WakeDrainedIfEmpty(f) \/ FinalizeRead(f)
             \/ FinalizeSet(f)
    <3>1. CASE /\ pc[f] \in {"enq", "dedup", "wake1"}
               /\ pc'[f] \in {"dedup", "offer", "wake2"} /\ op'[f] = op[f]
      <4>1. Uncounted(f)
        BY <3>1 DEF Uncounted, HasPermit, InBody, Enqueuing, EnqueueLabels
      <4> QED
        BY <1>1, <1>3, <4>1, WorkerUncounted
    <3>2. CASE /\ pc[f] \in {"enq", "dedup", "wake2"}
               /\ Return(f, AfterEnqueue(f))
      <4>1. pc'[f] = IF op[f] = "ctx" THEN "run" ELSE "empty"
        BY <2>1, <3>2, ReturnMoves DEF AfterEnqueue
      <4>2. op[f] \in {"ctx", "retry"} /\ pc[f] \in EnqueueLabels
        BY <2>2, <3>2 DEF EnqueueLabels
      <4>3. Uncounted(f)
        BY <4>1, <4>2, <3>2 DEF Uncounted, HasPermit, InBody, Enqueuing, EnqueueLabels
      <4> QED
        BY <1>1, <1>3, <4>3, WorkerUncounted
    <3>3. CASE /\ pc[f] \in {"empty", "drain1"}
               /\ pc'[f] \in {"drain1", "drain2"} /\ op'[f] = op[f]
      <4>1. Uncounted(f)
        BY <3>3 DEF Uncounted, HasPermit, InBody, Enqueuing, EnqueueLabels
      <4> QED
        BY <1>1, <1>3, <4>1, WorkerUncounted
    <3>4. CASE pc[f] \in {"empty", "drain2"} /\ Return(f, AfterDrainWake(f))
      <4>1. pc'[f] \in {"empty", "permit"}
        BY <1>3, <3>4, ReturnMoves DEF AfterDrainWake
      <4>2. Uncounted(f)
        BY <4>1, <3>4 DEF Uncounted, HasPermit, InBody, Enqueuing, EnqueueLabels
      <4> QED
        BY <1>1, <1>3, <4>2, WorkerUncounted
    <3>5. CASE \/ pc[f] = "fin1" /\ pc'[f] = "fin2" /\ op'[f] = op[f]
               \/ pc[f] \in {"fin1", "fin2"} /\ Return(f, AfterFinalize(f))
      <4>1. pc[f] \in {"fin1", "fin2"} /\ pc'[f] \in {"fin2", "loop"}
        BY <1>3, <3>5, ReturnMoves DEF AfterFinalize
      <4>2. Uncounted(f)
        BY <4>1 DEF Uncounted, HasPermit, InBody, Enqueuing, EnqueueLabels
      <4> QED
        BY <1>1, <1>3, <4>2, WorkerUncounted
    <3>6. AfterWorkerWake(f) = AfterEnqueue(f)
      BY <2>1 DEF AfterWorkerWake
    <3> QED
      BY <2>4, <3>1, <3>2, <3>3, <3>4, <3>5, <3>6, SubroutineMoves
  <2> QED
    BY <2>3, <2>4 DEF Subroutine
<1> QED
  BY <1>2, <1>3

----------------------------------------------------------------------------
(* The steps of the drain monitor and of the clients.                        *)

LEMMA MonitorAccounts ==
    ASSUME TypeOK, Accounts, Monitor
    PROVE  Accounts'
<1>1. DrainMonitor \in Fibers \ Workers
  BY FibersAssumption
<1>2. OthersStay(DrainMonitor) /\ UNCHANGED <<inFlight, permits, workersStarted>>
  BY <1>1, Moves
     DEF Monitor, MonitorLoop, MonitorWoken, MonitorCheck, MonitorLoad,
         CallEnqueue, OthersStay, Stays
<1> QED
  BY <1>1, <1>2, NoWorker

LEMMA ClientAccounts ==
    ASSUME TypeOK, Accounts, NEW c \in Clients, ClientCall(c) \/ ClientStep(c)
    PROVE  Accounts'
<1>1. c \in Fibers \ Workers
  BY FibersAssumption
<1>2. CASE CallAdd(c) \/ CallEnqueueEntry(c) \/ InterruptCall(c)
  <2>1. OthersStay(c) /\ UNCHANGED <<inFlight, permits, workersStarted>>
    BY Zenon, <1>1, <1>2, Moves, ReturnMoves
       DEF CallAdd, CallEnqueueEntry, InterruptCall, CallEnqueue, OthersStay,
           Stays
  <2> QED
    BY <1>1, <2>1, NoWorker
<1>3. CASE CallPause(c) \/ CallShutdown(c) \/ CallExtract(c) \/ CallStart(c)
  <2>1. /\ UNCHANGED <<inFlight, permits, workersStarted>>
        /\ \E o, label, s : Call(c, o, label, s)
    <3>1. \E o, label, s : Call(c, o, label, s)
      BY <1>3, Zenon DEF CallPause, CallShutdown, CallExtract, CallStart
    <3>2. UNCHANGED <<inFlight, permits>>
      BY <3>1 DEF Call
    <3>3. UNCHANGED workersStarted
      BY <1>3 DEF CallPause, CallShutdown, CallExtract, CallStart
    <3> QED
      BY <3>1, <3>2, <3>3
  <2>2. OthersStay(c)
    BY <1>1, <2>1, Moves DEF Call, OthersStay, Stays
  <2> QED
    BY <1>1, <2>1, <2>2, NoWorker
<1>4. CASE CallResume(c) \/ DrainModeOpensLatch(c)
  <2>1. \E label : OpenLatch(c, label)
    BY <1>4 DEF CallResume, DrainModeOpensLatch
  <2>2. /\ UNCHANGED <<inFlight, permits, workersStarted>>
        /\ \A w \in Workers : op'[w] = op[w]
    BY <1>1, <1>4, Apart DEF CallResume, DrainModeOpensLatch, TypeOK, FramesOK
  <2> QED
    BY <2>1, <2>2, OpenLatchAccounts
<1>5. CASE SetPaused(c) \/ SetShutdown(c)
  <2>1. OthersStay(c) /\ UNCHANGED <<inFlight, permits, workersStarted>>
    BY <1>1, <1>5, Moves, ReturnMoves
       DEF SetPaused, SetShutdown, OthersStay, Stays
  <2> QED
    BY <1>1, <2>1, NoWorker
<1>6. CASE DrainLane(c) \/ PutBack(c)
  <2>1. /\ \E label : UNCHANGED pc \/ GoTo(c, label)
        /\ UNCHANGED <<op, inFlight, permits, workersStarted>>
    BY <1>6, Zenon DEF DrainLane, PutBack, NextLane
  <2>2. OthersStay(c)
    BY <1>1, <2>1, Moves DEF OthersStay, Stays
  <2> QED
    BY <1>1, <2>1, <2>2, NoWorker
<1>7. CASE ReleaseKeys(c) \/ ResetCompleted(c) \/ EncodeReleased(c)
  <2>1. /\ \E label : GoTo(c, label)
        /\ UNCHANGED <<op, inFlight, permits, workersStarted>>
    BY <1>7 DEF ReleaseKeys, ResetCompleted, EncodeReleased
  <2>2. OthersStay(c)
    BY <1>1, <2>1, Moves DEF OthersStay, Stays
  <2> QED
    BY <1>1, <2>1, <2>2, NoWorker
<1>8. CASE RestorePending(c) \/ RestoreActiveKey(c)
  <2>1. /\ \E label : GoTo(c, label)
        /\ UNCHANGED <<op, inFlight, permits, workersStarted>>
    BY <1>8 DEF RestorePending, RestoreActiveKey
  <2>2. OthersStay(c)
    BY <1>1, <2>1, Moves DEF OthersStay, Stays
  <2> QED
    BY <1>1, <2>1, <2>2, NoWorker
<1>9. CASE ForkProcessingFibers(c)
  BY <1>9, ForkAccounts
<1> QED
  BY <1>2, <1>3, <1>4, <1>5, <1>6, <1>7, <1>8, <1>9
     DEF ClientCall, ClientStep

----------------------------------------------------------------------------
(* The theorem.                                                              *)

LEMMA InitAccounts == Init => Accounts
<1> SUFFICES ASSUME Init PROVE Accounts
  OBVIOUS
<1>1. InBodies = {} /\ Permitted = {}
  BY Apart
     DEF Init, InBodies, Permitted, HasPermit, InBody, Enqueuing, EnqueueLabels
<1>2. InFlightAccounting
  BY <1>1, Counted, FS_EmptySet
     DEF Init, InFlightAccounting, InBodies, Permitted
<1>3. Unstarted
  BY Apart DEF Init, Unstarted
<1> QED
  BY <1>2, <1>3 DEF Accounts

LEMMA NextAccounts == TypeOK /\ Accounts /\ [Next]_vars => Accounts'
<1> SUFFICES ASSUME TypeOK, Accounts, [Next]_vars PROVE Accounts'
  OBVIOUS
<1>1. ASSUME UNCHANGED vars PROVE Accounts'
  <2>1. ASSUME NEW w \in Workers PROVE Uncounted(w)
    BY <1>1, StaysUncounted DEF vars, Stays
  <2> QED
    BY <1>1, <2>1, NothingCounted DEF vars
<1> QED
  BY <1>1, WorkerAccounts, ClientAccounts, MonitorAccounts, SubroutineAccounts
     DEF Next, AtRest

(* inFlightRef is the number of workers between the start and the settling   *)
(* of an item, so that Math.max(0, n - 1) never hides a miscount and the     *)
(* finalizer's test for zero means what it says; and the free permits of the *)
(* concurrency semaphore account for every worker that holds one.            *)
THEOREM InFlightExact == Spec => []InFlightAccounting
<1>1. Init => TypeOK /\ Accounts
  BY InitTypeOK, InitAccounts
<1>2. TypeOK /\ Accounts /\ [Next]_vars => (TypeOK /\ Accounts)'
  BY NextTypeOK, NextAccounts
<1>3. Accounts => InFlightAccounting
  BY DEF Accounts
<1> QED
  BY <1>1, <1>2, <1>3, PTL DEF Spec

----------------------------------------------------------------------------
(* What one call of shutdown may publish. A call of shutdown is the only way *)
(* into "draining" and a finalizer the only way out of it; whatever workers, *)
(* clients and finalizers do, a call is worth one ShutdownComplete, and a    *)
(* queue that is shut down once never leaves "off".                          *)

(* The invariant. A draining phase is an event still to be published. A      *)
(* finalizer that has read the phase relies on it not to return to           *)
(* "running" before its getAndSet.                                           *)

Called == Budget["shutdown"] - left["shutdown"]

OneEventPerCall ==
    completes + (IF phase = "draining" THEN 1 ELSE 0) <= Called
NoCallNoShutdown == Called = 0 => phase = "running"
LateFinalizers == \A f \in Fibers : pc[f] = "fin2" => phase # "running"

Events == OneEventPerCall /\ NoCallNoShutdown /\ LateFinalizers

LEMMA LeftOK ==
    ASSUME TypeOK
    PROVE  /\ left["shutdown"] \in Nat /\ Budget["shutdown"] \in Nat
           /\ completes \in Nat /\ phase \in Phases
BY ConfigAssumption DEF TypeOK, HistoryOK, FlagsOK, OpNames

LEMMA SpendOther ==
    ASSUME TypeOK
    PROVE  \A o : o # "shutdown" /\ Spend(o)
                    => left'["shutdown"] = left["shutdown"]
BY DEF TypeOK, HistoryOK, OpNames, Spend

----------------------------------------------------------------------------
(* Steps that neither call shutdown nor finalize.                            *)

NoEvent ==
    /\ UNCHANGED <<phase, completes>>
    /\ left'["shutdown"] = left["shutdown"]
    /\ \A f \in Fibers : pc'[f] = "fin2" => pc[f] = "fin2"

LEMMA NoEventKept ==
    ASSUME Events, NoEvent
    PROVE  Events'
BY DEF Events, NoEvent, OneEventPerCall, NoCallNoShutdown, LateFinalizers, Called

LEMMA GoesElsewhere ==
    ASSUME TypeOK, NEW f \in Fibers, NEW label, label # "fin2",
           GoTo(f, label) \/ Return(f, label)
    PROVE  \A g \in Fibers : pc'[g] = "fin2" => pc[g] = "fin2"
BY DEF TypeOK, FramesOK, Return

LEMMA WorkerNoEvent ==
    ASSUME TypeOK, NEW w \in Workers, Worker(w)
    PROVE  NoEvent
<1>1. CASE WorkerLoop(w) \/ AwaitLatch(w) \/ TakeNextEmpty(w) \/ WorkerWoken(w)
  BY <1>1, GoesElsewhere
     DEF WorkerLoop, AwaitLatch, TakeNextEmpty, WorkerWoken, NoEvent
<1>2. CASE PollLane(w)
  <2>1. /\ UNCHANGED <<phase, completes, left>>
        /\ UNCHANGED pc \/ GoTo(w, "latch2") \/ GoTo(w, "check")
    BY <1>2, Zenon DEF PollLane
  <2> QED
    BY <2>1, GoesElsewhere DEF NoEvent
<1>3. CASE RateLimitAwait(w) \/ SkipRateLimitedItem(w) \/ StartItem(w)
  BY <1>3, GoesElsewhere
     DEF RateLimitAwait, SkipRateLimitedItem, StartItem, NoEvent
<1>4. CASE CtxEnqueue(w) \/ EffectExits(w)
  BY <1>4, GoesElsewhere, SpendOther
     DEF CtxEnqueue, EffectExits, CallEnqueue, NoEvent
<1>5. CASE ReleaseKey(w) \/ SettleItem(w) \/ ReleasePermit(w)
  BY <1>5, GoesElsewhere DEF ReleaseKey, SettleItem, ReleasePermit, NoEvent
<1>6. CASE DisposeFailure(w) \/ RetryRelease(w)
  BY <1>6, GoesElsewhere DEF DisposeFailure, RetryRelease, CallEnqueue, NoEvent
<1> QED
  BY <1>1, <1>2, <1>3, <1>4, <1>5, <1>6 DEF Worker

LEMMA MonitorNoEvent ==
    ASSUME TypeOK, Monitor
    PROVE  NoEvent
BY GoesElsewhere, SpendOther
   DEF Monitor, MonitorLoop, MonitorWoken, MonitorCheck, MonitorLoad,
       CallEnqueue, NoEvent

LEMMA ClientNoEvent ==
    ASSUME TypeOK, NEW c \in Clients, ClientCall(c) \/ ClientStep(c),
           ~CallShutdown(c)
    PROVE  NoEvent
<1>1. CASE CallAdd(c) \/ CallEnqueueEntry(c) \/ InterruptCall(c)
  <2>1. /\ UNCHANGED <<phase, completes>>
        /\ GoTo(c, "enq") \/ Return(c, "idle")
        /\ Spend("add") \/ Spend("reinject") \/ Spend("interrupt")
    <3>1. CASE CallAdd(c)
      BY <3>1 DEF CallAdd, CallEnqueue
    <3>2. CASE CallEnqueueEntry(c)
      BY <3>2 DEF CallEnqueueEntry, CallEnqueue
    <3>3. CASE InterruptCall(c)
      BY <3>3 DEF InterruptCall
    <3> QED
      BY <1>1, <3>1, <3>2, <3>3
  <2> QED
    BY <2>1, GoesElsewhere, SpendOther DEF NoEvent
<1>2. CASE CallPause(c) \/ CallExtract(c) \/ CallStart(c)
  <2>1. \E o, label, s : o # "shutdown" /\ label # "fin2" /\ Call(c, o, label, s)
    BY <1>2, Zenon DEF CallPause, CallExtract, CallStart
  <2>2. phase' = phase
    BY <1>2 DEF CallPause, CallExtract, CallStart
  <2> QED
    BY <2>1, <2>2, GoesElsewhere, SpendOther DEF Call, NoEvent
<1>3. CASE CallResume(c) \/ DrainModeOpensLatch(c)
  <2>1. \E label : label # "fin2" /\ OpenLatch(c, label)
    BY <1>3 DEF CallResume, DrainModeOpensLatch
  <2>2. \A g \in Fibers : pc'[g] = "fin2" => pc[g] = "fin2"
    BY <2>1 DEF OpenLatch
  <2> QED
    BY <1>3, <2>2, SpendOther DEF CallResume, DrainModeOpensLatch, NoEvent
<1>4. CASE SetPaused(c) \/ SetShutdown(c)
  BY <1>4, GoesElsewhere DEF SetPaused, SetShutdown, NoEvent
<1>5. CASE DrainLane(c) \/ PutBack(c)
  <2>1. /\ UNCHANGED <<phase, completes, left>>
        /\ \/ UNCHANGED pc \/ GoTo(c, "putback") \/ GoTo(c, "drain")
           \/ GoTo(c, "keys")
    BY <1>5, Zenon DEF DrainLane, PutBack, NextLane
  <2> QED
    BY <2>1, GoesElsewhere DEF NoEvent
<1>6. CASE ReleaseKeys(c) \/ ResetCompleted(c) \/ EncodeReleased(c)
  BY <1>6, GoesElsewhere, SpendOther
     DEF ReleaseKeys, AfterKeys, ResetCompleted, EncodeReleased, NoEvent
<1>7. CASE RestorePending(c) \/ RestoreActiveKey(c)
  BY <1>7, GoesElsewhere DEF RestorePending, RestoreActiveKey, NoEvent
<1>8. CASE ForkProcessingFibers(c)
  BY <1>8 DEF ForkProcessingFibers, ForkWorkers, TypeOK, FramesOK, NoEvent
<1> QED
  BY <1>1, <1>2, <1>3, <1>4, <1>5, <1>6, <1>7, <1>8 DEF ClientCall, ClientStep

LEMMA SubroutineNoEvent ==
    ASSUME TypeOK, NEW f \in Fibers, Subroutine(f), ~FinalizeRead(f),
           ~FinalizeSet(f)
    PROVE  NoEvent
<1>1. /\ AfterEnqueue(f) # "fin2" /\ AfterWorkerWake(f) # "fin2"
      /\ AfterDrainWake(f) # "fin2"
  BY DEF AfterEnqueue, AfterWorkerWake, AfterDrainWake
<1>2. CASE EnqueueShutdownCheck(f) \/ DedupDone(f)
  BY <1>1, <1>2, GoesElsewhere DEF EnqueueShutdownCheck, DedupDone, NoEvent
<1>3. CASE DedupCheck(f)
  <2>1. /\ UNCHANGED <<phase, completes, left>>
        /\ UNCHANGED pc \/ GoTo(f, "claim")
    BY <1>3, Zenon DEF DedupCheck
  <2> QED
    BY <2>1, GoesElsewhere DEF NoEvent
<1>4. CASE ClaimKey(f) \/ Offer(f)
  <2>1. /\ UNCHANGED <<phase, completes, left>>
        /\ GoTo(f, "dedup") \/ GoTo(f, "wake1") \/ GoTo(f, "offer")
    BY <1>4 DEF ClaimKey, Offer
  <2> QED
    BY <2>1, GoesElsewhere DEF NoEvent
<1>5. CASE SignalWorkerWake(f) \/ SignalDrainWake(f) \/ WakeDrainedIfEmpty(f)
  BY <1>1, <1>5, GoesElsewhere
     DEF SignalWorkerWake, SignalDrainWake, WakeDrainedIfEmpty, NoEvent
<1> QED
  BY <1>2, <1>3, <1>4, <1>5 DEF Subroutine

----------------------------------------------------------------------------
(* The calls of shutdown and the finalizers.                                 *)

LEMMA CallShutdownEvents ==
    ASSUME TypeOK, Events, NEW c \in Clients, CallShutdown(c)
    PROVE  Events'
<1>1. /\ left["shutdown"] > 0 /\ left'["shutdown"] = left["shutdown"] - 1
      /\ phase' = "draining" /\ completes' = completes
  BY DEF CallShutdown, PhaseOnShutdown, Call, Spend, TypeOK, HistoryOK, OpNames
<1>2. completes <= Called
  BY LeftOK DEF Events, OneEventPerCall, Called
<1>3. OneEventPerCall' /\ NoCallNoShutdown'
  BY <1>1, <1>2, LeftOK DEF Events, OneEventPerCall, NoCallNoShutdown, Called
<1> QED
  BY <1>1, <1>3 DEF Events, LateFinalizers

LEMMA FinalizeReadEvents ==
    ASSUME TypeOK, Events, NEW f \in Fibers, FinalizeRead(f)
    PROVE  Events'
<1>1. CASE phase = "draining" /\ LanesEmpty
  BY <1>1
     DEF FinalizeRead, TypeOK, FramesOK, Events, OneEventPerCall,
         NoCallNoShutdown, LateFinalizers, Called
<1>2. CASE ~(phase = "draining" /\ LanesEmpty)
  <2>1. AfterFinalize(f) # "fin2"
    BY DEF AfterFinalize
  <2>2. NoEvent
    BY <1>2, <2>1, GoesElsewhere DEF FinalizeRead, NoEvent
  <2> QED
    BY <2>2, NoEventKept
<1> QED
  BY <1>1, <1>2

LEMMA FinalizeSetEvents ==
    ASSUME TypeOK, Events, NEW f \in Fibers, FinalizeSet(f)
    PROVE  Events' /\ (phase' = phase \/ phase' = "off")
<1>1. AfterFinalize(f) # "fin2"
  BY DEF AfterFinalize
<1>2. \A g \in Fibers : pc'[g] = "fin2" => pc[g] = "fin2"
  BY <1>1, GoesElsewhere DEF FinalizeSet
<1>3. left' = left /\ phase # "running"
  BY DEF FinalizeSet, Events, LateFinalizers
<1>4. CASE inFlight = 0
  <2>1. /\ phase' = "off"
        /\ completes' = completes + (IF phase = "draining" THEN 1 ELSE 0)
    BY <1>4 DEF FinalizeSet, PublishesComplete
  <2>2. OneEventPerCall'
    BY <1>3, <2>1, LeftOK DEF Events, OneEventPerCall, Called
  <2>3. NoCallNoShutdown'
    BY <1>3 DEF Events, NoCallNoShutdown, Called
  <2> QED
    BY <2>1, <2>2, <2>3 DEF Events, LateFinalizers
<1>5. CASE inFlight # 0
  <2>1. NoEvent
    BY <1>2, <1>3, <1>5 DEF FinalizeSet, NoEvent
  <2> QED
    BY <2>1, NoEventKept DEF NoEvent
<1> QED
  BY <1>4, <1>5

----------------------------------------------------------------------------
(* The theorems.                                                             *)

LEMMA InitEvents == Init => Events
BY ConfigAssumption, FibersAssumption
   DEF Init, Events, OneEventPerCall, NoCallNoShutdown, LateFinalizers, Called,
       OpNames

LEMMA NextEvents == TypeOK /\ Events /\ [Next]_vars => Events'
<1> SUFFICES ASSUME TypeOK, Events, [Next]_vars PROVE Events'
  OBVIOUS
<1>1. ASSUME UNCHANGED vars PROVE Events'
  BY <1>1, NoEventKept DEF vars, NoEvent
<1>2. ASSUME NEW c \in Clients, ClientCall(c) \/ ClientStep(c) PROVE Events'
  BY <1>2, CallShutdownEvents, ClientNoEvent, NoEventKept
<1>3. ASSUME NEW f \in Fibers, Subroutine(f) PROVE Events'
  BY <1>3, FinalizeReadEvents, FinalizeSetEvents, SubroutineNoEvent, NoEventKept
<1> QED
  BY <1>1, <1>2, <1>3, WorkerNoEvent, MonitorNoEvent, NoEventKept
     DEF Next, AtRest

(* ShutdownComplete is published at most once when shutdown is called at     *)
(* most once, however many workers and clients race to finalize.             *)
THEOREM CompleteOnce ==
    ASSUME Budget["shutdown"] <= 1
    PROVE  Spec => []ShutdownCompleteOnce
<1>1. Init => TypeOK /\ Events
  BY InitTypeOK, InitEvents
<1>2. TypeOK /\ Events /\ [Next]_vars => (TypeOK /\ Events)'
  BY NextTypeOK, NextEvents
<1>3. TypeOK /\ Events => ShutdownCompleteOnce
  BY LeftOK DEF Events, OneEventPerCall, Called, ShutdownCompleteOnce
<1> QED
  BY <1>1, <1>2, <1>3, PTL DEF Spec

(* With one call of shutdown, the phase never goes back: no resume, refill,  *)
(* finalizer or interrupted call reopens a queue that drains or is off.      *)
THEOREM NeverReopens ==
    ASSUME Budget["shutdown"] <= 1
    PROVE  Spec => PhaseForward
<1> DEFINE Forward == PhaseRank(phase') >= PhaseRank(phase)
<1>1. Init => TypeOK /\ Events
  BY InitTypeOK, InitEvents
<1>2. TypeOK /\ Events /\ [Next]_vars => (TypeOK /\ Events)'
  BY NextTypeOK, NextEvents
<1>3. TypeOK /\ Events /\ [Next]_vars => [Forward]_vars
  <2> SUFFICES ASSUME TypeOK, Events, Next PROVE Forward
    OBVIOUS
  <2>1. CASE phase' = phase
    BY <2>1, LeftOK DEF PhaseRank, Phases
  <2>2. ASSUME NEW c \in Clients, CallShutdown(c) PROVE Forward
    <3>1. left["shutdown"] > 0 /\ phase' = "draining"
      BY <2>2 DEF CallShutdown, PhaseOnShutdown, Call, Spend
    <3>2. phase = "running"
      BY <3>1, LeftOK DEF Events, OneEventPerCall, NoCallNoShutdown, Called
    <3> QED
      BY <3>1, <3>2 DEF PhaseRank
  <2>3. ASSUME NEW f \in Fibers, FinalizeSet(f) PROVE Forward
    <3>1. phase' = phase \/ phase' = "off"
      BY <2>3, FinalizeSetEvents
    <3> QED
      BY <2>1, <3>1, LeftOK DEF PhaseRank, Phases
  <2>4. ASSUME NEW f \in Fibers, FinalizeRead(f) PROVE phase' = phase
    BY <2>4 DEF FinalizeRead
  <2>5. ASSUME NEW c \in Clients, ClientCall(c) \/ ClientStep(c) PROVE Forward
    BY <2>1, <2>2, <2>5, ClientNoEvent DEF NoEvent
  <2>6. ASSUME NEW f \in Fibers, Subroutine(f) PROVE Forward
    BY <2>1, <2>3, <2>4, <2>6, SubroutineNoEvent DEF NoEvent
  <2>7. ASSUME AtRest PROVE phase' = phase
    BY <2>7 DEF AtRest, vars
  <2> QED
    BY <2>1, <2>5, <2>6, <2>7, WorkerNoEvent, MonitorNoEvent DEF Next, NoEvent
<1> QED
  BY <1>1, <1>2, <1>3, PTL DEF Spec, PhaseForward

----------------------------------------------------------------------------
(* Pausing. pause closes the latch and resume opens it one step before they  *)
(* set pausedRef; in between, the two disagree. With one client and no       *)
(* interrupted caller, a client in between is the only disagreement.         *)

PauseLabels == {"setPaused", "setResumed", "unpause"}

Agrees(c) ==
    /\ pc[c] = "setPaused" => ~latch
    /\ pc[c] \in {"setResumed", "unpause"} => latch
    /\ pc[c] \notin PauseLabels => paused = ~latch

Pausing == left["interrupt"] = 0 /\ \A c \in Clients : Agrees(c)

(* Steps that have nothing to do with the pause.                             *)
Calm ==
    /\ UNCHANGED <<latch, paused>>
    /\ left'["interrupt"] = left["interrupt"]
    /\ \A g \in Clients : \/ pc'[g] = pc[g]
                          \/ pc[g] \notin PauseLabels /\ pc'[g] \notin PauseLabels

LEMMA CalmPausing ==
    ASSUME Pausing, Calm
    PROVE  Pausing'
BY DEF Pausing, Calm, Agrees, PauseLabels

LEMMA SpendNoInterrupt ==
    ASSUME TypeOK
    PROVE  \A o : o # "interrupt" /\ Spend(o) => left'["interrupt"] = left["interrupt"]
BY DEF TypeOK, HistoryOK, OpNames, Spend

(* A step of fiber f from a label to another one.                            *)
LEMMA MovesCalmly ==
    ASSUME TypeOK, NEW f \in Fibers, NEW label,
           GoTo(f, label) \/ Return(f, label),
           f \in Clients => pc[f] \notin PauseLabels /\ label \notin PauseLabels
    PROVE  \A g \in Clients : \/ pc'[g] = pc[g]
                              \/ pc[g] \notin PauseLabels /\ pc'[g] \notin PauseLabels
BY DEF TypeOK, FramesOK, Return

LEMMA WorkerCalm ==
    ASSUME TypeOK, NEW w \in Workers, Worker(w)
    PROVE  Calm
<1> w \in Fibers /\ w \notin Clients
  BY Apart
<1>1. CASE WorkerLoop(w) \/ AwaitLatch(w) \/ TakeNextEmpty(w) \/ WorkerWoken(w)
  BY <1>1, MovesCalmly DEF WorkerLoop, AwaitLatch, TakeNextEmpty, WorkerWoken, Calm
<1>2. CASE PollLane(w)
  <2>1. /\ UNCHANGED <<latch, paused, left>>
        /\ UNCHANGED pc \/ GoTo(w, "latch2") \/ GoTo(w, "check")
    BY <1>2, Zenon DEF PollLane
  <2> QED
    BY <2>1, MovesCalmly DEF Calm
<1>3. CASE RateLimitAwait(w) \/ SkipRateLimitedItem(w) \/ StartItem(w)
  BY <1>3, MovesCalmly DEF RateLimitAwait, SkipRateLimitedItem, StartItem, Calm
<1>4. CASE CtxEnqueue(w) \/ EffectExits(w)
  BY <1>4, MovesCalmly, SpendNoInterrupt DEF CtxEnqueue, EffectExits, CallEnqueue, Calm
<1>5. CASE ReleaseKey(w) \/ SettleItem(w) \/ ReleasePermit(w)
  BY <1>5, MovesCalmly DEF ReleaseKey, SettleItem, ReleasePermit, Calm
<1>6. CASE DisposeFailure(w) \/ RetryRelease(w)
  BY <1>6, MovesCalmly DEF DisposeFailure, RetryRelease, CallEnqueue, Calm
<1> QED
  BY <1>1, <1>2, <1>3, <1>4, <1>5, <1>6 DEF Worker

LEMMA MonitorCalm ==
    ASSUME TypeOK, Monitor
    PROVE  Calm
<1> DrainMonitor \in Fibers /\ DrainMonitor \notin Clients
  BY FibersAssumption
<1> QED
  BY MovesCalmly, SpendNoInterrupt
     DEF Monitor, MonitorLoop, MonitorWoken, MonitorCheck, MonitorLoad, CallEnqueue, Calm

LEMMA SubroutineCalm ==
    ASSUME TypeOK, NEW f \in Fibers, Subroutine(f)
    PROVE  Calm
<1>1. /\ AfterEnqueue(f) \notin PauseLabels /\ AfterWorkerWake(f) \notin PauseLabels
      /\ AfterDrainWake(f) \notin PauseLabels /\ AfterFinalize(f) \notin PauseLabels
  BY DEF AfterEnqueue, AfterWorkerWake, AfterDrainWake, AfterFinalize, PauseLabels
<1>2. CASE EnqueueShutdownCheck(f) \/ DedupDone(f)
  BY <1>1, <1>2, MovesCalmly DEF EnqueueShutdownCheck, DedupDone, Calm, PauseLabels
<1>3. CASE DedupCheck(f)
  <2>1. /\ UNCHANGED <<latch, paused, left>> /\ pc[f] = "dedup"
        /\ UNCHANGED pc \/ GoTo(f, "claim")
    BY <1>3, Zenon DEF DedupCheck
  <2> QED
    BY <2>1, MovesCalmly DEF Calm, PauseLabels
<1>4. CASE ClaimKey(f) \/ Offer(f)
  <2>1. /\ UNCHANGED <<latch, paused, left>> /\ pc[f] \in {"claim", "offer"}
        /\ GoTo(f, "dedup") \/ GoTo(f, "wake1") \/ GoTo(f, "offer")
    BY <1>4 DEF ClaimKey, Offer
  <2> QED
    BY <2>1, MovesCalmly DEF Calm, PauseLabels
<1>5. CASE SignalWorkerWake(f) \/ SignalDrainWake(f) \/ WakeDrainedIfEmpty(f)
  BY <1>1, <1>5, MovesCalmly
     DEF SignalWorkerWake, SignalDrainWake, WakeDrainedIfEmpty, Calm, PauseLabels
<1>6. CASE FinalizeRead(f) \/ FinalizeSet(f)
  BY <1>1, <1>6, MovesCalmly DEF FinalizeRead, FinalizeSet, Calm, PauseLabels
<1> QED
  BY <1>2, <1>3, <1>4, <1>5, <1>6 DEF Subroutine

LEMMA ClientCalm ==
    ASSUME TypeOK, NEW c \in Clients, left["interrupt"] = 0,
           \/ CallAdd(c) \/ CallEnqueueEntry(c) \/ CallShutdown(c) \/ CallExtract(c)
           \/ CallStart(c) \/ InterruptCall(c) \/ SetShutdown(c) \/ DrainLane(c)
           \/ PutBack(c) \/ ReleaseKeys(c) \/ ResetCompleted(c) \/ EncodeReleased(c)
           \/ RestorePending(c) \/ RestoreActiveKey(c) \/ ForkProcessingFibers(c)
    PROVE  Calm
<1> c \in Fibers
  BY DEF Fibers
<1>1. CASE CallAdd(c) \/ CallEnqueueEntry(c)
  <2>1. /\ UNCHANGED <<latch, paused>> /\ pc[c] = "idle" /\ GoTo(c, "enq")
        /\ Spend("add") \/ Spend("reinject")
    <3>1. CASE CallAdd(c)
      BY <3>1 DEF CallAdd, CallEnqueue
    <3>2. CASE CallEnqueueEntry(c)
      BY <3>2 DEF CallEnqueueEntry, CallEnqueue
    <3> QED
      BY <1>1, <3>1, <3>2
  <2> QED
    BY <2>1, MovesCalmly, SpendNoInterrupt DEF Calm, PauseLabels
<1>2. CASE CallShutdown(c) \/ CallExtract(c) \/ CallStart(c)
  <2>1. /\ UNCHANGED <<latch, paused>>
        /\ \E o, label, s : /\ o # "interrupt" /\ label \notin PauseLabels
                            /\ Call(c, o, label, s)
    <3>1. CASE CallShutdown(c)
      BY <3>1 DEF CallShutdown, PauseLabels
    <3>2. CASE CallExtract(c)
      BY <3>2 DEF CallExtract, PauseLabels
    <3>3. CASE CallStart(c)
      BY <3>3 DEF CallStart, PauseLabels
    <3> QED
      BY <1>2, <3>1, <3>2, <3>3
  <2>2. PICK o, label, s : /\ o # "interrupt" /\ label \notin PauseLabels
                           /\ Call(c, o, label, s)
    BY <2>1
  <2>3. pc[c] = "idle" /\ GoTo(c, label) /\ Spend(o)
    BY <2>2 DEF Call
  <2> QED
    BY <2>1, <2>2, <2>3, MovesCalmly, SpendNoInterrupt DEF Calm, PauseLabels
<1>3. CASE InterruptCall(c)
  BY <1>3 DEF InterruptCall, Spend
<1>4. CASE SetShutdown(c) \/ ResetCompleted(c) \/ RestorePending(c) \/ RestoreActiveKey(c)
  <2>1. /\ UNCHANGED <<latch, paused, left>> /\ pc[c] \notin PauseLabels
        /\ \E label : label \notin PauseLabels /\ GoTo(c, label)
    BY <1>4 DEF SetShutdown, ResetCompleted, RestorePending, RestoreActiveKey, PauseLabels
  <2> QED
    BY <2>1, MovesCalmly DEF Calm
<1>5. CASE DrainLane(c) \/ PutBack(c)
  <2>1. /\ UNCHANGED <<latch, paused, left>> /\ pc[c] \in {"drain", "putback"}
        /\ \/ UNCHANGED pc \/ GoTo(c, "putback") \/ GoTo(c, "drain")
           \/ GoTo(c, "keys")
    BY <1>5, Zenon DEF DrainLane, PutBack, NextLane
  <2> QED
    BY <2>1, MovesCalmly DEF Calm, PauseLabels
<1>6. CASE ReleaseKeys(c) \/ EncodeReleased(c)
  <2>1. /\ UNCHANGED <<latch, paused>> /\ pc[c] \in {"keys", "encode"}
        /\ UNCHANGED left \/ Spend("encodeError")
        /\ \E label : label \notin PauseLabels /\ GoTo(c, label)
    BY <1>6 DEF ReleaseKeys, EncodeReleased, AfterKeys, PauseLabels
  <2> QED
    BY <2>1, MovesCalmly, SpendNoInterrupt DEF Calm, PauseLabels
<1>7. CASE ForkProcessingFibers(c)
  BY <1>7 DEF ForkProcessingFibers, ForkWorkers, TypeOK, FramesOK, Calm, PauseLabels
<1> QED
  BY <1>1, <1>2, <1>3, <1>4, <1>5, <1>6, <1>7

LEMMA PauseSteps ==
    ASSUME TypeOK, Pausing, NEW c \in Clients, Clients = {c},
           CallPause(c) \/ CallResume(c) \/ SetPaused(c) \/ DrainModeOpensLatch(c)
    PROVE  Pausing'
<1> c \in Fibers
  BY DEF Fibers
<1>1. CASE CallPause(c)
  <2>1. GoTo(c, "setPaused") /\ Spend("pause") /\ latch' = FALSE
    BY <1>1 DEF CallPause, Call
  <2>2. pc'[c] = "setPaused"
    BY <2>1, Moves
  <2>3. left'["interrupt"] = left["interrupt"]
    BY <2>1, SpendNoInterrupt
  <2> QED
    BY <2>1, <2>2, <2>3 DEF Pausing, Agrees, PauseLabels
<1>2. CASE CallResume(c) \/ DrainModeOpensLatch(c)
  <2>1. /\ \E label \in {"setResumed", "unpause"} : OpenLatch(c, label)
        /\ UNCHANGED left \/ Spend("resume")
    BY <1>2 DEF CallResume, DrainModeOpensLatch
  <2>2. latch' = TRUE /\ pc'[c] \in {"setResumed", "unpause"}
    BY <2>1 DEF OpenLatch
  <2> QED
    BY <2>1, <2>2, SpendNoInterrupt DEF Pausing, Agrees, PauseLabels
<1>3. CASE SetPaused(c)
  <2>1. /\ UNCHANGED <<latch, left>>
        /\ \/ pc[c] = "setPaused" /\ paused' = TRUE /\ Return(c, "idle")
           \/ pc[c] = "setResumed" /\ paused' = FALSE /\ Return(c, "idle")
           \/ pc[c] = "unpause" /\ paused' = FALSE /\ Return(c, "wake1")
    BY <1>3 DEF SetPaused
  <2>2. pc'[c] \in {"idle", "wake1"}
    BY <2>1, ReturnMoves
  <2> QED
    BY <2>1, <2>2 DEF Pausing, Agrees, PauseLabels, TypeOK, FlagsOK
<1> QED
  BY <1>1, <1>2, <1>3

(* status.paused tells the truth: a client that issues the calls one after   *)
(* the other, and is not interrupted in one, finds pausedRef to be what the  *)
(* worker latch is, whatever the workers and the refill do.                  *)
THEOREM PausedIsTold ==
    ASSUME NEW c, Clients = {c}, Budget["interrupt"] = 0
    PROVE  Spec => []PausedMatchesLatch
<1>1. Init => TypeOK /\ Pausing
  <2>1. Init => Pausing
    BY ConfigAssumption DEF Init, Pausing, Agrees, PauseLabels
  <2> QED
    BY <2>1, InitTypeOK
<1>2. TypeOK /\ Pausing /\ [Next]_vars => (TypeOK /\ Pausing)'
  <2> SUFFICES ASSUME TypeOK, Pausing, [Next]_vars PROVE Pausing'
    BY NextTypeOK
  <2>1. CASE UNCHANGED vars
    BY <2>1, CalmPausing DEF vars, Calm
  <2>2. ASSUME ClientCall(c) \/ ClientStep(c) PROVE Pausing'
    BY <2>2, ClientCalm, CalmPausing, PauseSteps DEF ClientCall, ClientStep, Pausing
  <2>3. ASSUME NEW f \in Fibers, Subroutine(f) PROVE Pausing'
    BY <2>3, SubroutineCalm, CalmPausing
  <2> QED
    BY <2>1, <2>2, <2>3, WorkerCalm, MonitorCalm, CalmPausing DEF Next, AtRest
<1>3. Pausing => PausedMatchesLatch
  BY DEF Pausing, Agrees, PauseLabels, PausedMatchesLatch
<1> QED
  BY <1>1, <1>2, <1>3, PTL DEF Spec

----------------------------------------------------------------------------
(* Where the entries of QueueEngine are, for any number of workers, clients, *)
(* lanes and items and every configuration. An entry is in a lane, in the    *)
(* hands of a fiber, or under a worker; places never share an entry, and an  *)
(* entry that has ended is in none.                                          *)

----------------------------------------------------------------------------
(* Sequences without repetition.                                             *)

NoRepeat(s) == \A i, j \in DOMAIN s : s[i] = s[j] => i = j

LEMMA EmptyRange == Range(<<>>) = {} /\ NoRepeat(<<>>)
BY DEF Range, NoRepeat

LEMMA RangeOf ==
    ASSUME NEW S, NEW s \in Seq(S)
    PROVE  /\ Range(s) \subseteq S
           /\ \A x : x \in Range(s) <=> \E i \in 1..Len(s) : s[i] = x
           /\ s # <<>> <=> Range(s) # {}
<1>1. DOMAIN s = 1..Len(s) /\ \A i \in 1..Len(s) : s[i] \in S
  OBVIOUS
<1>2. \A x : x \in Range(s) <=> \E i \in 1..Len(s) : s[i] = x
  BY <1>1 DEF Range
<1>3. s # <<>> <=> 1 \in 1..Len(s)
  OBVIOUS
<1>4. s # <<>> => Range(s) # {}
  BY <1>2, <1>3
<1>5. Range(s) # {} => s # <<>>
  BY <1>2
<1> QED
  BY <1>1, <1>2, <1>4, <1>5

LEMMA AppendRange ==
    ASSUME NEW S, NEW s \in Seq(S), NEW x \in S
    PROVE  /\ Append(s, x) \in Seq(S)
           /\ Range(Append(s, x)) = Range(s) \cup {x}
           /\ NoRepeat(s) /\ x \notin Range(s) => NoRepeat(Append(s, x))
<1> DEFINE t == Append(s, x)
<1>1. /\ t \in Seq(S) /\ Len(t) = Len(s) + 1
      /\ \A i \in 1..Len(s) : t[i] = s[i]
      /\ t[Len(s) + 1] = x
  OBVIOUS
<1> HIDE DEF t
<1>2. Range(t) = Range(s) \cup {x}
  BY <1>1, RangeOf
<1>3. ASSUME NoRepeat(s), x \notin Range(s)
      PROVE  NoRepeat(t)
  <2>1. \A i \in 1..Len(s) : s[i] # x
    BY <1>3, RangeOf
  <2> QED
    BY <1>1, <1>3, <2>1 DEF NoRepeat
<1> QED
  BY <1>1, <1>2, <1>3 DEF t

LEMMA TailRange ==
    ASSUME NEW S, NEW s \in Seq(S), s # <<>>
    PROVE  /\ Tail(s) \in Seq(S) /\ Head(s) \in S /\ Head(s) \in Range(s)
           /\ NoRepeat(s) => /\ NoRepeat(Tail(s))
                             /\ Range(Tail(s)) = Range(s) \ {Head(s)}
<1> DEFINE t == Tail(s)
<1>1. /\ t \in Seq(S) /\ Len(s) > 0 /\ Len(t) = Len(s) - 1
      /\ \A i \in 1..Len(t) : t[i] = s[i + 1]
      /\ Head(s) = s[1] /\ Head(s) \in S
  OBVIOUS
<1> HIDE DEF t
<1>2. Head(s) \in Range(s)
  BY <1>1, RangeOf
<1>3. ASSUME NoRepeat(s)
      PROVE  NoRepeat(t) /\ Range(t) = Range(s) \ {Head(s)}
  <2>0. DOMAIN s = 1..Len(s) /\ DOMAIN t = 1..Len(t)
    BY <1>1
  <2>1. NoRepeat(t)
    <3> SUFFICES ASSUME NEW i \in DOMAIN t, NEW j \in DOMAIN t, t[i] = t[j]
                 PROVE  i = j
      BY DEF NoRepeat
    <3>1. i + 1 \in DOMAIN s /\ j + 1 \in DOMAIN s /\ s[i + 1] = s[j + 1]
      BY <1>1, <2>0
    <3> QED
      BY <1>3, <2>0, <3>1 DEF NoRepeat
  <2>2. ASSUME NEW x \in Range(t)
        PROVE  x \in Range(s) \ {Head(s)}
    <3>1. PICK i \in 1..Len(t) : t[i] = x
      BY <1>1, RangeOf
    <3> QED
      BY <1>1, <1>3, <3>1, RangeOf DEF NoRepeat
  <2>3. ASSUME NEW x \in Range(s), x # Head(s)
        PROVE  x \in Range(t)
    <3>1. PICK i \in 1..Len(s) : s[i] = x
      BY RangeOf
    <3>2. i - 1 \in 1..Len(t) /\ t[i - 1] = x
      BY <1>1, <2>3, <3>1
    <3> QED
      BY <3>2, <1>1, RangeOf
  <2> QED
    BY <2>1, <2>2, <2>3
<1> QED
  BY <1>1, <1>2, <1>3 DEF t

LEMMA TailOfOne ==
    ASSUME NEW S, NEW s \in Seq(S), Len(s) = 1
    PROVE  Tail(s) = <<>>
<1>1. Tail(s) \in Seq(S) /\ Len(Tail(s)) = 0
  BY HeadTailProperties, EmptySeq
<1> QED
  BY <1>1, EmptySeq

----------------------------------------------------------------------------
(* The invariant.                                                            *)

Places == ({"lane"} \X Levels) \cup ({"hand", "kept"} \X Fibers)
              \cup ({"worker"} \X Workers)

Under(w) == IF Holds(w) THEN {cur[w]} ELSE {}

Content(p) ==
    CASE p[1] = "lane"   -> Range(lanes[p[2]])
      [] p[1] = "hand"   -> Range(hand[p[2]])
      [] p[1] = "kept"   -> Range(kept[p[2]])
      [] p[1] = "worker" -> Under(p[2])

Live(e) == result[e] = "live"

PlacesApart ==
    \A p, q \in Places : p # q => Content(p) \cap Content(q) = {}
LiveIsPlaced ==
    \A e \in EntryIds : Live(e) <=> \E p \in Places : e \in Content(p)
NothingTwice ==
    /\ \A l \in Levels : NoRepeat(lanes[l])
    /\ \A f \in Fibers : NoRepeat(hand[f]) /\ NoRepeat(kept[f])

Partition == PlacesApart /\ LiveIsPlaced /\ NothingTwice

Lane(l) == <<"lane", l>>
Hand(f) == <<"hand", f>>
KeptBy(f) == <<"kept", f>>
Worked(w) == <<"worker", w>>

LEMMA PlaceNames ==
    /\ \A l \in Levels : Lane(l) \in Places /\ Content(Lane(l)) = Range(lanes[l])
    /\ \A f \in Fibers : /\ Hand(f) \in Places /\ Content(Hand(f)) = Range(hand[f])
                         /\ KeptBy(f) \in Places /\ Content(KeptBy(f)) = Range(kept[f])
    /\ \A w \in Workers : Worked(w) \in Places /\ Content(Worked(w)) = Under(w)
    /\ \A p \in Places : \/ \E l \in Levels : p = Lane(l)
                         \/ \E f \in Fibers : p = Hand(f) \/ p = KeptBy(f)
                         \/ \E w \in Workers : p = Worked(w)
BY DEF Places, Content, Lane, Hand, KeptBy, Worked

LEMMA PlaceNamesNext ==
    /\ \A l \in Levels : Content(Lane(l))' = Range(lanes'[l])
    /\ \A f \in Fibers : /\ Content(Hand(f))' = Range(hand'[f])
                         /\ Content(KeptBy(f))' = Range(kept'[f])
    /\ \A w \in Workers : Content(Worked(w))' = Under(w)'
BY DEF Places, Content, Lane, Hand, KeptBy, Worked

LEMMA DistinctPlaces ==
    \A x, y : /\ Lane(x) # Hand(y) /\ Lane(x) # KeptBy(y) /\ Lane(x) # Worked(y)
              /\ Hand(x) # KeptBy(y) /\ Hand(x) # Worked(y) /\ KeptBy(x) # Worked(y)
              /\ Lane(x) = Lane(y) => x = y
              /\ Hand(x) = Hand(y) => x = y
              /\ KeptBy(x) = KeptBy(y) => x = y
              /\ Worked(x) = Worked(y) => x = y
BY DEF Lane, Hand, KeptBy, Worked

LEMMA ContentType ==
    ASSUME TypeOK, NEW p \in Places
    PROVE  Content(p) \subseteq EntryIds
<1>1. ASSUME NEW w \in Workers PROVE Under(w) \subseteq EntryIds
  BY DEF TypeOK, FrameOK, WorksOnEntry, Under
<1>2. ASSUME NEW l \in Levels PROVE Range(lanes[l]) \subseteq EntryIds
  BY RangeOf DEF TypeOK, PlacesOK
<1>3. ASSUME NEW f \in Fibers
      PROVE  Range(hand[f]) \subseteq EntryIds /\ Range(kept[f]) \subseteq EntryIds
  BY RangeOf DEF TypeOK, PlacesOK
<1> QED
  BY <1>1, <1>2, <1>3, PlaceNames

----------------------------------------------------------------------------
(* What a step may do to the places: nothing, move one entry, mint one, or   *)
(* end those of some places.                                                 *)

(* What StatusOf tells of an entry, by the place it is in.                   *)
Offers(f) == pc[f] \in {"dedup", "claim", "offer"}
StatusAt(p) ==
    CASE p[1] = "lane"   -> "queued"
      [] p[1] = "hand"   -> IF Offers(p[2]) THEN "offering" ELSE "pulled"
      [] p[1] = "kept"   -> "pulled"
      [] p[1] = "worker" -> IF HasPermit(p[2]) THEN "running" ELSE "taken"

Elsewhere(P) == \A p \in Places \ P : Content(p)' = Content(p)
SameEntries == EntryIds' = EntryIds
SameLive == \A e \in EntryIds : Live(e)' <=> Live(e)

NothingMoves == SameEntries /\ SameLive /\ Elsewhere({})

Moved(e, p, q) ==
    /\ SameEntries /\ SameLive /\ Elsewhere({p, q})
    /\ p \in Places /\ q \in Places /\ p # q /\ e \in Content(p)
    /\ Content(p)' = Content(p) \ {e}
    /\ Content(q)' = Content(q) \cup {e}
    /\ <<StatusAt(p), StatusAt(q)'>> \in Lifecycle!Moves

Minted(n, q) ==
    /\ EntryIds' = EntryIds \cup {n} /\ n \notin EntryIds
    /\ SameLive /\ Live(n)' /\ Elsewhere({q})
    /\ q \in Places /\ Content(q)' = Content(q) \cup {n}
    /\ StatusAt(q)' = "offering"

Ended(P) ==
    /\ SameEntries /\ Elsewhere(P)
    /\ P \subseteq Places /\ \A p \in P : Content(p)' = {}
    /\ \A e \in EntryIds : Live(e)' <=> Live(e) /\ \A p \in P : e \notin Content(p)
    /\ \A p \in P : <<StatusAt(p), "ended">> \in Lifecycle!Moves

Located == PlacesApart /\ LiveIsPlaced

LEMMA NothingMovesLocated ==
    ASSUME Located, NothingMoves
    PROVE  Located'
BY DEF Located, NothingMoves, Elsewhere, SameEntries, SameLive, PlacesApart, LiveIsPlaced

LEMMA MovedLocated ==
    ASSUME TypeOK, Located, NEW e, NEW p, NEW q, Moved(e, p, q)
    PROVE  Located'
<1>1. PlacesApart'
  BY DEF Located, Moved, Elsewhere, PlacesApart
<1>2. LiveIsPlaced'
  BY DEF Located, Moved, Elsewhere, SameEntries, SameLive, LiveIsPlaced
<1> QED
  BY <1>1, <1>2 DEF Located

LEMMA MintedLocated ==
    ASSUME TypeOK, Located, NEW n, NEW q, Minted(n, q)
    PROVE  Located'
<1>1. \A p \in Places : n \notin Content(p)
  BY ContentType DEF Minted
<1>2. PlacesApart'
  BY <1>1 DEF Located, Minted, Elsewhere, PlacesApart
<1>3. LiveIsPlaced'
  BY <1>1 DEF Located, Minted, Elsewhere, SameLive, LiveIsPlaced
<1> QED
  BY <1>2, <1>3 DEF Located

LEMMA EndedLocated ==
    ASSUME TypeOK, Located, NEW P, Ended(P)
    PROVE  Located'
<1>1. PlacesApart'
  BY DEF Located, Ended, Elsewhere, PlacesApart
<1>2. ASSUME NEW e \in EntryIds
      PROVE  Live(e)' <=> \E p \in Places : e \in Content(p)'
  <2>1. CASE \E p \in P : e \in Content(p)
    BY <2>1 DEF Located, Ended, Elsewhere, PlacesApart
  <2>2. CASE \A p \in P : e \notin Content(p)
    BY <2>2 DEF Located, Ended, Elsewhere, LiveIsPlaced
  <2> QED
    BY <2>1, <2>2
<1>3. LiveIsPlaced'
  BY <1>2 DEF Ended, SameEntries, LiveIsPlaced
<1> QED
  BY <1>1, <1>3 DEF Located

Shifted ==
    \/ NothingMoves
    \/ \E e \in EntryIds, p, q \in Places : Moved(e, p, q)
    \/ \E q \in Places : Minted(Len(entry) + 1, q)
    \/ \E P \in SUBSET Places : Ended(P)

LEMMA ShiftedLocated ==
    ASSUME TypeOK, Located, Shifted
    PROVE  Located'
BY NothingMovesLocated, MovedLocated, MintedLocated, EndedLocated DEF Shifted

LEMMA ElsewhereOf ==
    ASSUME NEW P,
           \A l \in Levels : Lane(l) \in P \/ lanes'[l] = lanes[l],
           \A f \in Fibers : Hand(f) \in P \/ hand'[f] = hand[f],
           \A f \in Fibers : KeptBy(f) \in P \/ kept'[f] = kept[f],
           \A w \in Workers : Worked(w) \in P \/ Under(w)' = Under(w)
    PROVE  Elsewhere(P)
<1> SUFFICES ASSUME NEW p \in Places, p \notin P
             PROVE  Content(p)' = Content(p)
  BY DEF Elsewhere
<1>1. CASE \E l \in Levels : p = Lane(l)
  BY <1>1, PlaceNames, PlaceNamesNext
<1>2. CASE \E f \in Fibers : p = Hand(f) \/ p = KeptBy(f)
  BY <1>2, PlaceNames, PlaceNamesNext
<1>3. CASE \E w \in Workers : p = Worked(w)
  BY <1>3, PlaceNames, PlaceNamesNext
<1> QED
  BY <1>1, <1>2, <1>3, PlaceNames

(* A fiber's step leaves the entries under the other workers alone.          *)
SameFrame(g) == pc'[g] = pc[g] /\ op'[g] = op[g] /\ cur'[g] = cur[g]
OthersFrame(f) == \A g \in Fibers \ {f} : SameFrame(g)

LEMMA SameUnder ==
    ASSUME NEW w \in Workers, SameFrame(w)
    PROVE  Under(w)' = Under(w)
BY DEF SameFrame, Under, Holds, Enqueuing

(* Steps that touch no place.                                                *)
LEMMA Neutral ==
    ASSUME NothingTwice, UNCHANGED <<lanes, hand, kept, entry>>,
           \A e \in EntryIds : Live(e)' <=> Live(e),
           \A w \in Workers : Under(w)' = Under(w)
    PROVE  Shifted /\ NothingTwice'
<1>1. Elsewhere({})
  BY ElsewhereOf
<1> QED
  BY <1>1 DEF Shifted, NothingMoves, SameEntries, SameLive, EntryIds, NothingTwice

LEMMA NeutralStep ==
    ASSUME NothingTwice, UNCHANGED <<lanes, hand, kept, entry, result>>,
           NEW f \in Fibers, OthersFrame(f),
           f \in Workers => Under(f)' = Under(f)
    PROVE  Shifted /\ NothingTwice'
<1>1. ASSUME NEW w \in Workers PROVE Under(w)' = Under(w)
  BY SameUnder DEF OthersFrame
<1>2. \A e \in EntryIds : Live(e)' <=> Live(e)
  BY DEF Live
<1> QED
  BY <1>1, <1>2, Neutral

LEMMA ResultEnds ==
    ASSUME TypeOK, NEW e \in EntryIds, NEW r, r # "live",
           result' = [result EXCEPT ![e] = r]
    PROVE  \A g \in EntryIds : Live(g)' <=> Live(g) /\ g # e
BY DEF TypeOK, HistoryOK, Live, EntryIds

LEMMA MarkAllEnds ==
    ASSUME TypeOK, NEW S, NEW r, r # "live", result' = MarkAll(S, r)
    PROVE  \A g \in EntryIds : Live(g)' <=> Live(g) /\ g \notin S
BY DEF TypeOK, HistoryOK, Live, EntryIds, MarkAll

LEMMA FrameOf ==
    ASSUME TypeOK, NEW f \in Fibers
    PROVE  /\ \A v : pc' = [pc EXCEPT ![f] = v] =>
                pc'[f] = v /\ \A g \in Fibers \ {f} : pc'[g] = pc[g]
           /\ \A v : op' = [op EXCEPT ![f] = v] =>
                op'[f] = v /\ \A g \in Fibers \ {f} : op'[g] = op[g]
           /\ \A v : cur' = [cur EXCEPT ![f] = v] =>
                cur'[f] = v /\ \A g \in Fibers \ {f} : cur'[g] = cur[g]
           /\ \A v : hand' = [hand EXCEPT ![f] = v] =>
                hand'[f] = v /\ \A g \in Fibers \ {f} : hand'[g] = hand[g]
           /\ \A v : kept' = [kept EXCEPT ![f] = v] =>
                kept'[f] = v /\ \A g \in Fibers \ {f} : kept'[g] = kept[g]
BY DEF TypeOK, FramesOK, PlacesOK

LEMMA LaneOne ==
    ASSUME TypeOK, NEW l \in Levels, NEW v, lanes' = [lanes EXCEPT ![l] = v]
    PROVE  lanes'[l] = v /\ \A k \in Levels \ {l} : lanes'[k] = lanes[k]
BY DEF TypeOK, PlacesOK

LEMMA ReturnsFrame ==
    ASSUME TypeOK, NEW f \in Fibers, NEW label, Return(f, label)
    PROVE  /\ pc'[f] = label
           /\ op'[f] = IF f \notin Clients \/ label = "idle" THEN "none" ELSE op[f]
           /\ cur'[f] = IF label = "idle" THEN 0 ELSE cur[f]
           /\ OthersFrame(f)
BY DEF TypeOK, FramesOK, Return, OthersFrame, SameFrame

----------------------------------------------------------------------------
(* The steps of a worker.                                                    *)

LEMMA WorkerWaits ==
    ASSUME TypeOK, NothingTwice, NEW w \in Workers,
           \/ WorkerLoop(w) \/ AwaitLatch(w) \/ TakeNextEmpty(w) \/ WorkerWoken(w)
           \/ RateLimitAwait(w) \/ StartItem(w) \/ EffectExits(w) \/ ReleaseKey(w)
    PROVE  Shifted /\ NothingTwice'
<1> w \in Fibers
  BY Apart
<1>1. /\ UNCHANGED <<lanes, hand, kept, entry, result, cur>>
      /\ OthersFrame(w)
      /\ pc[w] \in {"loop", "check", "wait", "latch1"} =>
            pc'[w] \in {"latch1", "exit", "shut1", "poll", "wait"}
      /\ pc[w] \in {"loop", "check", "wait", "latch1", "latch2", "rate", "start",
                     "run", "unkey"}
      /\ pc[w] \in {"latch2", "rate", "start", "run", "unkey"} =>
            pc'[w] \in {"shut2", "rate", "start", "skip", "run", "unkey", "settle"}
  <2>1. CASE WorkerLoop(w) \/ AwaitLatch(w) \/ TakeNextEmpty(w) \/ WorkerWoken(w)
    BY <2>1, FrameOf
       DEF WorkerLoop, AwaitLatch, TakeNextEmpty, WorkerWoken, OthersFrame, SameFrame
  <2>2. CASE RateLimitAwait(w) \/ StartItem(w) \/ EffectExits(w) \/ ReleaseKey(w)
    BY <2>2, FrameOf
       DEF RateLimitAwait, StartItem, EffectExits, ReleaseKey, OthersFrame, SameFrame
  <2> QED
    BY <2>1, <2>2
<1>2. Under(w)' = Under(w)
  BY <1>1 DEF Under, Holds, Enqueuing, EnqueueLabels
<1> QED
  BY <1>1, <1>2, NeutralStep

LEMMA WorkerEnqueues ==
    ASSUME TypeOK, NothingTwice, NEW w \in Workers,
           CtxEnqueue(w) \/ RetryRelease(w) \/ ReleasePermit(w)
    PROVE  Shifted /\ NothingTwice'
<1> w \in Fibers
  BY Apart
<1>1. /\ UNCHANGED <<lanes, hand, kept, entry, result>>
      /\ OthersFrame(w)
      /\ \/ pc[w] = "run" /\ pc'[w] = "enq" /\ op'[w] = "ctx" /\ cur'[w] = cur[w]
         \/ pc[w] = "requeue" /\ pc'[w] = "enq" /\ op'[w] = "retry"
         \/ pc[w] = "permit" /\ pc'[w] = "fin1"
  <2>0. \A o, items, level, e : CallEnqueue(w, o, items, level, e) =>
          pc'[w] = "enq" /\ op'[w] = o /\ cur'[w] = e /\ OthersFrame(w)
    BY DEF TypeOK, FramesOK, CallEnqueue, OthersFrame, SameFrame
  <2>1. CASE CtxEnqueue(w)
    BY <2>0, <2>1, Zenon DEF CtxEnqueue
  <2>3. CASE RetryRelease(w)
    BY <2>0, <2>3, Zenon DEF RetryRelease
  <2>2. CASE ReleasePermit(w)
    BY Zenon, <2>2, FrameOf DEF ReleasePermit, OthersFrame, SameFrame
  <2> QED
    BY <2>1, <2>2, <2>3
<1>2. Under(w)' = Under(w)
  BY <1>1 DEF Under, Holds, Enqueuing, EnqueueLabels
<1> QED
  BY <1>1, <1>2, NeutralStep

LEMMA PollShifts ==
    ASSUME TypeOK, NothingTwice, NEW w \in Workers, PollLane(w)
    PROVE  Shifted /\ NothingTwice'
<1> w \in Fibers
  BY Apart
<1>0. PICK l \in Levels : l = scan[w]
  BY DEF TypeOK, FramesOK
<1>1. l \in Levels /\ lanes[l] \in Seq(EntryIds) /\ pc[w] = "poll"
  BY DEF TypeOK, PlacesOK, PollLane
<1>2. UNCHANGED <<op, hand, kept, entry, result>>
  BY DEF PollLane
<1>3. CASE lanes[l] # <<>>
  <2>0. PICK e : e = Head(lanes[l])
    OBVIOUS
  <2>1. /\ lanes' = [lanes EXCEPT ![l] = Tail(@)]
        /\ cur' = [cur EXCEPT ![w] = e] /\ GoTo(w, "latch2")
    BY <1>0, <1>3, <2>0 DEF PollLane
  <2>2. /\ pc'[w] = "latch2" /\ cur'[w] = e /\ OthersFrame(w)
        /\ lanes'[l] = Tail(lanes[l])
        /\ \A k \in Levels \ {l} : lanes'[k] = lanes[k]
    <3>1. pc'[w] = "latch2" /\ cur'[w] = e /\ OthersFrame(w)
      <4>1. pc'[w] = "latch2" /\ \A g \in Fibers \ {w} : pc'[g] = pc[g]
        BY <2>1, FrameOf
      <4>2. cur'[w] = e /\ \A g \in Fibers \ {w} : cur'[g] = cur[g]
        BY <2>1, FrameOf
      <4> QED
        BY <1>2, <4>1, <4>2 DEF OthersFrame, SameFrame
    <3> QED
      BY <1>1, <2>1, <3>1, LaneOne
  <2>3. /\ e \in EntryIds /\ e \in Range(lanes[l])
        /\ Range(lanes'[l]) = Range(lanes[l]) \ {e} /\ NoRepeat(lanes'[l])
    BY <1>1, <1>3, <2>2, <2>0, TailRange DEF NothingTwice
  <2>4. Under(w) = {} /\ Under(w)' = {e}
    BY <1>1, <2>2 DEF Under, Holds, Enqueuing, EnqueueLabels
  <2>5. Elsewhere({Lane(l), Worked(w)})
    BY <1>2, <2>2, ElsewhereOf, SameUnder DEF OthersFrame
  <2>6. StatusAt(Lane(l)) = "queued" /\ StatusAt(Worked(w))' = "taken"
    BY <2>2
       DEF StatusAt, Lane, Worked, HasPermit, InBody, Enqueuing, EnqueueLabels
  <2>7. <<StatusAt(Lane(l)), StatusAt(Worked(w))'>> \in Lifecycle!Moves
    BY <2>6 DEF Lifecycle!Moves
  <2>8. Moved(e, Lane(l), Worked(w))
    <3>1. SameEntries /\ SameLive
      BY <1>2 DEF SameEntries, SameLive, Live, EntryIds
    <3>2. Content(Lane(l)) = Range(lanes[l]) /\ Content(Lane(l))' = Range(lanes[l]) \ {e}
      BY <1>1, <2>3, PlaceNames, PlaceNamesNext
    <3>3. Content(Worked(w)) = {} /\ Content(Worked(w))' = {e}
      BY <2>4, PlaceNames, PlaceNamesNext
    <3> QED
      BY <1>1, <2>3, <2>5, <2>7, <3>1, <3>2, <3>3, PlaceNames, DistinctPlaces DEF Moved
  <2>9. NothingTwice'
    BY <1>2, <2>2, <2>3 DEF NothingTwice
  <2> QED
    BY <1>1, <2>3, <2>8, <2>9, PlaceNames DEF Shifted
<1>4. CASE lanes[l] = <<>>
  <2>1. /\ UNCHANGED <<lanes, cur>> /\ (UNCHANGED pc \/ GoTo(w, "check"))
    BY <1>0, <1>4 DEF PollLane
  <2>2. OthersFrame(w) /\ pc'[w] \in {"poll", "check"}
    BY <1>1, <1>2, <2>1, FrameOf DEF OthersFrame, SameFrame
  <2>3. Under(w)' = Under(w)
    BY <1>1, <1>2, <2>1, <2>2 DEF Under, Holds, Enqueuing, EnqueueLabels
  <2> QED
    BY <1>2, <2>1, <2>2, <2>3, NeutralStep
<1> QED
  BY <1>3, <1>4

(* A worker lets go of the entry it works on, with a result.                 *)
LEMMA WorkerEnds ==
    ASSUME TypeOK, NothingTwice, NEW w \in Workers, OthersFrame(w), Holds(w),
           ~Holds(w)', UNCHANGED <<lanes, hand, kept, entry>>, NEW r, r # "live",
           result' = [result EXCEPT ![cur[w]] = r]
    PROVE  Shifted /\ NothingTwice'
<1>0. w \in Fibers /\ cur[w] \in EntryIds
  BY Apart DEF TypeOK, FrameOK, WorksOnEntry
<1>1. PICK e \in EntryIds : e = cur[w]
  BY <1>0
<1>2. Under(w) = {e} /\ Under(w)' = {}
  BY <1>1 DEF Under
<1>3. \A g \in EntryIds : Live(g)' <=> Live(g) /\ g # e
  BY <1>1, ResultEnds
<1>4. Elsewhere({Worked(w)})
  BY ElsewhereOf, SameUnder, Apart DEF OthersFrame
<1>5. <<StatusAt(Worked(w)), "ended">> \in Lifecycle!Moves
  BY DEF StatusAt, Worked, Lifecycle!Moves
<1>6. Content(Worked(w)) = {e} /\ Content(Worked(w))' = {}
  BY <1>2, PlaceNames, PlaceNamesNext
<1>7. Ended({Worked(w)})
  BY <1>3, <1>4, <1>5, <1>6, PlaceNames DEF Ended, SameEntries, EntryIds
<1> QED
  BY <1>7, PlaceNames DEF Shifted, NothingTwice

LEMMA WorkerGives ==
    ASSUME TypeOK, NothingTwice, NEW w \in Workers,
           SkipRateLimitedItem(w) \/ SettleItem(w) \/ DisposeFailure(w)
    PROVE  Shifted /\ NothingTwice'
<1> w \in Fibers
  BY Apart
<1>1. CASE SkipRateLimitedItem(w)
  <2>1. /\ UNCHANGED <<lanes, hand, kept, entry, op>> /\ pc[w] = "skip"
        /\ result' = [result EXCEPT ![cur[w]] = "skipped"]
        /\ GoTo(w, "fin1") /\ cur' = [cur EXCEPT ![w] = 0]
    BY <1>1 DEF SkipRateLimitedItem
  <2>2. pc'[w] = "fin1" /\ OthersFrame(w)
    BY Zenon, <2>1, FrameOf DEF OthersFrame, SameFrame
  <2>3. Holds(w) /\ ~Holds(w)'
    BY <2>1, <2>2 DEF Holds, Enqueuing, EnqueueLabels
  <2> QED
    BY <2>1, <2>2, <2>3, WorkerEnds
<1>2. CASE SettleItem(w) /\ op[w] = "ok"
  <2>1. /\ UNCHANGED <<lanes, hand, kept, entry, cur>> /\ pc[w] = "settle"
        /\ result' = [result EXCEPT ![cur[w]] = "ok"]
        /\ GoTo(w, "empty") /\ op' = [op EXCEPT ![w] = "none"]
    BY <1>2 DEF SettleItem
  <2>2. pc'[w] = "empty" /\ OthersFrame(w)
    BY Zenon, <2>1, FrameOf DEF OthersFrame, SameFrame
  <2>3. Holds(w) /\ ~Holds(w)'
    BY <2>1, <2>2 DEF Holds, Enqueuing, EnqueueLabels
  <2> QED
    BY <2>1, <2>2, <2>3, WorkerEnds
<1>3. CASE SettleItem(w) /\ op[w] # "ok"
  <2>1. /\ UNCHANGED <<lanes, hand, kept, entry, cur, result, op>>
        /\ pc[w] = "settle" /\ GoTo(w, "dispose")
    BY <1>3 DEF SettleItem
  <2>2. pc'[w] = "dispose" /\ OthersFrame(w)
    BY <2>1, FrameOf DEF OthersFrame, SameFrame
  <2>3. Under(w)' = Under(w)
    BY <2>1, <2>2 DEF Under, Holds
  <2> QED
    BY <2>1, <2>2, <2>3, NeutralStep
<1>4. CASE DisposeFailure(w)
  <2>1. /\ UNCHANGED <<lanes, hand, kept, entry, cur>> /\ pc[w] = "dispose"
        /\ \E label \in {"requeue", "empty"} : GoTo(w, label)
        /\ \E v : op' = [op EXCEPT ![w] = v]
        /\ \E r : r # "live" /\ result' = [result EXCEPT ![cur[w]] = r]
    BY <1>4 DEF DisposeFailure
  <2>2. pc'[w] \in {"requeue", "empty"} /\ OthersFrame(w)
    <3>0. PICK label \in {"requeue", "empty"} : pc' = [pc EXCEPT ![w] = label]
      BY <2>1
    <3>1. pc'[w] = label /\ \A g \in Fibers \ {w} : pc'[g] = pc[g]
      BY <3>0, FrameOf
    <3>2. \A g \in Fibers \ {w} : op'[g] = op[g]
      BY <2>1, FrameOf
    <3> QED
      BY <2>1, <3>1, <3>2 DEF OthersFrame, SameFrame
  <2>3. Holds(w) /\ ~Holds(w)'
    BY <2>1, <2>2 DEF Holds, Enqueuing, EnqueueLabels
  <2> QED
    BY <2>1, <2>2, <2>3, WorkerEnds
<1> QED
  BY <1>1, <1>2, <1>3, <1>4

LEMMA WorkerShifts ==
    ASSUME TypeOK, NothingTwice, NEW w \in Workers, Worker(w)
    PROVE  Shifted /\ NothingTwice'
BY WorkerWaits, WorkerEnqueues, PollShifts, WorkerGives DEF Worker

----------------------------------------------------------------------------
(* The steps of a subroutine.                                                *)

LEMMA SubroutineFrame ==
    ASSUME TypeOK, NEW f \in Fibers,
           \/ EnqueueShutdownCheck(f) \/ DedupDone(f) \/ SignalWorkerWake(f)
           \/ SignalDrainWake(f) \/ WakeDrainedIfEmpty(f) \/ FinalizeRead(f)
           \/ FinalizeSet(f)
    PROVE  /\ UNCHANGED <<lanes, hand, kept, entry, result>>
           /\ OthersFrame(f)
           /\ f \in Workers => cur'[f] = cur[f]
<1>1. f \in Workers => /\ AfterEnqueue(f) # "idle" /\ AfterDrainWake(f) # "idle"
                       /\ AfterWorkerWake(f) # "idle" /\ AfterFinalize(f) # "idle"
  BY Apart DEF AfterEnqueue, AfterDrainWake, AfterWorkerWake, AfterFinalize
<1>2. /\ UNCHANGED <<lanes, hand, kept, entry, result>>
      /\ \/ UNCHANGED <<op, cur>> /\ \E label : GoTo(f, label)
         \/ \E label : /\ Return(f, label)
                        /\ label \in {AfterEnqueue(f), AfterDrainWake(f),
                                      AfterWorkerWake(f), AfterFinalize(f)}
  <2>1. CASE EnqueueShutdownCheck(f) \/ DedupDone(f)
    BY <2>1, Zenon DEF EnqueueShutdownCheck, DedupDone
  <2>2. CASE SignalWorkerWake(f) \/ SignalDrainWake(f)
    BY <2>2, Zenon DEF SignalWorkerWake, SignalDrainWake
  <2>3. CASE WakeDrainedIfEmpty(f) \/ FinalizeRead(f) \/ FinalizeSet(f)
    BY <2>3, Zenon DEF WakeDrainedIfEmpty, FinalizeRead, FinalizeSet
  <2> QED
    BY <2>1, <2>2, <2>3
<1>3. CASE UNCHANGED <<op, cur>> /\ \E label : GoTo(f, label)
  BY <1>2, <1>3, FrameOf DEF OthersFrame, SameFrame
<1>4. CASE \E label : /\ Return(f, label)
                      /\ label \in {AfterEnqueue(f), AfterDrainWake(f),
                                    AfterWorkerWake(f), AfterFinalize(f)}
  BY <1>1, <1>2, <1>4, ReturnsFrame
<1> QED
  BY <1>2, <1>3, <1>4

LEMMA SubroutineHolds ==
    ASSUME TypeOK, NEW f \in Workers, f \in Fibers,
           \/ EnqueueShutdownCheck(f) \/ DedupDone(f) \/ SignalWorkerWake(f)
           \/ SignalDrainWake(f) \/ WakeDrainedIfEmpty(f) \/ FinalizeRead(f)
           \/ FinalizeSet(f)
    PROVE  Holds(f)' <=> Holds(f)
<1>0. f \notin Clients /\ f # DrainMonitor
  BY Apart
<1>1. pc[f] \in EnqueueLabels => op[f] \in {"ctx", "retry"}
  BY DEF TypeOK, FrameOK
<1>2. CASE /\ pc[f] \in {"enq", "dedup", "wake1"}
           /\ pc'[f] \in {"dedup", "offer", "wake2"} /\ op'[f] = op[f]
  BY <1>2 DEF Holds, Enqueuing, EnqueueLabels
<1>3. CASE pc[f] \in {"enq", "dedup", "wake2"} /\ Return(f, AfterEnqueue(f))
  <2>1. pc'[f] = IF op[f] = "ctx" THEN "run" ELSE "empty"
    BY <1>0, <1>3, ReturnsFrame DEF AfterEnqueue
  <2> QED
    BY <1>1, <1>3, <2>1 DEF Holds, Enqueuing, EnqueueLabels
<1>4. CASE /\ pc[f] \in {"empty", "drain1"}
           /\ pc'[f] \in {"drain1", "drain2"} /\ op'[f] = op[f]
  BY <1>4 DEF Holds, Enqueuing, EnqueueLabels
<1>5. CASE pc[f] \in {"empty", "drain2"} /\ Return(f, AfterDrainWake(f))
  <2>1. pc'[f] \in {"empty", "permit"}
    BY <1>5, ReturnsFrame DEF AfterDrainWake
  <2> QED
    BY <1>5, <2>1 DEF Holds, Enqueuing, EnqueueLabels
<1>6. CASE \/ pc[f] = "fin1" /\ pc'[f] = "fin2" /\ op'[f] = op[f]
           \/ pc[f] \in {"fin1", "fin2"} /\ Return(f, AfterFinalize(f))
  <2>1. pc[f] \in {"fin1", "fin2"} /\ pc'[f] \in {"fin2", "loop"}
    BY <1>6, ReturnsFrame DEF AfterFinalize
  <2> QED
    BY <2>1 DEF Holds, Enqueuing, EnqueueLabels
<1>7. AfterWorkerWake(f) = AfterEnqueue(f)
  BY <1>0 DEF AfterWorkerWake
<1> QED
  BY <1>2, <1>3, <1>4, <1>5, <1>6, <1>7, SubroutineMoves

LEMMA SubroutineWaits ==
    ASSUME TypeOK, NothingTwice, NEW f \in Fibers,
           \/ EnqueueShutdownCheck(f) \/ DedupDone(f) \/ SignalWorkerWake(f)
           \/ SignalDrainWake(f) \/ WakeDrainedIfEmpty(f) \/ FinalizeRead(f)
           \/ FinalizeSet(f)
    PROVE  Shifted /\ NothingTwice'
<1>1. /\ UNCHANGED <<lanes, hand, kept, entry, result>>
      /\ OthersFrame(f)
      /\ f \in Workers => cur'[f] = cur[f]
  BY SubroutineFrame
<1>2. f \in Workers => (Holds(f)' <=> Holds(f))
  BY SubroutineHolds
<1>3. f \in Workers => Under(f)' = Under(f)
  BY <1>1, <1>2 DEF Under
<1> QED
  BY <1>1, <1>3, NeutralStep

LEMMA MintShifts ==
    ASSUME TypeOK, NothingTwice, NEW f \in Fibers, Mint(f), OthersFrame(f),
           pc[f] \in {"dedup", "claim"}, pc'[f] = "dedup", op'[f] = op[f],
           UNCHANGED <<lanes, kept, cur>>
    PROVE  Shifted /\ NothingTwice'
<1>0. PICK n : n = Len(entry) + 1
  OBVIOUS
<1>1. /\ EntryIds' = EntryIds \cup {n} /\ n \notin EntryIds
      /\ \A e \in EntryIds : Live(e)' <=> Live(e)
      /\ Live(n)'
  BY <1>0 DEF Mint, TypeOK, StoreOK, HistoryOK, EntryIds, Live
<1>2. /\ hand' = [hand EXCEPT ![f] = Append(@, n)]
      /\ hand[f] \in Seq(EntryIds)
  BY <1>0 DEF Mint, TypeOK, PlacesOK
<1>3. /\ hand'[f] = Append(hand[f], n)
      /\ \A g \in Fibers \ {f} : hand'[g] = hand[g]
  BY <1>2, FrameOf
<1>4. /\ hand[f] \in Seq(EntryIds \cup {n})
      /\ Range(hand[f]) \subseteq EntryIds
  BY <1>2, SeqMonotone, RangeOf
<1>5. /\ Range(hand'[f]) = Range(hand[f]) \cup {n}
      /\ NoRepeat(hand'[f])
  BY <1>1, <1>3, <1>4, AppendRange DEF NothingTwice
<1>6. f \in Workers => Under(f)' = Under(f)
  BY DEF Under, Holds, Enqueuing, EnqueueLabels
<1>7. Elsewhere({Hand(f)})
  BY <1>3, <1>6, ElsewhereOf, SameUnder DEF OthersFrame
<1>8. StatusAt(Hand(f))' = "offering"
  BY DEF StatusAt, Hand, Offers
<1>9. Content(Hand(f))' = Content(Hand(f)) \cup {n}
  BY <1>5, PlaceNames, PlaceNamesNext
<1>10. Minted(n, Hand(f))
  BY <1>1, <1>7, <1>8, <1>9, PlaceNames DEF Minted, SameLive
<1>11. NothingTwice'
  BY <1>3, <1>5 DEF NothingTwice
<1> QED
  BY <1>0, <1>10, <1>11, PlaceNames DEF Shifted

LEMMA DedupShifts ==
    ASSUME TypeOK, NothingTwice, NEW f \in Fibers, DedupCheck(f) \/ ClaimKey(f)
    PROVE  Shifted /\ NothingTwice'
<1>1. /\ UNCHANGED <<lanes, kept, cur, op>>
      /\ pc[f] \in {"dedup", "claim"}
      /\ \/ Mint(f) /\ (UNCHANGED pc \/ GoTo(f, "dedup"))
         \/ UNCHANGED <<entry, result, hand>> /\ (UNCHANGED pc \/ GoTo(f, "claim"))
      /\ Mint(f) /\ UNCHANGED pc => pc[f] = "dedup"
  <2>1. CASE DedupCheck(f)
    <3>1. pc[f] = "dedup" /\ UNCHANGED <<lanes, kept, cur, op>>
      BY <2>1 DEF DedupCheck
    <3>2. \/ UNCHANGED <<entry, result, hand, pc>>
          \/ Mint(f) /\ UNCHANGED pc
          \/ GoTo(f, "claim") /\ UNCHANGED <<entry, result, hand>>
      BY <2>1 DEF DedupCheck
    <3> QED
      BY <3>1, <3>2
  <2>2. CASE ClaimKey(f)
    <3>1. pc[f] = "claim" /\ UNCHANGED <<lanes, kept, cur, op>>
      BY <2>2 DEF ClaimKey
    <3>2. Mint(f) /\ GoTo(f, "dedup")
      BY <2>2 DEF ClaimKey
    <3>3. pc'[f] = "dedup"
      BY Zenon, <3>2, FrameOf
    <3> QED
      BY <3>1, <3>2, <3>3
  <2> QED
    BY <2>1, <2>2
<1>2. OthersFrame(f)
  BY <1>1, FrameOf DEF OthersFrame, SameFrame
<1>3. CASE Mint(f) /\ (UNCHANGED pc \/ GoTo(f, "dedup"))
  <2>1. pc'[f] = "dedup" /\ op'[f] = op[f]
    BY <1>1, <1>3, FrameOf
  <2> QED
    BY <1>1, <1>2, <1>3, <2>1, MintShifts
<1>4. CASE UNCHANGED <<entry, result, hand>> /\ (UNCHANGED pc \/ GoTo(f, "claim"))
  <2>1. pc'[f] \in {"dedup", "claim"}
    BY <1>1, <1>4, FrameOf
  <2>2. f \in Workers => Under(f)' = Under(f)
    BY <1>1, <2>1 DEF Under, Holds, Enqueuing, EnqueueLabels
  <2> QED
    BY <1>1, <1>2, <1>4, <2>2, NeutralStep
<1> QED
  BY <1>1, <1>3, <1>4

(* An entry goes from the front of a sequence of fiber f to the back of a    *)
(* lane.                                                                     *)
LEMMA LaneGains ==
    ASSUME TypeOK, Partition, NEW p \in Places, NEW l \in Levels, NEW e \in EntryIds,
           e \in Content(p), p # Lane(l), lanes' = [lanes EXCEPT ![l] = Append(@, e)],
           Content(p)' = Content(p) \ {e}, Elsewhere({p, Lane(l)}),
           StatusAt(p) \in {"offering", "pulled"}, UNCHANGED <<entry, result>>,
           \A f \in Fibers : NoRepeat(hand'[f]) /\ NoRepeat(kept'[f])
    PROVE  Shifted /\ NothingTwice'
<1>1. lanes[l] \in Seq(EntryIds) /\ e \notin Range(lanes[l])
  BY PlaceNames DEF TypeOK, PlacesOK, Partition, PlacesApart
<1>2. lanes'[l] = Append(lanes[l], e) /\ \A k \in Levels \ {l} : lanes'[k] = lanes[k]
  BY LaneOne
<1>3. Range(lanes'[l]) = Range(lanes[l]) \cup {e} /\ NoRepeat(lanes'[l])
  BY <1>1, <1>2, AppendRange DEF Partition, NothingTwice
<1>4. Content(Lane(l))' = Content(Lane(l)) \cup {e}
  BY <1>3, PlaceNames, PlaceNamesNext
<1>5. SameEntries /\ SameLive
  BY DEF SameEntries, SameLive, Live, EntryIds
<1>6. StatusAt(Lane(l))' = "queued"
  BY DEF StatusAt, Lane
<1>7. Moved(e, p, Lane(l))
  BY <1>4, <1>5, <1>6, PlaceNames DEF Moved, Lifecycle!Moves
<1>8. NothingTwice'
  BY <1>2, <1>3 DEF NothingTwice, Partition
<1> QED
  BY <1>7, <1>8, PlaceNames DEF Shifted

(* An entry leaves the front of the hands of f.                              *)
LEMMA HandLoses ==
    ASSUME TypeOK, Partition, NEW f \in Fibers, hand[f] # <<>>,
           hand' = [hand EXCEPT ![f] = Tail(@)]
    PROVE  /\ Head(hand[f]) \in EntryIds
           /\ Head(hand[f]) \in Content(Hand(f))
           /\ \A e : e = Head(hand[f]) => Content(Hand(f))' = Content(Hand(f)) \ {e}
           /\ \A g \in Fibers \ {f} : hand'[g] = hand[g]
           /\ \A g \in Fibers : NoRepeat(hand'[g])
<1>1. hand[f] \in Seq(EntryIds)
  BY DEF TypeOK, PlacesOK
<1>2. hand'[f] = Tail(hand[f]) /\ \A g \in Fibers \ {f} : hand'[g] = hand[g]
  BY FrameOf
<1>3. /\ Head(hand[f]) \in EntryIds /\ Head(hand[f]) \in Range(hand[f])
      /\ NoRepeat(Tail(hand[f])) /\ Range(Tail(hand[f])) = Range(hand[f]) \ {Head(hand[f])}
  BY <1>1, TailRange DEF Partition, NothingTwice
<1> QED
  BY <1>2, <1>3, PlaceNames, PlaceNamesNext DEF Partition, NothingTwice

LEMMA OfferShifts ==
    ASSUME TypeOK, Partition, NEW f \in Fibers, Offer(f)
    PROVE  Shifted /\ NothingTwice'
<1>1. PICK e : e = Head(hand[f])
  OBVIOUS
<1>2. hand[f] # <<>> /\ pc[f] = "offer" /\ hand' = [hand EXCEPT ![f] = Tail(@)]
  BY DEF Offer, TypeOK, FrameOK
<1>3. e \in EntryIds
  BY <1>1, <1>2, HandLoses
<1>4. PICK l \in Levels : l = LaneOf(e)
  BY <1>3, LaneOfLevel
<1>5. /\ lanes' = [lanes EXCEPT ![l] = Append(@, e)]
      /\ UNCHANGED <<entry, result, kept, op, cur>>
      /\ \E label \in {"wake1", "offer"} : GoTo(f, label)
  BY <1>1, <1>4 DEF Offer
<1>6. pc'[f] \in {"wake1", "offer"} /\ OthersFrame(f)
  <2>1. PICK label \in {"wake1", "offer"} : pc' = [pc EXCEPT ![f] = label]
    BY <1>5
  <2> QED
    BY <1>5, <2>1, FrameOf DEF OthersFrame, SameFrame
<1>7. f \in Workers => Under(f)' = Under(f)
  BY <1>2, <1>5, <1>6 DEF Under, Holds, Enqueuing, EnqueueLabels
<1>8. Elsewhere({Hand(f), Lane(l)})
  BY <1>2, <1>4, <1>5, <1>6, <1>7, ElsewhereOf, HandLoses, LaneOne, SameUnder DEF OthersFrame
<1>9. StatusAt(Hand(f)) = "offering"
  BY <1>2 DEF StatusAt, Hand, Offers
<1>10. \A g \in Fibers : NoRepeat(hand'[g]) /\ NoRepeat(kept'[g])
  BY <1>2, <1>5, HandLoses DEF Partition, NothingTwice
<1>11. /\ e \in Content(Hand(f)) /\ Content(Hand(f))' = Content(Hand(f)) \ {e}
       /\ Hand(f) \in Places /\ Hand(f) # Lane(l)
  BY <1>1, <1>2, HandLoses, PlaceNames, DistinctPlaces
<1> QED
  BY <1>3, <1>5, <1>8, <1>9, <1>10, <1>11, LaneGains

LEMMA SubroutineShifts ==
    ASSUME TypeOK, Partition, NEW f \in Fibers, Subroutine(f)
    PROVE  Shifted /\ NothingTwice'
BY SubroutineWaits, DedupShifts, OfferShifts DEF Subroutine, Partition

LEMMA MonitorShifts ==
    ASSUME TypeOK, NothingTwice, Monitor
    PROVE  Shifted /\ NothingTwice'
<1>1. DrainMonitor \in Fibers /\ DrainMonitor \notin Workers
  BY FibersAssumption
<1>2. UNCHANGED <<lanes, hand, kept, entry, result>>
  BY DEF Monitor, MonitorLoop, MonitorWoken, MonitorCheck, MonitorLoad
<1>3. OthersFrame(DrainMonitor)
  <2>1. CASE MonitorLoop \/ MonitorWoken \/ MonitorCheck
    BY <1>1, <2>1, FrameOf
       DEF MonitorLoop, MonitorWoken, MonitorCheck, OthersFrame, SameFrame
  <2>2. CASE MonitorLoad
    BY <1>1, <2>2 DEF MonitorLoad, CallEnqueue, TypeOK, FramesOK, OthersFrame, SameFrame
  <2> QED
    BY <2>1, <2>2 DEF Monitor
<1> QED
  BY <1>1, <1>2, <1>3, NeutralStep

----------------------------------------------------------------------------
(* The steps of a client.                                                    *)

LEMMA NotWorker ==
    ASSUME NEW c \in Clients
    PROVE  c \in Fibers /\ c \notin Workers /\ c # DrainMonitor
BY FibersAssumption

LEMMA ClientWaits ==
    ASSUME TypeOK, NothingTwice, NEW c \in Clients,
           \/ CallAdd(c) \/ CallPause(c) \/ CallShutdown(c) \/ CallExtract(c)
           \/ CallStart(c) \/ SetPaused(c) \/ SetShutdown(c) \/ ResetCompleted(c)
           \/ RestoreActiveKey(c)
    PROVE  Shifted /\ NothingTwice'
<1> c \in Fibers /\ c \notin Workers
  BY NotWorker
<1>1. \A o, label, s : Call(c, o, label, s) =>
        UNCHANGED <<lanes, hand, kept, entry, result>> /\ OthersFrame(c)
  BY DEF Call, TypeOK, FramesOK, OthersFrame, SameFrame
<1>2. CASE CallAdd(c)
  <2>1. UNCHANGED <<lanes, hand, kept, entry, result>>
    BY <1>2 DEF CallAdd
  <2>2. OthersFrame(c)
    BY <1>2 DEF CallAdd, CallEnqueue, TypeOK, FramesOK, OthersFrame, SameFrame
  <2> QED
    BY <2>1, <2>2, NeutralStep
<1>3. CASE \/ CallPause(c) \/ CallShutdown(c) \/ CallExtract(c) \/ CallStart(c)
  <2>1. \E o, label, s : Call(c, o, label, s)
    BY <1>3, Zenon DEF CallPause, CallShutdown, CallExtract, CallStart
  <2> QED
    BY <1>1, <2>1, NeutralStep
<1>4. CASE SetPaused(c)
  <2>1. UNCHANGED <<lanes, hand, kept, entry, result>> /\ \E label : Return(c, label)
    BY <1>4 DEF SetPaused
  <2> QED
    BY <2>1, ReturnsFrame, NeutralStep
<1>5. CASE SetShutdown(c) \/ ResetCompleted(c) \/ RestoreActiveKey(c)
  <2>1. /\ UNCHANGED <<lanes, hand, kept, entry, result, op, cur>>
        /\ \E label : pc' = [pc EXCEPT ![c] = label]
    BY <1>5 DEF SetShutdown, ResetCompleted, RestoreActiveKey
  <2>2. OthersFrame(c)
    BY <2>1, FrameOf DEF OthersFrame, SameFrame
  <2> QED
    BY <2>1, <2>2, NeutralStep
<1> QED
  BY <1>2, <1>3, <1>4, <1>5

(* Opening the latch moves suspended workers on, with the entry they hold.   *)
LEMMA OpenLatchShifts ==
    ASSUME TypeOK, NothingTwice, NEW c \in Clients, NEW label, OpenLatch(c, label),
           UNCHANGED <<lanes, hand, kept, entry, result, cur>>,
           \A f \in Fibers \ {c} : op'[f] = op[f]
    PROVE  Shifted /\ NothingTwice'
<1>1. ASSUME NEW w \in Workers
      PROVE  Under(w)' = Under(w)
  <2>1. w \in Fibers \ {c}
    BY FibersAssumption
  <2>2. pc'[w] = IF pc[w] = "shut1" THEN "poll"
                 ELSE IF pc[w] = "shut2" THEN "rate" ELSE pc[w]
    BY <2>1 DEF OpenLatch
  <2> QED
    BY <2>1, <2>2 DEF Under, Holds, Enqueuing, EnqueueLabels
<1>2. \A e \in EntryIds : Live(e)' <=> Live(e)
  BY DEF Live
<1> QED
  BY <1>1, <1>2, Neutral

LEMMA ReopenShifts ==
    ASSUME TypeOK, NothingTwice, NEW c \in Clients,
           CallResume(c) \/ DrainModeOpensLatch(c)
    PROVE  Shifted /\ NothingTwice'
<1> c \in Fibers
  BY NotWorker
<1>1. CASE CallResume(c)
  <2>1. op' = [op EXCEPT ![c] = "resume"] /\ OpenLatch(c, "setResumed")
    BY <1>1 DEF CallResume
  <2>2. UNCHANGED <<lanes, hand, kept, entry, result, cur>>
    BY <1>1 DEF CallResume
  <2> QED
    BY <2>1, <2>2, FrameOf, OpenLatchShifts
<1>2. CASE DrainModeOpensLatch(c)
  BY <1>2, OpenLatchShifts DEF DrainModeOpensLatch
<1> QED
  BY <1>1, <1>2

(* start forks workers that have not run yet, so they hold nothing.          *)
LEMMA ForkShifts ==
    ASSUME TypeOK, Accounts, NothingTwice, NEW c \in Clients, ForkProcessingFibers(c)
    PROVE  Shifted /\ NothingTwice'
<1> c \in Fibers /\ c \notin Workers
  BY NotWorker
<1>1. /\ UNCHANGED <<lanes, hand, kept, entry, result, cur>>
      /\ op' = [op EXCEPT ![c] = "none"]
      /\ pc' = [IF workersStarted THEN pc ELSE ForkWorkers EXCEPT ![c] = "idle"]
  BY DEF ForkProcessingFibers
<1>2. ASSUME NEW w \in Workers
      PROVE  Under(w)' = Under(w)
  <2>1. w \in Fibers \ {c} /\ w \notin Clients /\ op'[w] = op[w]
    BY <1>1, FrameOf, FibersAssumption
  <2>2. CASE workersStarted
    <3>1. pc'[w] = pc[w]
      BY <1>1, <2>1, <2>2 DEF TypeOK, FramesOK
    <3> QED
      BY <1>1, <2>1, <3>1, SameUnder DEF SameFrame
  <2>3. CASE ~workersStarted
    <3>1. pc[w] = "off"
      BY <2>3 DEF Accounts, Unstarted
    <3>2. pc'[w] = "loop"
      BY <1>1, <2>1, <2>3 DEF ForkWorkers
    <3> QED
      BY <3>1, <3>2 DEF Under, Holds, Enqueuing, EnqueueLabels
  <2> QED
    BY <2>2, <2>3
<1>3. \A e \in EntryIds : Live(e)' <=> Live(e)
  BY <1>1 DEF Live
<1> QED
  BY <1>1, <1>2, <1>3, Neutral

LEMMA ReinjectShifts ==
    ASSUME TypeOK, NothingTwice, NEW c \in Clients, CallEnqueueEntry(c)
    PROVE  Shifted /\ NothingTwice'
<1> c \in Fibers /\ c \notin Workers
  BY NotWorker
<1>1. PICK e \in EntryIds :
        /\ result[e] = "released"
        /\ CallEnqueue(c, "reinject", <<entry[e].item>>, 0, e)
        /\ result' = [result EXCEPT ![e] = "reinjected"]
  BY DEF CallEnqueueEntry
<1>2. UNCHANGED <<lanes, hand, kept, entry>>
  BY DEF CallEnqueueEntry
<1>3. OthersFrame(c)
  BY <1>1 DEF CallEnqueue, TypeOK, FramesOK, OthersFrame, SameFrame
<1>4. \A g \in EntryIds : Live(g)' <=> Live(g)
  BY <1>1, ResultEnds DEF Live
<1>5. \A w \in Workers : Under(w)' = Under(w)
  BY <1>3, SameUnder DEF OthersFrame
<1> QED
  BY <1>2, <1>4, <1>5, Neutral

(* A client lets go of what it holds, with a result.                         *)
LEMMA HandEnds ==
    ASSUME TypeOK, NothingTwice, NEW c \in Clients, OthersFrame(c),
           NEW r, r # "live", result' = MarkAll(Range(hand[c]), r),
           hand' = [hand EXCEPT ![c] = <<>>], UNCHANGED <<lanes, kept, entry>>
    PROVE  Shifted /\ NothingTwice'
<1> c \in Fibers /\ c \notin Workers
  BY NotWorker
<1>1. hand'[c] = <<>> /\ \A g \in Fibers \ {c} : hand'[g] = hand[g]
  BY FrameOf
<1>2. Elsewhere({Hand(c)})
  BY <1>1, ElsewhereOf, SameUnder DEF OthersFrame
<1>3. Content(Hand(c)) = Range(hand[c]) /\ Content(Hand(c))' = {}
  BY <1>1, EmptyRange, PlaceNames, PlaceNamesNext
<1>4. \A g \in EntryIds : Live(g)' <=> Live(g) /\ g \notin Range(hand[c])
  BY MarkAllEnds
<1>5. <<StatusAt(Hand(c)), "ended">> \in Lifecycle!Moves
  BY DEF StatusAt, Hand, Lifecycle!Moves
<1>6. Ended({Hand(c)})
  BY <1>2, <1>3, <1>4, <1>5, PlaceNames DEF Ended, SameEntries, EntryIds
<1>7. NothingTwice'
  BY <1>1, EmptyRange DEF NothingTwice
<1> QED
  BY <1>6, <1>7, PlaceNames DEF Shifted

LEMMA InterruptShifts ==
    ASSUME TypeOK, NothingTwice, NEW c \in Clients, InterruptCall(c)
    PROVE  Shifted /\ NothingTwice'
<1> c \in Fibers /\ c \notin Workers
  BY NotWorker
<1>0. /\ hand' = [hand EXCEPT ![c] = <<>>] /\ kept' = [kept EXCEPT ![c] = <<>>]
      /\ result' = MarkAll(Range(hand[c]) \cup Range(kept[c]), "lost")
      /\ UNCHANGED <<lanes, entry>> /\ Return(c, "idle")
  BY DEF InterruptCall
<1>1. /\ hand'[c] = <<>> /\ \A g \in Fibers \ {c} : hand'[g] = hand[g]
      /\ kept'[c] = <<>> /\ \A g \in Fibers \ {c} : kept'[g] = kept[g]
      /\ OthersFrame(c)
  <2>1. hand'[c] = <<>> /\ \A g \in Fibers \ {c} : hand'[g] = hand[g]
    BY <1>0, FrameOf
  <2>2. kept'[c] = <<>> /\ \A g \in Fibers \ {c} : kept'[g] = kept[g]
    BY <1>0, FrameOf
  <2> QED
    BY <1>0, <2>1, <2>2, ReturnsFrame
<1>2. Elsewhere({Hand(c), KeptBy(c)})
  BY <1>0, <1>1, ElsewhereOf, SameUnder DEF OthersFrame
<1>3. /\ Content(Hand(c)) = Range(hand[c]) /\ Content(Hand(c))' = {}
      /\ Content(KeptBy(c)) = Range(kept[c]) /\ Content(KeptBy(c))' = {}
  BY <1>1, EmptyRange, PlaceNames, PlaceNamesNext
<1>4. \A g \in EntryIds :
        Live(g)' <=> Live(g) /\ g \notin Range(hand[c]) \cup Range(kept[c])
  BY <1>0, MarkAllEnds
<1>5. /\ <<StatusAt(Hand(c)), "ended">> \in Lifecycle!Moves
      /\ <<StatusAt(KeptBy(c)), "ended">> \in Lifecycle!Moves
  BY DEF StatusAt, Hand, KeptBy, Lifecycle!Moves
<1>6. Ended({Hand(c), KeptBy(c)})
  BY <1>0, <1>2, <1>3, <1>4, <1>5, PlaceNames DEF Ended, SameEntries, EntryIds
<1>7. NothingTwice'
  BY <1>0, <1>1, EmptyRange DEF NothingTwice
<1> QED
  BY <1>6, <1>7, PlaceNames DEF Shifted

LEMMA ExtractedEnds ==
    ASSUME TypeOK, NothingTwice, NEW c \in Clients, ReleaseKeys(c) \/ EncodeReleased(c)
    PROVE  Shifted /\ NothingTwice'
<1> c \in Fibers /\ c \notin Workers
  BY NotWorker
<1>1. UNCHANGED <<lanes, kept, entry, op, cur>>
  BY DEF ReleaseKeys, EncodeReleased
<1>2. \E label : pc' = [pc EXCEPT ![c] = label]
  BY Zenon DEF ReleaseKeys, EncodeReleased
<1>3. OthersFrame(c)
  BY <1>1, <1>2, FrameOf DEF OthersFrame, SameFrame
<1>4. CASE UNCHANGED <<hand, result>>
  BY <1>1, <1>3, <1>4, NeutralStep
<1>5. CASE ReleaseKeys(c) /\ op[c] # "releaseEncoded"
  <2>1. op[c] \in {"clear", "release", "route", "shutdown"}
    BY <1>5 DEF ReleaseKeys, TypeOK, FrameOK, ExtractOps
  <2>2. SettledAs(op[c]) # "live"
    BY <2>1 DEF SettledAs
  <2>3. /\ result' = MarkAll(Range(hand[c]), SettledAs(op[c]))
        /\ hand' = [hand EXCEPT ![c] = <<>>]
    BY <1>5 DEF ReleaseKeys
  <2> QED
    BY <1>1, <1>3, <2>2, <2>3, HandEnds
<1>6. CASE ReleaseKeys(c) /\ op[c] = "releaseEncoded"
  BY <1>4, <1>6 DEF ReleaseKeys
<1>7. CASE EncodeReleased(c)
  <2>1. \/ /\ result' = MarkAll(Range(hand[c]), "released")
           /\ hand' = [hand EXCEPT ![c] = <<>>]
        \/ UNCHANGED <<hand, result>>
    BY <1>7 DEF EncodeReleased
  <2> QED
    BY <1>1, <1>3, <1>4, <2>1, HandEnds
<1> QED
  BY <1>5, <1>6, <1>7

LEMMA RestoreShifts ==
    ASSUME TypeOK, Partition, NEW c \in Clients, RestorePending(c)
    PROVE  Shifted /\ NothingTwice'
<1> c \in Fibers /\ c \notin Workers
  BY NotWorker
<1>1. PICK e : e = Head(hand[c])
  OBVIOUS
<1>2. hand[c] # <<>> /\ pc[c] = "restore" /\ hand' = [hand EXCEPT ![c] = Tail(@)]
  BY DEF RestorePending, TypeOK, FrameOK
<1>3. e \in EntryIds
  BY <1>1, <1>2, HandLoses
<1>4. PICK l \in Levels : l = LaneOf(e)
  BY <1>3, LaneOfLevel
<1>5. /\ lanes' = [lanes EXCEPT ![l] = Append(@, e)]
      /\ UNCHANGED <<entry, result, kept, op>>
      /\ cur' = [cur EXCEPT ![c] = e] /\ pc' = [pc EXCEPT ![c] = "rekey"]
  BY <1>1, <1>4 DEF RestorePending
<1>6. OthersFrame(c)
  <2>1. \A g \in Fibers \ {c} : pc'[g] = pc[g]
    BY <1>5, FrameOf
  <2>2. \A g \in Fibers \ {c} : cur'[g] = cur[g]
    BY <1>5, FrameOf
  <2> QED
    BY <1>5, <2>1, <2>2 DEF OthersFrame, SameFrame
<1>7. Elsewhere({Hand(c), Lane(l)})
  BY <1>2, <1>4, <1>5, <1>6, ElsewhereOf, HandLoses, LaneOne, SameUnder DEF OthersFrame
<1>8. StatusAt(Hand(c)) = "pulled"
  BY <1>2 DEF StatusAt, Hand, Offers
<1>9. \A g \in Fibers : NoRepeat(hand'[g]) /\ NoRepeat(kept'[g])
  BY <1>2, <1>5, HandLoses DEF Partition, NothingTwice
<1>10. /\ e \in Content(Hand(c)) /\ Content(Hand(c))' = Content(Hand(c)) \ {e}
       /\ Hand(c) \in Places /\ Hand(c) # Lane(l)
  BY <1>1, <1>2, HandLoses, PlaceNames, DistinctPlaces
<1> QED
  BY <1>3, <1>5, <1>7, <1>8, <1>9, <1>10, LaneGains

LEMMA PutBackShifts ==
    ASSUME TypeOK, Partition, NEW c \in Clients, PutBack(c)
    PROVE  Shifted /\ NothingTwice'
<1> c \in Fibers /\ c \notin Workers
  BY NotWorker
<1>1. PICK l \in Levels : l = scan[c]
  BY DEF TypeOK, FramesOK
<1>2. PICK e : e = Head(kept[c])
  OBVIOUS
<1>3. kept[c] # <<>> /\ kept[c] \in Seq(EntryIds) /\ pc[c] = "putback"
  BY DEF PutBack, TypeOK, FrameOK, PlacesOK
<1>4. /\ lanes' = [lanes EXCEPT ![l] = Append(@, e)]
      /\ kept' = [kept EXCEPT ![c] = Tail(@)]
      /\ UNCHANGED <<entry, result, hand, op, cur>>
  BY <1>1, <1>2 DEF PutBack
<1>5. UNCHANGED pc \/ \E label : pc' = [pc EXCEPT ![c] = label]
  BY Zenon DEF PutBack, NextLane
<1>6. OthersFrame(c)
  BY <1>4, <1>5, FrameOf DEF OthersFrame, SameFrame
<1>7. kept'[c] = Tail(kept[c]) /\ \A g \in Fibers \ {c} : kept'[g] = kept[g]
  BY <1>4, FrameOf
<1>8. /\ e \in EntryIds /\ e \in Range(kept[c])
      /\ NoRepeat(kept'[c]) /\ Range(kept'[c]) = Range(kept[c]) \ {e}
  BY <1>2, <1>3, <1>7, TailRange DEF Partition, NothingTwice
<1>9. /\ e \in Content(KeptBy(c)) /\ Content(KeptBy(c))' = Content(KeptBy(c)) \ {e}
      /\ KeptBy(c) \in Places /\ KeptBy(c) # Lane(l)
  BY <1>8, PlaceNames, PlaceNamesNext, DistinctPlaces
<1>10. Elsewhere({KeptBy(c), Lane(l)})
  BY <1>4, <1>6, <1>7, ElsewhereOf, LaneOne, SameUnder DEF OthersFrame
<1>11. StatusAt(KeptBy(c)) = "pulled"
  BY DEF StatusAt, KeptBy
<1>12. \A g \in Fibers : NoRepeat(hand'[g]) /\ NoRepeat(kept'[g])
  BY <1>4, <1>7, <1>8 DEF Partition, NothingTwice
<1> QED
  BY <1>4, <1>8, <1>9, <1>10, <1>11, <1>12, LaneGains

(* An entry goes from the front of a lane to the back of what a client holds. *)
LEMMA LaneLoses ==
    ASSUME TypeOK, Partition, NEW l \in Levels, lanes[l] # <<>>,
           NEW e, e = Head(lanes[l]), lanes' = [lanes EXCEPT ![l] = Tail(@)],
           UNCHANGED <<entry, result>>,
           NEW q \in Places, q # Lane(l), Content(q)' = Content(q) \cup {e},
           Elsewhere({Lane(l), q}), StatusAt(q)' = "pulled",
           \A f \in Fibers : NoRepeat(hand'[f]) /\ NoRepeat(kept'[f])
    PROVE  Shifted /\ NothingTwice'
<1>1. lanes[l] \in Seq(EntryIds)
  BY DEF TypeOK, PlacesOK
<1>2. lanes'[l] = Tail(lanes[l]) /\ \A k \in Levels \ {l} : lanes'[k] = lanes[k]
  BY LaneOne
<1>3. /\ e \in EntryIds /\ e \in Range(lanes[l])
      /\ Range(lanes'[l]) = Range(lanes[l]) \ {e} /\ NoRepeat(lanes'[l])
  BY <1>1, <1>2, TailRange DEF Partition, NothingTwice
<1>4. e \in Content(Lane(l)) /\ Content(Lane(l))' = Content(Lane(l)) \ {e}
  BY <1>3, PlaceNames, PlaceNamesNext
<1>5. StatusAt(Lane(l)) = "queued"
  BY DEF StatusAt, Lane
<1>6. <<StatusAt(Lane(l)), StatusAt(q)'>> \in Lifecycle!Moves
  BY <1>5 DEF Lifecycle!Moves
<1>7. SameEntries /\ SameLive
  BY DEF SameEntries, SameLive, Live, EntryIds
<1>8. Moved(e, Lane(l), q)
  BY <1>4, <1>6, <1>7, PlaceNames DEF Moved
<1>9. NothingTwice'
  BY <1>2, <1>3 DEF NothingTwice, Partition
<1> QED
  BY <1>3, <1>8, <1>9, PlaceNames DEF Shifted

LEMMA DrainShifts ==
    ASSUME TypeOK, Partition, NEW c \in Clients, DrainLane(c)
    PROVE  Shifted /\ NothingTwice'
<1> c \in Fibers /\ c \notin Workers
  BY NotWorker
<1>0. PICK l \in Levels : l = scan[c]
  BY DEF TypeOK, FramesOK
<1>1. UNCHANGED <<entry, result, op, cur>> /\ pc[c] = "drain"
  BY DEF DrainLane
<1>2. UNCHANGED pc \/ \E label : pc' = [pc EXCEPT ![c] = label]
  BY Zenon DEF DrainLane, NextLane
<1>3. OthersFrame(c)
  BY <1>1, <1>2, FrameOf DEF OthersFrame, SameFrame
<1>4. CASE lanes[l] = <<>>
  <2>1. UNCHANGED <<lanes, hand, kept>>
    BY <1>0, <1>4 DEF DrainLane
  <2> QED
    BY <1>1, <1>3, <2>1, NeutralStep DEF Partition
<1>5. CASE lanes[l] # <<>>
  <2>0. PICK e : e = Head(lanes[l])
    OBVIOUS
  <2>1. /\ lanes' = [lanes EXCEPT ![l] = Tail(@)] /\ UNCHANGED pc
        /\ \/ hand' = [hand EXCEPT ![c] = Append(@, e)] /\ UNCHANGED kept
           \/ kept' = [kept EXCEPT ![c] = Append(@, e)] /\ UNCHANGED hand
    BY <1>0, <1>5, <2>0 DEF DrainLane
  <2>2. e \in EntryIds /\ e \in Content(Lane(l))
    <3>1. e \in EntryIds /\ e \in Range(lanes[l])
      BY <1>5, <2>0, TailRange DEF TypeOK, PlacesOK
    <3> QED
      BY <3>1, PlaceNames
  <2>3. e \notin Content(Hand(c)) /\ e \notin Content(KeptBy(c))
    BY <2>2, PlaceNames, DistinctPlaces DEF Partition, PlacesApart
  <2>4. \A k \in Levels \ {l} : lanes'[k] = lanes[k]
    BY <2>1, LaneOne
  <2>5. CASE hand' = [hand EXCEPT ![c] = Append(@, e)] /\ UNCHANGED kept
    <3>1. /\ hand'[c] = Append(hand[c], e) /\ hand[c] \in Seq(EntryIds)
          /\ \A g \in Fibers \ {c} : hand'[g] = hand[g]
      BY <2>5, FrameOf DEF TypeOK, PlacesOK
    <3>2. e \notin Range(hand[c])
      BY <2>3, PlaceNames
    <3>3. Range(hand'[c]) = Range(hand[c]) \cup {e} /\ NoRepeat(hand'[c])
      BY <2>2, <3>1, <3>2, AppendRange DEF Partition, NothingTwice
    <3>4. Content(Hand(c))' = Content(Hand(c)) \cup {e}
      BY <3>3, PlaceNames, PlaceNamesNext
    <3>5. Elsewhere({Lane(l), Hand(c)})
      BY <1>3, <2>4, <2>5, <3>1, ElsewhereOf, SameUnder DEF OthersFrame
    <3>6. StatusAt(Hand(c))' = "pulled"
      BY <1>1, <2>1 DEF StatusAt, Hand, Offers
    <3>7. \A f \in Fibers : NoRepeat(hand'[f]) /\ NoRepeat(kept'[f])
      BY <2>5, <3>1, <3>3 DEF Partition, NothingTwice
    <3>8. Hand(c) \in Places /\ Hand(c) # Lane(l)
      BY PlaceNames, DistinctPlaces
    <3> QED
      BY <1>1, <1>5, <2>0, <2>1, <3>4, <3>5, <3>6, <3>7, <3>8, LaneLoses
  <2>6. CASE kept' = [kept EXCEPT ![c] = Append(@, e)] /\ UNCHANGED hand
    <3>1. /\ kept'[c] = Append(kept[c], e) /\ kept[c] \in Seq(EntryIds)
          /\ \A g \in Fibers \ {c} : kept'[g] = kept[g]
      BY <2>6, FrameOf DEF TypeOK, PlacesOK
    <3>2. e \notin Range(kept[c])
      BY <2>3, PlaceNames
    <3>3. Range(kept'[c]) = Range(kept[c]) \cup {e} /\ NoRepeat(kept'[c])
      BY <2>2, <3>1, <3>2, AppendRange DEF Partition, NothingTwice
    <3>4. Content(KeptBy(c))' = Content(KeptBy(c)) \cup {e}
      BY <3>3, PlaceNames, PlaceNamesNext
    <3>5. Elsewhere({Lane(l), KeptBy(c)})
      BY <1>3, <2>4, <2>6, <3>1, ElsewhereOf, SameUnder DEF OthersFrame
    <3>6. StatusAt(KeptBy(c))' = "pulled"
      BY DEF StatusAt, KeptBy
    <3>7. \A f \in Fibers : NoRepeat(hand'[f]) /\ NoRepeat(kept'[f])
      BY <2>6, <3>1, <3>3 DEF Partition, NothingTwice
    <3>8. KeptBy(c) \in Places /\ KeptBy(c) # Lane(l)
      BY PlaceNames, DistinctPlaces
    <3> QED
      BY <1>1, <1>5, <2>0, <2>1, <3>4, <3>5, <3>6, <3>7, <3>8, LaneLoses
  <2> QED
    BY <2>1, <2>5, <2>6
<1> QED
  BY <1>4, <1>5

LEMMA ClientShifts ==
    ASSUME TypeOK, Accounts, Partition, NEW c \in Clients,
           ClientCall(c) \/ ClientStep(c)
    PROVE  Shifted /\ NothingTwice'
<1> NothingTwice
  BY DEF Partition
<1>1. CASE ClientCall(c)
  BY <1>1, ClientWaits, ReopenShifts, ReinjectShifts, InterruptShifts DEF ClientCall
<1>2. CASE ClientStep(c)
  BY <1>2, ClientWaits, ReopenShifts, ForkShifts, ExtractedEnds, RestoreShifts,
     PutBackShifts, DrainShifts DEF ClientStep
<1> QED
  BY <1>1, <1>2

----------------------------------------------------------------------------
(* The partition is an invariant.                                            *)

LEMMA InitPartition == Init => Partition
<1> SUFFICES ASSUME Init PROVE Partition
  OBVIOUS
<1>1. /\ \A l \in Levels : lanes[l] = <<>>
      /\ \A f \in Fibers : hand[f] = <<>> /\ kept[f] = <<>>
      /\ EntryIds = {}
  BY DEF Init, EntryIds
<1>2. \A w \in Workers : Under(w) = {}
  BY FibersAssumption DEF Init, Under, Holds, Enqueuing, EnqueueLabels
<1>3. \A p \in Places : Content(p) = {}
  BY <1>1, <1>2, EmptyRange, PlaceNames
<1> QED
  BY <1>1, <1>3, EmptyRange DEF Partition, PlacesApart, LiveIsPlaced, NothingTwice

LEMMA NextShifts ==
    ASSUME TypeOK, Accounts, Partition, [Next]_vars
    PROVE  Shifted /\ NothingTwice'
<1> NothingTwice
  BY DEF Partition
<1>1. ASSUME NEW w \in Workers, Worker(w) PROVE Shifted /\ NothingTwice'
  BY <1>1, WorkerShifts
<1>2. ASSUME NEW c \in Clients, ClientCall(c) \/ ClientStep(c)
      PROVE  Shifted /\ NothingTwice'
  BY <1>2, ClientShifts
<1>3. CASE Monitor
  BY <1>3, MonitorShifts
<1>4. ASSUME NEW f \in Fibers, Subroutine(f) PROVE Shifted /\ NothingTwice'
  BY <1>4, SubroutineShifts
<1>5. CASE UNCHANGED vars
  <2>1. UNCHANGED <<lanes, hand, kept, entry, result, pc, op, cur>>
    BY <1>5 DEF vars
  <2>2. \A w \in Workers : Under(w)' = Under(w)
    BY <2>1, SameUnder DEF SameFrame
  <2> QED
    BY <2>1, <2>2, Neutral DEF Live
<1> QED
  BY <1>1, <1>2, <1>3, <1>4, <1>5 DEF Next, AtRest

LEMMA NextPartition ==
    ASSUME TypeOK, Accounts, Partition, [Next]_vars
    PROVE  Partition'
<1>1. Located'
  BY NextShifts, ShiftedLocated DEF Partition, Located
<1> QED
  BY <1>1, NextShifts DEF Partition, Located

----------------------------------------------------------------------------
(* Counting: a partition has exactly one copy of a live entry.               *)

Spots(q, e) ==
    {x \in UNION {{p} \X DOMAIN q[p] : p \in DOMAIN q} : q[x[1]][x[2]] = e}

LEMMA CountSpots ==
    ASSUME NEW D, NEW S, NEW q \in [D -> Seq(S)], NEW e,
           \A p \in D : NoRepeat(q[p]),
           \A p, r \in D : e \in Range(q[p]) /\ e \in Range(q[r]) => p = r
    PROVE  Cardinality(Spots(q, e)) = IF \E p \in D : e \in Range(q[p]) THEN 1 ELSE 0
<1>1. ASSUME NEW x PROVE x \in Spots(q, e) <=>
         \E p \in D : \E i \in DOMAIN q[p] : x = <<p, i>> /\ q[p][i] = e
  BY DEF Spots
<1>2. \A p \in D : \A i \in DOMAIN q[p] : q[p][i] = e => e \in Range(q[p])
  BY DEF Range
<1>3. CASE \A p \in D : e \notin Range(q[p])
  <2>1. Spots(q, e) = {}
    BY <1>1, <1>2, <1>3
  <2> QED
    BY <1>3, <2>1, FS_EmptySet
<1>4. CASE \E p \in D : e \in Range(q[p])
  <2>1. PICK p \in D : e \in Range(q[p])
    BY <1>4
  <2>2. PICK i \in DOMAIN q[p] : q[p][i] = e
    BY <2>1 DEF Range
  <2>3. \A r \in D : \A j \in DOMAIN q[r] : q[r][j] = e => r = p /\ j = i
    BY <1>2, <2>1, <2>2 DEF NoRepeat
  <2>4. Spots(q, e) = {<<p, i>>}
    BY <1>1, <2>2, <2>3
  <2> QED
    BY <1>4, <2>4, FS_Singleton
<1> QED
  BY <1>3, <1>4

LEMMA CountWorkers ==
    ASSUME PlacesApart, NEW e
    PROVE  Cardinality({w \in Workers : Holds(w) /\ cur[w] = e})
             = IF \E w \in Workers : e \in Under(w) THEN 1 ELSE 0
<1>1. {w \in Workers : Holds(w) /\ cur[w] = e} = {w \in Workers : e \in Under(w)}
  BY DEF Under
<1>2. CASE \A w \in Workers : e \notin Under(w)
  <2>1. {w \in Workers : e \in Under(w)} = {}
    BY <1>2
  <2> QED
    BY <1>1, <1>2, <2>1, FS_EmptySet
<1>3. CASE \E w \in Workers : e \in Under(w)
  <2>1. PICK w \in Workers : e \in Under(w)
    BY <1>3
  <2>2. \A v \in Workers : e \in Under(v) => v = w
    BY <2>1, PlaceNames, DistinctPlaces DEF PlacesApart
  <2>3. {v \in Workers : e \in Under(v)} = {w}
    BY <2>1, <2>2
  <2> QED
    BY <1>1, <1>3, <2>3, FS_Singleton
<1> QED
  BY <1>2, <1>3

LEMMA PartitionCounts ==
    ASSUME TypeOK, Partition
    PROVE  ExactlyOnePlace
<1> SUFFICES ASSUME NEW e \in EntryIds
             PROVE  Copies(e) = IF result[e] = "live" THEN 1 ELSE 0
  BY DEF ExactlyOnePlace
<1> DEFINE inLane   == \E l \in Levels : e \in Range(lanes[l])
           inHand   == \E f \in Fibers : e \in Range(hand[f])
           inKept   == \E f \in Fibers : e \in Range(kept[f])
           inWorker == \E w \in Workers : e \in Under(w)
<1>1. Cardinality(Spots(lanes, e)) = IF inLane THEN 1 ELSE 0
  <2>1. \A l, m \in Levels : e \in Range(lanes[l]) /\ e \in Range(lanes[m]) => l = m
    BY PlaceNames, DistinctPlaces DEF Partition, PlacesApart
  <2> QED
    BY <2>1, CountSpots DEF TypeOK, PlacesOK, Partition, NothingTwice
<1>2. Cardinality(Spots(hand, e)) = IF inHand THEN 1 ELSE 0
  <2>1. \A f, g \in Fibers : e \in Range(hand[f]) /\ e \in Range(hand[g]) => f = g
    BY PlaceNames, DistinctPlaces DEF Partition, PlacesApart
  <2> QED
    BY <2>1, CountSpots DEF TypeOK, PlacesOK, Partition, NothingTwice
<1>3. Cardinality(Spots(kept, e)) = IF inKept THEN 1 ELSE 0
  <2>1. \A f, g \in Fibers : e \in Range(kept[f]) /\ e \in Range(kept[g]) => f = g
    BY PlaceNames, DistinctPlaces DEF Partition, PlacesApart
  <2> QED
    BY <2>1, CountSpots DEF TypeOK, PlacesOK, Partition, NothingTwice
<1>4. Cardinality({w \in Workers : Holds(w) /\ cur[w] = e}) = IF inWorker THEN 1 ELSE 0
  BY CountWorkers DEF Partition
<1>5. Copies(e) = Cardinality(Spots(lanes, e)) + Cardinality(Spots(hand, e))
                    + Cardinality(Spots(kept, e))
                    + Cardinality({w \in Workers : Holds(w) /\ cur[w] = e})
  BY DEF Copies, Spots
<1>6. (result[e] = "live") <=> inLane \/ inHand \/ inKept \/ inWorker
  <2>1. (result[e] = "live") <=> \E p \in Places : e \in Content(p)
    BY DEF Partition, LiveIsPlaced, Live
  <2> QED
    BY <2>1, PlaceNames
<1>7. /\ ~(inLane /\ inHand) /\ ~(inLane /\ inKept) /\ ~(inLane /\ inWorker)
      /\ ~(inHand /\ inKept) /\ ~(inHand /\ inWorker) /\ ~(inKept /\ inWorker)
  BY PlaceNames, DistinctPlaces DEF Partition, PlacesApart
<1> HIDE DEF inLane, inHand, inKept, inWorker
<1> QED
  BY <1>1, <1>2, <1>3, <1>4, <1>5, <1>6, <1>7

(* No step copies an entry or loses track of one: polling, draining, putting *)
(* back, offering, restoring, retrying, interrupting the caller, for every   *)
(* number of workers, clients, lanes and items.                              *)
THEOREM EveryEntryOnce == Spec => []ExactlyOnePlace
<1>1. Init => Accounts /\ Partition
  BY InitAccounts, InitPartition
<1>2. TypeOK /\ (Accounts /\ Partition) /\ [Next]_vars => (Accounts /\ Partition)'
  BY NextAccounts, NextPartition
<1>3. TypeOK /\ (Accounts /\ Partition) => ExactlyOnePlace
  BY PartitionCounts
<1> QED
  BY <1>1, <1>2, <1>3, TypeCorrect, PTL DEF Spec

----------------------------------------------------------------------------
(* What a fiber does with what it holds: how a place that keeps an entry      *)
(* changes its status.                                                        *)

HandLabels == {"dedup", "claim", "offer", "drain", "putback", "keys", "encode",
               "restore", "rekey"}
KeptLabels == {"drain", "putback"}

(* A fiber holds entries only while it enqueues or extracts, and entries it   *)
(* will put back only while it extracts.                                      *)
FramesClear ==
    \A f \in Fibers : /\ hand[f] # <<>> => pc[f] \in HandLabels
                      /\ kept[f] # <<>> => pc[f] \in KeptLabels

(* The drain monitor is forked with the workers.                              *)
MonitorOff == ~workersStarted => pc[DrainMonitor] = "off"

(* A worker that keeps its permit after its item is settled.                  *)
Done(w) == HasPermit(w) /\ ~Holds(w)
Finished == \A w \in Workers : Done(w) => ~Live(cur[w])

HandFlow(f) ==
    /\ hand'[f] # <<>> => pc'[f] \in HandLabels
    /\ kept'[f] # <<>> => pc'[f] \in KeptLabels
    /\ hand[f] # <<>> /\ hand'[f] # <<>> => (Offers(f)' <=> Offers(f))
WorkFlow(w) ==
    /\ Holds(w) /\ HasPermit(w) /\ Holds(w)' => HasPermit(w)'
    /\ Done(w)' => (Done(w) /\ cur'[w] = cur[w]) \/ ~Live(cur[w])'
Flow ==
    /\ \A f \in Fibers : HandFlow(f)
    /\ \A w \in Workers : WorkFlow(w)
    /\ pc[DrainMonitor] = "off" => pc'[DrainMonitor] = "off" \/ workersStarted'

(* f acts alone: the other fibers keep their frames.                          *)
Alone(f) ==
    /\ OthersFrame(f)
    /\ \A g \in Fibers \ {f} : hand'[g] = hand[g] /\ kept'[g] = kept[g]

LEMMA SameWorkFlow ==
    ASSUME NEW w \in Workers, SameFrame(w)
    PROVE  WorkFlow(w)
BY DEF SameFrame, WorkFlow, Done, Holds, HasPermit, InBody, Enqueuing

LEMMA AloneFlow ==
    ASSUME FramesClear, NEW f \in Fibers, Alone(f), HandFlow(f),
           f \in Workers => WorkFlow(f), f = DrainMonitor => pc[f] # "off"
    PROVE  Flow
<1>1. ASSUME NEW g \in Fibers \ {f} PROVE HandFlow(g)
  BY DEF Alone, OthersFrame, SameFrame, FramesClear, HandFlow, Offers
<1>2. ASSUME NEW w \in Workers, w # f PROVE WorkFlow(w)
  BY <1>2, SameWorkFlow, Apart DEF Alone, OthersFrame
<1>3. pc[DrainMonitor] = "off" => pc'[DrainMonitor] = "off"
  BY DEF Alone, OthersFrame, SameFrame
<1> QED
  BY <1>1, <1>2, <1>3 DEF Flow

(* Steps at a label at which nothing is held.                                 *)
LEMMA EmptyHandedFlow ==
    ASSUME FramesClear, NEW f \in Fibers, pc[f] \notin HandLabels,
           UNCHANGED <<hand, kept>>
    PROVE  HandFlow(f)
BY DEF FramesClear, HandFlow, HandLabels, KeptLabels

LEMMA WorkerWaitsFlow ==
    ASSUME TypeOK, FramesClear, NEW w \in Workers,
           \/ WorkerLoop(w) \/ AwaitLatch(w) \/ TakeNextEmpty(w) \/ WorkerWoken(w)
           \/ RateLimitAwait(w) \/ StartItem(w) \/ EffectExits(w) \/ ReleaseKey(w)
    PROVE  Flow
<1> w \in Fibers /\ w # DrainMonitor
  BY Apart
<1>1. UNCHANGED <<hand, kept, cur>> /\ OthersFrame(w)
  <2>1. CASE WorkerLoop(w) \/ AwaitLatch(w) \/ TakeNextEmpty(w) \/ WorkerWoken(w)
    BY <2>1, FrameOf
       DEF WorkerLoop, AwaitLatch, TakeNextEmpty, WorkerWoken, OthersFrame, SameFrame
  <2>2. CASE RateLimitAwait(w) \/ StartItem(w) \/ EffectExits(w) \/ ReleaseKey(w)
    BY <2>2, FrameOf
       DEF RateLimitAwait, StartItem, EffectExits, ReleaseKey, OthersFrame, SameFrame
  <2> QED
    BY <2>1, <2>2
<1>2. \/ /\ pc[w] \in {"loop", "latch1", "latch2", "check", "wait", "rate"}
         /\ pc'[w] \in {"exit", "latch1", "poll", "shut1", "shut2", "rate", "wait",
                        "start", "skip"}
      \/ pc[w] = "start" /\ pc'[w] = "run"
      \/ pc[w] = "run" /\ pc'[w] = "unkey"
      \/ pc[w] = "unkey" /\ pc'[w] = "settle"
  <2>1. CASE WorkerLoop(w) \/ AwaitLatch(w) \/ TakeNextEmpty(w) \/ WorkerWoken(w)
    BY <2>1, FrameOf DEF WorkerLoop, AwaitLatch, TakeNextEmpty, WorkerWoken
  <2>2. CASE RateLimitAwait(w) \/ StartItem(w) \/ EffectExits(w) \/ ReleaseKey(w)
    BY <2>2, FrameOf DEF RateLimitAwait, StartItem, EffectExits, ReleaseKey
  <2> QED
    BY <2>1, <2>2
<1>3. WorkFlow(w)
  BY <1>2 DEF WorkFlow, Done, Holds, HasPermit, InBody, Enqueuing, EnqueueLabels
<1>4. HandFlow(w)
  BY <1>1, <1>2, EmptyHandedFlow DEF HandLabels
<1> QED
  BY <1>1, <1>3, <1>4, AloneFlow DEF Alone

LEMMA WorkerGivesFlow ==
    ASSUME TypeOK, NEW w \in Workers, cur[w] \in EntryIds, NEW r, r # "live",
           result' = [result EXCEPT ![cur[w]] = r], cur' = cur
    PROVE  ~Live(cur[w])'
BY DEF TypeOK, HistoryOK, Live, EntryIds

LEMMA WorkerFlow ==
    ASSUME TypeOK, FramesClear, NEW w \in Workers, Worker(w)
    PROVE  Flow
<1> w \in Fibers /\ w # DrainMonitor
  BY Apart
<1>1. CASE \/ WorkerLoop(w) \/ AwaitLatch(w) \/ TakeNextEmpty(w) \/ WorkerWoken(w)
           \/ RateLimitAwait(w) \/ StartItem(w) \/ EffectExits(w) \/ ReleaseKey(w)
  BY <1>1, WorkerWaitsFlow
<1>2. CASE PollLane(w)
  <2>1. UNCHANGED <<hand, kept, op>> /\ pc[w] = "poll"
    BY <1>2 DEF PollLane
  <2>2. \/ UNCHANGED <<pc, cur>>
        \/ /\ \E label \in {"latch2", "check"} : GoTo(w, label)
           /\ \/ UNCHANGED cur
              \/ \E e : cur' = [cur EXCEPT ![w] = e]
    BY <1>2, Zenon DEF PollLane
  <2>3. pc'[w] \in {"poll", "latch2", "check"} /\ \A g \in Fibers \ {w} : pc'[g] = pc[g]
    BY <2>1, <2>2, FrameOf
  <2>4. \A g \in Fibers \ {w} : cur'[g] = cur[g]
    BY <2>2, FrameOf
  <2>5. Alone(w)
    BY <2>1, <2>3, <2>4 DEF Alone, OthersFrame, SameFrame
  <2>6. WorkFlow(w)
    BY <2>1, <2>3
       DEF WorkFlow, Done, Holds, HasPermit, InBody, Enqueuing, EnqueueLabels
  <2> QED
    BY <2>1, <2>5, <2>6, EmptyHandedFlow, AloneFlow DEF HandLabels
<1>3. CASE CtxEnqueue(w) \/ RetryRelease(w) \/ ReleasePermit(w)
  <2>1. /\ UNCHANGED <<hand, kept>> /\ OthersFrame(w)
        /\ \/ pc[w] = "run" /\ pc'[w] = "enq" /\ op'[w] = "ctx"
           \/ pc[w] = "requeue" /\ pc'[w] = "enq" /\ op'[w] = "retry" /\ cur'[w] = cur[w]
           \/ pc[w] = "permit" /\ pc'[w] = "fin1"
    <3>0. \A o, items, level, e : CallEnqueue(w, o, items, level, e) =>
            pc'[w] = "enq" /\ op'[w] = o /\ cur'[w] = e /\ OthersFrame(w)
      BY DEF TypeOK, FramesOK, CallEnqueue, OthersFrame, SameFrame
    <3>1. CASE CtxEnqueue(w)
      BY <3>0, <3>1, Zenon DEF CtxEnqueue
    <3>2. CASE RetryRelease(w)
      BY <3>0, <3>2, Zenon DEF RetryRelease
    <3>3. CASE ReleasePermit(w)
      BY Zenon, <3>3, FrameOf DEF ReleasePermit, OthersFrame, SameFrame
    <3> QED
      BY <1>3, <3>1, <3>2, <3>3
  <2>2. WorkFlow(w)
    BY <2>1 DEF WorkFlow, Done, Holds, HasPermit, InBody, Enqueuing, EnqueueLabels
  <2> QED
    BY <2>1, <2>2, EmptyHandedFlow, AloneFlow DEF HandLabels, Alone
<1>4. CASE SkipRateLimitedItem(w)
  <2>1. /\ UNCHANGED <<hand, kept, op>> /\ pc[w] = "skip"
        /\ GoTo(w, "fin1") /\ cur' = [cur EXCEPT ![w] = 0]
    BY <1>4 DEF SkipRateLimitedItem
  <2>2. pc'[w] = "fin1" /\ Alone(w)
    BY Zenon, <2>1, FrameOf DEF Alone, OthersFrame, SameFrame
  <2>3. WorkFlow(w)
    BY <2>2 DEF WorkFlow, Done, Holds, HasPermit, InBody, Enqueuing, EnqueueLabels
  <2> QED
    BY <2>1, <2>2, <2>3, EmptyHandedFlow, AloneFlow DEF HandLabels
<1>5. CASE SettleItem(w) \/ DisposeFailure(w)
  <2>1. UNCHANGED <<hand, kept, cur>> /\ pc[w] \in {"settle", "dispose"}
    BY <1>5 DEF SettleItem, DisposeFailure
  <2>2. \/ GoTo(w, "dispose") /\ UNCHANGED op
        \/ /\ \E label \in {"requeue", "empty"} : GoTo(w, label)
           /\ \E v : op' = [op EXCEPT ![w] = v]
           /\ \E r : r # "live" /\ result' = [result EXCEPT ![cur[w]] = r]
    BY <1>5 DEF SettleItem, DisposeFailure
  <2>3. cur[w] \in EntryIds
    BY <2>1 DEF TypeOK, FrameOK, WorksOnEntry, Holds
  <2>4. /\ \A g \in Fibers \ {w} : pc'[g] = pc[g]
        /\ pc'[w] \in {"dispose", "requeue", "empty"}
        /\ pc'[w] # "dispose" => ~Live(cur[w])'
    <3>1. CASE GoTo(w, "dispose")
      BY Zenon, <3>1, FrameOf
    <3>2. CASE /\ \E label \in {"requeue", "empty"} : GoTo(w, label)
               /\ \E r : r # "live" /\ result' = [result EXCEPT ![cur[w]] = r]
      <4>1. ~Live(cur[w])'
        BY <2>1, <2>3, <3>2, WorkerGivesFlow
      <4>2. PICK label \in {"requeue", "empty"} : pc' = [pc EXCEPT ![w] = label]
        BY <3>2
      <4>3. pc'[w] = label /\ \A g \in Fibers \ {w} : pc'[g] = pc[g]
        BY <4>2, FrameOf
      <4> QED
        BY <4>1, <4>3
    <3> QED
      BY <2>2, <3>1, <3>2
  <2>5. \A g \in Fibers \ {w} : op'[g] = op[g]
    BY <2>2, FrameOf
  <2>6. Alone(w)
    BY <2>1, <2>4, <2>5 DEF Alone, OthersFrame, SameFrame
  <2>7. WorkFlow(w)
    BY <2>1, <2>4 DEF WorkFlow, Done, Holds, HasPermit, InBody, Enqueuing, EnqueueLabels
  <2> QED
    BY <2>1, <2>6, <2>7, EmptyHandedFlow, AloneFlow DEF HandLabels
<1> QED
  BY <1>1, <1>2, <1>3, <1>4, <1>5 DEF Worker

LEMMA MonitorFlow ==
    ASSUME TypeOK, FramesClear, Monitor
    PROVE  Flow
<1>1. DrainMonitor \in Fibers /\ DrainMonitor \notin Workers
  BY FibersAssumption
<1>2. /\ UNCHANGED <<hand, kept>> /\ pc[DrainMonitor] \notin HandLabels
      /\ pc[DrainMonitor] # "off"
  BY DEF Monitor, MonitorLoop, MonitorWoken, MonitorCheck, MonitorLoad, HandLabels
<1>3. OthersFrame(DrainMonitor)
  <2>1. CASE MonitorLoop \/ MonitorWoken \/ MonitorCheck
    BY <1>1, <2>1, FrameOf
       DEF MonitorLoop, MonitorWoken, MonitorCheck, OthersFrame, SameFrame
  <2>2. CASE MonitorLoad
    BY <1>1, <2>2 DEF MonitorLoad, CallEnqueue, TypeOK, FramesOK, OthersFrame, SameFrame
  <2> QED
    BY <2>1, <2>2 DEF Monitor
<1> QED
  BY <1>1, <1>2, <1>3, EmptyHandedFlow, AloneFlow DEF Alone

LEMMA SubroutineFlow ==
    ASSUME TypeOK, FramesClear, NEW f \in Fibers, Subroutine(f)
    PROVE  Flow
<1>1. CASE \/ EnqueueShutdownCheck(f) \/ DedupDone(f) \/ SignalWorkerWake(f)
           \/ SignalDrainWake(f) \/ WakeDrainedIfEmpty(f) \/ FinalizeRead(f)
           \/ FinalizeSet(f)
  <2>1. /\ UNCHANGED <<hand, kept>>
        /\ OthersFrame(f)
        /\ f \in Workers => cur'[f] = cur[f]
        /\ pc[f] # "off"
    BY <1>1, SubroutineFrame, SubroutineMoves
  <2>2. ASSUME f \in Workers PROVE WorkFlow(f)
    <3>0. f \notin Clients /\ f # DrainMonitor
      BY <2>2, Apart
    <3>1. pc[f] \in EnqueueLabels => op[f] \in {"ctx", "retry"}
      BY <2>2 DEF TypeOK, FrameOK
    <3>2. CASE /\ pc[f] \in {"enq", "dedup", "wake1"}
               /\ pc'[f] \in {"dedup", "offer", "wake2"} /\ op'[f] = op[f]
      BY <2>1, <2>2, <3>2
         DEF WorkFlow, Done, Holds, HasPermit, InBody, Enqueuing, EnqueueLabels
    <3>3. CASE pc[f] \in {"enq", "dedup", "wake2"} /\ Return(f, AfterEnqueue(f))
      <4>1. pc'[f] = IF op[f] = "ctx" THEN "run" ELSE "empty"
        BY <3>0, <3>3, ReturnsFrame DEF AfterEnqueue
      <4> QED
        BY <2>1, <2>2, <3>1, <3>3, <4>1
           DEF WorkFlow, Done, Holds, HasPermit, InBody, Enqueuing, EnqueueLabels
    <3>4. CASE /\ pc[f] \in {"empty", "drain1"}
               /\ pc'[f] \in {"drain1", "drain2"} /\ op'[f] = op[f]
      BY <2>1, <2>2, <3>4
         DEF WorkFlow, Done, Holds, HasPermit, InBody, Enqueuing, EnqueueLabels
    <3>5. CASE pc[f] \in {"empty", "drain2"} /\ Return(f, AfterDrainWake(f))
      <4>1. pc'[f] \in {"empty", "permit"}
        BY <2>2, <3>5, ReturnsFrame DEF AfterDrainWake
      <4> QED
        BY <2>1, <2>2, <3>5, <4>1
           DEF WorkFlow, Done, Holds, HasPermit, InBody, Enqueuing, EnqueueLabels
    <3>6. CASE \/ pc[f] = "fin1" /\ pc'[f] = "fin2" /\ op'[f] = op[f]
               \/ pc[f] \in {"fin1", "fin2"} /\ Return(f, AfterFinalize(f))
      <4>1. pc[f] \in {"fin1", "fin2"} /\ pc'[f] \in {"fin2", "loop"}
        BY <2>2, <3>6, ReturnsFrame DEF AfterFinalize
      <4> QED
        BY <4>1 DEF WorkFlow, Done, Holds, HasPermit, InBody, Enqueuing, EnqueueLabels
    <3>7. AfterWorkerWake(f) = AfterEnqueue(f)
      BY <3>0 DEF AfterWorkerWake
    <3> QED
      BY <1>1, <3>2, <3>3, <3>4, <3>5, <3>6, <3>7, SubroutineMoves
  <2>3. HandFlow(f)
    <3>1. CASE pc[f] \notin HandLabels
      BY <2>1, <3>1, EmptyHandedFlow
    <3>2. CASE DedupDone(f)
      <4>1. pc[f] = "dedup" /\ (hand[f] = <<>> \/ GoTo(f, "offer"))
        BY <3>2 DEF DedupDone
      <4>2. hand[f] = <<>> \/ pc'[f] = "offer"
        BY <4>1, FrameOf
      <4> QED
        BY <2>1, <4>1, <4>2 DEF FramesClear, HandFlow, HandLabels, KeptLabels, Offers
    <3>3. DedupDone(f) \/ pc[f] \notin HandLabels
      BY <1>1 DEF EnqueueShutdownCheck, SignalWorkerWake, SignalDrainWake,
                  WakeDrainedIfEmpty, FinalizeRead, FinalizeSet, HandLabels
    <3> QED
      BY <3>1, <3>2, <3>3
  <2> QED
    BY <2>1, <2>2, <2>3, AloneFlow DEF Alone
<1>2. CASE DedupCheck(f) \/ ClaimKey(f)
  <2>1. /\ UNCHANGED <<op, cur, kept>> /\ pc[f] \in {"dedup", "claim"}
        /\ UNCHANGED hand \/ Mint(f)
    BY <1>2, Zenon DEF DedupCheck, ClaimKey
  <2>2. UNCHANGED pc \/ \E label \in {"dedup", "claim"} : GoTo(f, label)
    BY <1>2, Zenon DEF DedupCheck, ClaimKey
  <2>3. pc'[f] \in {"dedup", "claim"} /\ \A g \in Fibers \ {f} : pc'[g] = pc[g]
    BY <2>1, <2>2, FrameOf
  <2>4. \A g \in Fibers \ {f} : hand'[g] = hand[g]
    <3>1. UNCHANGED hand \/ \E v : hand' = [hand EXCEPT ![f] = v]
      BY <2>1 DEF Mint
    <3> QED
      BY <3>1, FrameOf
  <2>5. Alone(f)
    BY <2>1, <2>3, <2>4 DEF Alone, OthersFrame, SameFrame
  <2>6. HandFlow(f)
    BY <2>1, <2>3 DEF FramesClear, HandFlow, HandLabels, KeptLabels, Offers
  <2>7. WorkFlow(f)
    BY <2>1, <2>3 DEF WorkFlow, Done, Holds, HasPermit, InBody, Enqueuing, EnqueueLabels
  <2> QED
    BY <2>1, <2>5, <2>6, <2>7, AloneFlow
<1>3. CASE Offer(f)
  <2>1. /\ UNCHANGED <<op, cur, kept>> /\ pc[f] = "offer" /\ hand[f] # <<>>
        /\ hand' = [hand EXCEPT ![f] = Tail(@)] /\ hand[f] \in Seq(EntryIds)
        /\ GoTo(f, IF Len(hand[f]) = 1 THEN "wake1" ELSE "offer")
    BY <1>3 DEF Offer, TypeOK, FrameOK, PlacesOK
  <2>2. /\ pc'[f] = IF Len(hand[f]) = 1 THEN "wake1" ELSE "offer"
        /\ \A g \in Fibers \ {f} : pc'[g] = pc[g]
    <3>1. PICK label : label = IF Len(hand[f]) = 1 THEN "wake1" ELSE "offer"
      OBVIOUS
    <3>2. pc' = [pc EXCEPT ![f] = label]
      BY <2>1, <3>1
    <3>3. pc'[f] = label /\ \A g \in Fibers \ {f} : pc'[g] = pc[g]
      BY <3>2, FrameOf
    <3> QED
      BY <3>1, <3>3, Zenon
  <2>3. hand'[f] = Tail(hand[f]) /\ \A g \in Fibers \ {f} : hand'[g] = hand[g]
    BY <2>1, FrameOf
  <2>4. Alone(f)
    BY <2>1, <2>2, <2>3 DEF Alone, OthersFrame, SameFrame
  <2>5. hand'[f] # <<>> => Len(hand[f]) # 1
    BY <2>1, <2>3, TailOfOne
  <2>6. HandFlow(f)
    BY <2>1, <2>2, <2>5 DEF FramesClear, HandFlow, HandLabels, KeptLabels, Offers
  <2>7. WorkFlow(f)
    BY <2>1, <2>2 DEF WorkFlow, Done, Holds, HasPermit, InBody, Enqueuing, EnqueueLabels
  <2> QED
    BY <2>1, <2>4, <2>6, <2>7, AloneFlow
<1> QED
  BY <1>1, <1>2, <1>3 DEF Subroutine

(* The other fibers keep their hands through every step of a client.         *)
LEMMA ClientFlow ==
    ASSUME TypeOK, Accounts, FramesClear, MonitorOff, NEW c \in Clients,
           ClientCall(c) \/ ClientStep(c)
    PROVE  Flow
<1> c \in Fibers /\ c \notin Workers /\ c # DrainMonitor
  BY NotWorker
<1>1. CASE \/ CallAdd(c) \/ CallPause(c) \/ CallShutdown(c) \/ CallExtract(c)
           \/ CallStart(c) \/ SetPaused(c) \/ SetShutdown(c) \/ ResetCompleted(c)
           \/ CallEnqueueEntry(c)
  <2>1. /\ UNCHANGED <<hand, kept>> /\ pc[c] \notin HandLabels
        /\ OthersFrame(c)
    <3>1. \A o, label, s : Call(c, o, label, s) =>
            UNCHANGED <<hand, kept>> /\ OthersFrame(c) /\ pc[c] = "idle"
      BY DEF Call, TypeOK, FramesOK, OthersFrame, SameFrame
    <3>2. CASE \/ CallPause(c) \/ CallShutdown(c) \/ CallExtract(c) \/ CallStart(c)
      <4>1. \E o, label, s : Call(c, o, label, s)
        BY <3>2, Zenon DEF CallPause, CallShutdown, CallExtract, CallStart
      <4> QED
        BY <3>1, <4>1 DEF HandLabels
    <3>3. CASE CallAdd(c) \/ CallEnqueueEntry(c)
      <4>1. UNCHANGED <<hand, kept>> /\ pc[c] = "idle"
        BY <3>3 DEF CallAdd, CallEnqueueEntry
      <4>2. \E o, items, level, e : CallEnqueue(c, o, items, level, e)
        BY <3>3, Zenon DEF CallAdd, CallEnqueueEntry
      <4>3. OthersFrame(c)
        BY <4>2 DEF CallEnqueue, TypeOK, FramesOK, OthersFrame, SameFrame
      <4> QED
        BY <4>1, <4>3 DEF HandLabels
    <3>4. CASE SetPaused(c)
      <4>1. /\ UNCHANGED <<hand, kept>> /\ pc[c] \notin HandLabels
            /\ \E label : Return(c, label)
        BY <3>4 DEF SetPaused, HandLabels
      <4> QED
        BY <4>1, ReturnsFrame
    <3>5. CASE SetShutdown(c) \/ ResetCompleted(c)
      <4>1. /\ UNCHANGED <<hand, kept, op, cur>> /\ pc[c] \notin HandLabels
            /\ \E label : pc' = [pc EXCEPT ![c] = label]
        BY <3>5 DEF SetShutdown, ResetCompleted, HandLabels
      <4> QED
        BY <4>1, FrameOf DEF OthersFrame, SameFrame
    <3> QED
      BY <1>1, <3>2, <3>3, <3>4, <3>5
  <2> QED
    BY <2>1, EmptyHandedFlow, AloneFlow DEF Alone
<1>2. CASE \/ RestoreActiveKey(c) \/ RestorePending(c) \/ DrainLane(c) \/ PutBack(c)
           \/ ReleaseKeys(c) \/ EncodeReleased(c)
  <2>1. /\ pc[c] \in {"rekey", "restore", "drain", "putback", "keys", "encode"}
        /\ UNCHANGED op
    BY <1>2 DEF RestoreActiveKey, RestorePending, DrainLane, PutBack, ReleaseKeys,
                EncodeReleased
  <2>2. /\ UNCHANGED pc \/ \E label : pc' = [pc EXCEPT ![c] = label]
        /\ UNCHANGED cur \/ \E v : cur' = [cur EXCEPT ![c] = v]
        /\ UNCHANGED hand \/ \E v : hand' = [hand EXCEPT ![c] = v]
        /\ UNCHANGED kept \/ \E v : kept' = [kept EXCEPT ![c] = v]
    <3>1. CASE RestoreActiveKey(c) \/ RestorePending(c)
      BY <3>1 DEF RestoreActiveKey, RestorePending
    <3>2. CASE DrainLane(c) \/ PutBack(c)
      BY <3>2, Zenon DEF DrainLane, PutBack, NextLane
    <3>3. CASE ReleaseKeys(c) \/ EncodeReleased(c)
      BY <3>3, Zenon DEF ReleaseKeys, EncodeReleased
    <3> QED
      BY <1>2, <3>1, <3>2, <3>3
  <2>3. Alone(c)
    <3>1. \A g \in Fibers \ {c} : pc'[g] = pc[g]
      BY <2>2, FrameOf
    <3>2. \A g \in Fibers \ {c} : cur'[g] = cur[g]
      BY <2>2, FrameOf
    <3>3. \A g \in Fibers \ {c} : hand'[g] = hand[g]
      BY <2>2, FrameOf
    <3>4. \A g \in Fibers \ {c} : kept'[g] = kept[g]
      BY <2>2, FrameOf
    <3> QED
      BY <2>1, <3>1, <3>2, <3>3, <3>4 DEF Alone, OthersFrame, SameFrame
  <2>4. /\ hand'[c] # <<>> =>
              pc'[c] \in {"rekey", "restore", "drain", "putback", "keys", "encode"}
        /\ kept'[c] # <<>> => pc'[c] \in KeptLabels
    <3>0. pc[c] \notin KeptLabels => kept[c] = <<>>
      BY DEF FramesClear
    <3>1. CASE RestoreActiveKey(c)
      <4>1. UNCHANGED <<hand, kept>> /\ pc[c] = "rekey"
        BY <3>1 DEF RestoreActiveKey
      <4>2. hand[c] = <<>> \/ pc' = [pc EXCEPT ![c] = "restore"]
        BY <3>1 DEF RestoreActiveKey
      <4> QED
        BY <3>0, <4>1, <4>2, FrameOf DEF KeptLabels
    <3>2. CASE RestorePending(c)
      <4>1. UNCHANGED kept /\ pc[c] = "restore" /\ pc' = [pc EXCEPT ![c] = "rekey"]
        BY <3>2 DEF RestorePending
      <4> QED
        BY <3>0, <4>1, FrameOf DEF KeptLabels
    <3>3. CASE DrainLane(c)
      <4>1. /\ pc[c] = "drain"
            /\ \/ UNCHANGED pc
               \/ pc' = [pc EXCEPT ![c] = "putback"]
               \/ /\ kept[c] = <<>> /\ UNCHANGED kept
                  /\ \E label \in {"drain", "keys"} : pc' = [pc EXCEPT ![c] = label]
        BY <3>3, Zenon DEF DrainLane, NextLane
      <4>2. CASE UNCHANGED pc \/ pc' = [pc EXCEPT ![c] = "putback"]
        <5>1. pc'[c] \in {"drain", "putback"}
          BY <4>1, <4>2, FrameOf
        <5> QED
          BY <5>1 DEF KeptLabels
      <4>3. CASE /\ kept[c] = <<>> /\ UNCHANGED kept
                 /\ \E label \in {"drain", "keys"} : pc' = [pc EXCEPT ![c] = label]
        <5>1. PICK label \in {"drain", "keys"} : pc' = [pc EXCEPT ![c] = label]
          BY <4>3
        <5>2. pc'[c] = label
          BY <5>1, FrameOf
        <5> QED
          BY <4>3, <5>2
      <4> QED
        BY <4>1, <4>2, <4>3
    <3>4. CASE PutBack(c)
      <4>1. /\ pc[c] = "putback" /\ kept' = [kept EXCEPT ![c] = Tail(@)]
            /\ kept[c] # <<>> /\ kept[c] \in Seq(EntryIds)
        BY <3>4 DEF PutBack, TypeOK, FrameOK, PlacesOK
      <4>2. \/ UNCHANGED pc
            \/ /\ Len(kept[c]) = 1
               /\ \E label \in {"drain", "keys"} : pc' = [pc EXCEPT ![c] = label]
        BY <3>4, Zenon DEF PutBack, NextLane
      <4>3. kept'[c] = Tail(kept[c])
        BY Zenon, <4>1, FrameOf
      <4>4. CASE UNCHANGED pc
        BY <4>1, <4>4 DEF KeptLabels
      <4>5. CASE /\ Len(kept[c]) = 1
                 /\ \E label \in {"drain", "keys"} : pc' = [pc EXCEPT ![c] = label]
        <5>1. PICK label \in {"drain", "keys"} : pc' = [pc EXCEPT ![c] = label]
          BY <4>5
        <5>2. pc'[c] = label
          BY <5>1, FrameOf
        <5>3. kept'[c] = <<>>
          BY <4>1, <4>3, <4>5, TailOfOne
        <5> QED
          BY <5>2, <5>3
      <4> QED
        BY <4>2, <4>4, <4>5
    <3>5. CASE ReleaseKeys(c) \/ EncodeReleased(c)
      <4>1. /\ UNCHANGED kept /\ pc[c] \in {"keys", "encode"}
            /\ \/ \E label \in {"encode", "restore"} : pc' = [pc EXCEPT ![c] = label]
               \/ hand' = [hand EXCEPT ![c] = <<>>]
        BY <3>5 DEF ReleaseKeys, EncodeReleased
      <4>2. kept'[c] = <<>>
        BY <3>0, <4>1 DEF KeptLabels
      <4>3. CASE \E label \in {"encode", "restore"} : pc' = [pc EXCEPT ![c] = label]
        <5>1. PICK label \in {"encode", "restore"} : pc' = [pc EXCEPT ![c] = label]
          BY <4>3
        <5>2. pc'[c] = label
          BY Zenon, <5>1, FrameOf
        <5> QED
          BY <4>2, <5>2
      <4>4. CASE hand' = [hand EXCEPT ![c] = <<>>]
        BY Zenon, <4>2, <4>4, FrameOf
      <4> QED
        BY <4>1, <4>3, <4>4
    <3> QED
      BY <1>2, <3>1, <3>2, <3>3, <3>4, <3>5
  <2>5. HandFlow(c)
    BY <2>1, <2>4 DEF HandFlow, HandLabels, Offers
  <2> QED
    BY <2>3, <2>5, AloneFlow
<1>3. CASE InterruptCall(c)
  <2>1. /\ hand' = [hand EXCEPT ![c] = <<>>] /\ kept' = [kept EXCEPT ![c] = <<>>]
        /\ Return(c, "idle")
    BY <1>3 DEF InterruptCall
  <2>2. hand'[c] = <<>> /\ \A g \in Fibers \ {c} : hand'[g] = hand[g]
    BY <2>1, FrameOf
  <2>3. kept'[c] = <<>> /\ \A g \in Fibers \ {c} : kept'[g] = kept[g]
    BY <2>1, FrameOf
  <2>4. Alone(c)
    BY <2>1, <2>2, <2>3, ReturnsFrame DEF Alone
  <2>5. HandFlow(c)
    BY <2>2, <2>3 DEF HandFlow
  <2> QED
    BY <2>4, <2>5, AloneFlow
<1>4. CASE CallResume(c) \/ DrainModeOpensLatch(c)
  <2>1. /\ UNCHANGED <<hand, kept, cur>> /\ pc[c] \in {"idle", "wind"}
        /\ \E label : OpenLatch(c, label)
        /\ \E v : op' = [op EXCEPT ![c] = v] \/ op' = op
    BY <1>4 DEF CallResume, DrainModeOpensLatch
  <2>2. \A g \in Fibers \ {c} : op'[g] = op[g]
    BY <2>1, FrameOf
  <2>3. \A g \in Fibers \ {c} : pc'[g] = IF pc[g] = "shut1" THEN "poll"
                                         ELSE IF pc[g] = "shut2" THEN "rate" ELSE pc[g]
    BY <2>1 DEF OpenLatch
  <2>4. ASSUME NEW g \in Fibers PROVE HandFlow(g)
    <3>1. CASE g = c
      BY <2>1, <3>1, EmptyHandedFlow DEF HandLabels
    <3>2. CASE g # c
      BY <2>1, <2>3, <3>2 DEF FramesClear, HandFlow, HandLabels, KeptLabels, Offers
    <3> QED
      BY <3>1, <3>2
  <2>5. ASSUME NEW w \in Workers PROVE WorkFlow(w)
    <3>1. w \in Fibers \ {c}
      BY Apart
    <3> QED
      BY <2>1, <2>2, <2>3, <3>1
         DEF WorkFlow, Done, Holds, HasPermit, InBody, Enqueuing, EnqueueLabels
  <2>6. pc[DrainMonitor] = "off" => pc'[DrainMonitor] = "off"
    BY <2>3
  <2> QED
    BY <2>4, <2>5, <2>6 DEF Flow
<1>5. CASE ForkProcessingFibers(c)
  <2>1. /\ UNCHANGED <<hand, kept, cur>> /\ pc[c] = "claimStart"
        /\ op' = [op EXCEPT ![c] = "none"]
        /\ pc' = [IF workersStarted THEN pc ELSE ForkWorkers EXCEPT ![c] = "idle"]
    BY <1>5 DEF ForkProcessingFibers
  <2>2. \A g \in Fibers \ {c} : op'[g] = op[g]
    BY <2>1, FrameOf
  <2>3. ASSUME NEW g \in Fibers \ {c}
        PROVE  pc'[g] = pc[g] \/ (pc[g] = "off" /\ pc'[g] = "loop")
    <3>1. CASE workersStarted \/ g \in Clients
      BY <2>1, <3>1 DEF TypeOK, FramesOK, ForkWorkers
    <3>2. CASE ~workersStarted /\ g \notin Clients
      <4>1. pc[g] = "off"
        BY <3>2 DEF Accounts, Unstarted, MonitorOff
      <4> QED
        BY <2>1, <3>2, <4>1 DEF ForkWorkers
    <3> QED
      BY <3>1, <3>2
  <2>4. ASSUME NEW g \in Fibers PROVE HandFlow(g)
    <3>1. CASE g = c
      BY <2>1, <3>1, EmptyHandedFlow DEF HandLabels
    <3>2. CASE g # c
      BY <2>1, <2>3, <3>2 DEF FramesClear, HandFlow, HandLabels, KeptLabels, Offers
    <3> QED
      BY <3>1, <3>2
  <2>5. ASSUME NEW w \in Workers PROVE WorkFlow(w)
    <3>1. w \in Fibers \ {c}
      BY Apart
    <3> QED
      BY <2>1, <2>2, <2>3, <3>1
         DEF WorkFlow, Done, Holds, HasPermit, InBody, Enqueuing, EnqueueLabels
  <2>6. workersStarted'
    BY <1>5 DEF ForkProcessingFibers
  <2> QED
    BY <2>4, <2>5, <2>6 DEF Flow
<1>6. CASE ClientCall(c)
  BY <1>1, <1>3, <1>4, <1>6 DEF ClientCall
<1>7. CASE ClientStep(c)
  BY <1>1, <1>2, <1>4, <1>5, <1>7 DEF ClientStep
<1> QED
  BY <1>6, <1>7

(* Started workers stay started.                                             *)
LEMMA StartedStays ==
    ASSUME [Next]_vars
    PROVE  workersStarted => workersStarted'
<1>1. ASSUME NEW w \in Workers, Worker(w) PROVE UNCHANGED workersStarted
  BY <1>1, Zenon
     DEF Worker, WorkerLoop, AwaitLatch, PollLane, TakeNextEmpty, WorkerWoken,
         RateLimitAwait, SkipRateLimitedItem, StartItem, CtxEnqueue, EffectExits,
         ReleaseKey, SettleItem, DisposeFailure, RetryRelease, ReleasePermit
<1>2. ASSUME NEW c \in Clients, ClientCall(c)
      PROVE  UNCHANGED workersStarted
  BY <1>2, Zenon
     DEF ClientCall, CallAdd, CallEnqueueEntry, CallPause, CallResume, CallShutdown,
         CallExtract, CallStart, InterruptCall
<1>3. ASSUME NEW c \in Clients, ClientStep(c)
      PROVE  UNCHANGED workersStarted \/ workersStarted'
  BY <1>3, Zenon
     DEF ClientStep, SetPaused, SetShutdown, DrainModeOpensLatch, DrainLane, PutBack,
         ReleaseKeys, ResetCompleted, EncodeReleased, RestorePending,
         RestoreActiveKey, ForkProcessingFibers
<1>4. ASSUME NEW f \in Fibers, Subroutine(f) PROVE UNCHANGED workersStarted
  BY <1>4, Zenon
     DEF Subroutine, EnqueueShutdownCheck, DedupCheck, ClaimKey, DedupDone, Offer,
         SignalWorkerWake, SignalDrainWake, WakeDrainedIfEmpty, FinalizeRead,
         FinalizeSet
<1>5. CASE Monitor
  BY <1>5, Zenon DEF Monitor, MonitorLoop, MonitorWoken, MonitorCheck, MonitorLoad
<1>6. CASE UNCHANGED vars
  BY <1>6 DEF vars
<1> QED
  BY <1>1, <1>2, <1>3, <1>4, <1>5, <1>6 DEF Next, AtRest

LEMMA NextFlow ==
    ASSUME TypeOK, Accounts, FramesClear, MonitorOff, [Next]_vars
    PROVE  Flow
<1>1. CASE UNCHANGED vars
  <2>1. UNCHANGED <<hand, kept, pc, op, cur>>
    BY <1>1 DEF vars
  <2>2. \A f \in Fibers : HandFlow(f)
    BY <2>1 DEF FramesClear, HandFlow, Offers
  <2>3. \A w \in Workers : WorkFlow(w)
    BY <2>1, SameWorkFlow DEF SameFrame
  <2> QED
    BY <2>1, <2>2, <2>3 DEF Flow
<1> QED
  BY <1>1, WorkerFlow, ClientFlow, MonitorFlow, SubroutineFlow DEF Next, AtRest

----------------------------------------------------------------------------
(* The engine implements the life cycle of an entry.                         *)

LEMMA InitFrames == Init => FramesClear /\ MonitorOff /\ Finished
<1> SUFFICES ASSUME Init PROVE FramesClear /\ MonitorOff /\ Finished
  OBVIOUS
<1>1. FramesClear
  BY DEF Init, FramesClear
<1>2. MonitorOff
  BY FibersAssumption DEF Init, MonitorOff
<1>3. Finished
  BY Apart DEF Init, Finished, Done, HasPermit, InBody, Enqueuing, EnqueueLabels
<1> QED
  BY <1>1, <1>2, <1>3

LEMMA StaysEnded ==
    ASSUME Shifted
    PROVE  \A e \in EntryIds : Live(e)' => Live(e)
BY DEF Shifted, NothingMoves, Moved, Minted, Ended, SameLive

LEMMA NextFrames ==
    ASSUME TypeOK, Accounts, Partition, FramesClear, MonitorOff, Finished, [Next]_vars
    PROVE  FramesClear' /\ MonitorOff' /\ Finished'
<1>1. Flow /\ Shifted
  BY NextFlow, NextShifts
<1>2. FramesClear'
  BY <1>1 DEF Flow, HandFlow, FramesClear
<1>3. MonitorOff'
  BY <1>1, StartedStays DEF Flow, MonitorOff
<1>4. ASSUME NEW w \in Workers, Done(w)'
      PROVE  ~Live(cur[w])'
  <2>1. CASE ~Live(cur[w])'
    BY <2>1
  <2>2. CASE Done(w) /\ cur'[w] = cur[w]
    <3>1. cur[w] \in EntryIds
      BY <2>2, Apart DEF Done, TypeOK, FrameOK, WorksOnEntry
    <3>2. ~Live(cur[w])
      BY <2>2 DEF Finished
    <3> QED
      BY <1>1, <2>2, <3>1, <3>2, StaysEnded DEF Live
  <2> QED
    BY <1>1, <1>4, <2>1, <2>2 DEF Flow, WorkFlow
<1> QED
  BY <1>2, <1>3, <1>4 DEF Finished

(* StatusOf tells where an entry is.                                         *)
StatusTold ==
    \A e \in EntryIds :
        /\ ~Live(e) => StatusOf(e) = "ended"
        /\ \A p \in Places : e \in Content(p) => StatusOf(e) = StatusAt(p)

LEMMA StatusIsTold == Partition /\ Finished => StatusTold
<1> SUFFICES ASSUME Partition, Finished, NEW e \in EntryIds
             PROVE  /\ ~Live(e) => StatusOf(e) = "ended"
                    /\ \A p \in Places : e \in Content(p) => StatusOf(e) = StatusAt(p)
  BY DEF StatusTold
<1> DEFINE inLane   == \E l \in Levels : e \in Range(lanes[l])
           inWorker == \E w \in Workers : Holds(w) /\ cur[w] = e
           offered  == \E f \in Fibers : e \in Range(hand[f]) /\ Offers(f)
           runs     == \E w \in Workers : cur[w] = e /\ HasPermit(w)
<1>0. StatusOf(e) = CASE result[e] # "live" -> "ended"
                      [] inLane -> "queued"
                      [] inWorker -> IF runs THEN "running" ELSE "taken"
                      [] offered -> "offering"
                      [] OTHER -> "pulled"
  BY DEF StatusOf, Offers
<1>1. ASSUME ~Live(e) PROVE StatusOf(e) = "ended"
  <2>1. \A p \in Places : e \notin Content(p)
    BY <1>1 DEF Partition, LiveIsPlaced
  <2>2. ~inLane /\ ~inWorker /\ ~offered
    BY <2>1, PlaceNames DEF Under
  <2> HIDE DEF inLane, inWorker, offered, runs
  <2> QED
    BY <1>0, <1>1, <2>2 DEF Live
<1>2. ASSUME NEW p \in Places, e \in Content(p) PROVE StatusOf(e) = StatusAt(p)
  <2>0. result[e] = "live"
    BY <1>2 DEF Partition, LiveIsPlaced, Live
  <2>1. \A q \in Places : e \in Content(q) <=> q = p
    BY <1>2 DEF Partition, PlacesApart
  <2>2. inLane <=> \E l \in Levels : p = Lane(l)
    BY <2>1, PlaceNames
  <2>3. inWorker <=> \E w \in Workers : p = Worked(w)
    <3>1. \A w \in Workers : (Holds(w) /\ cur[w] = e) <=> e \in Content(Worked(w))
      BY PlaceNames DEF Under
    <3> QED
      BY <2>1, <3>1, PlaceNames
  <2>4. \A f \in Fibers : e \in Range(hand[f]) <=> p = Hand(f)
    BY <2>1, PlaceNames
  <2>5. CASE \E l \in Levels : p = Lane(l)
    <3>1. inLane /\ ~inWorker /\ ~offered
      BY <2>2, <2>3, <2>4, <2>5, DistinctPlaces
    <3>2. StatusAt(p) = "queued"
      BY <2>5 DEF StatusAt, Lane
    <3> HIDE DEF inLane, inWorker, offered, runs
    <3> QED
      BY <1>0, <2>0, <3>1, <3>2
  <2>6. ASSUME NEW w \in Workers, p = Worked(w)
        PROVE  StatusOf(e) = StatusAt(p)
    <3>1. ~inLane /\ inWorker /\ ~offered
      BY <2>2, <2>3, <2>4, <2>6, DistinctPlaces
    <3>2. Holds(w) /\ cur[w] = e
      BY <1>2, <2>6, PlaceNames DEF Under
    <3>3. \A v \in Workers : cur[v] = e /\ HasPermit(v) => v = w
      <4>1. SUFFICES ASSUME NEW v \in Workers, cur[v] = e, HasPermit(v)
                     PROVE  v = w
        OBVIOUS
      <4>2. Holds(v)
        BY <2>0, <4>1 DEF Finished, Done, Live
      <4>3. e \in Content(Worked(v))
        BY <4>1, <4>2, PlaceNames DEF Under
      <4> QED
        BY <2>1, <2>6, <4>3, PlaceNames, DistinctPlaces
    <3>4. StatusAt(p) = IF HasPermit(w) THEN "running" ELSE "taken"
      BY <2>6 DEF StatusAt, Worked
    <3>5. runs <=> HasPermit(w)
      BY <3>2, <3>3
    <3> HIDE DEF inLane, inWorker, offered, runs
    <3> QED
      BY <1>0, <2>0, <3>1, <3>4, <3>5
  <2>7. ASSUME NEW f \in Fibers, p = Hand(f)
        PROVE  StatusOf(e) = StatusAt(p)
    <3>1. ~inLane /\ ~inWorker
      BY <2>2, <2>3, <2>7, DistinctPlaces
    <3>2. offered <=> Offers(f)
      <4>1. \A g \in Fibers : e \in Range(hand[g]) <=> g = f
        BY <2>4, <2>7, DistinctPlaces
      <4> QED
        BY <4>1
    <3>3. StatusAt(p) = IF Offers(f) THEN "offering" ELSE "pulled"
      BY <2>7 DEF StatusAt, Hand
    <3> HIDE DEF inLane, inWorker, offered, runs
    <3> QED
      BY <1>0, <2>0, <3>1, <3>2, <3>3
  <2>8. ASSUME NEW f \in Fibers, p = KeptBy(f)
        PROVE  StatusOf(e) = StatusAt(p)
    <3>1. ~inLane /\ ~inWorker /\ ~offered
      BY <2>2, <2>3, <2>4, <2>8, DistinctPlaces
    <3>2. StatusAt(p) = "pulled"
      BY <2>8 DEF StatusAt, KeptBy
    <3> HIDE DEF inLane, inWorker, offered, runs
    <3> QED
      BY <1>0, <2>0, <3>1, <3>2
  <2> QED
    BY <2>5, <2>6, <2>7, <2>8, PlaceNames
<1> QED
  BY <1>1, <1>2

(* An entry that stays where it is keeps its status, or starts to run.       *)
LEMMA StatusKept ==
    ASSUME Flow, NEW p \in Places, NEW e, e \in Content(p), e \in Content(p)'
    PROVE  Lifecycle!Keeps(StatusAt(p), StatusAt(p)')
<1>1. CASE \E l \in Levels : p = Lane(l)
  BY <1>1 DEF StatusAt, Lane, Lifecycle!Keeps
<1>2. CASE \E f \in Fibers : p = KeptBy(f)
  BY <1>2 DEF StatusAt, KeptBy, Lifecycle!Keeps
<1>3. CASE \E f \in Fibers : p = Hand(f)
  <2>1. PICK f \in Fibers : p = Hand(f)
    BY <1>3
  <2>2. e \in Range(hand[f]) /\ e \in Range(hand'[f])
    BY <2>1, PlaceNames, PlaceNamesNext
  <2>3. hand[f] # <<>> /\ hand'[f] # <<>>
    BY <2>2, EmptyRange
  <2>4. Offers(f)' <=> Offers(f)
    BY <2>3 DEF Flow, HandFlow
  <2> QED
    BY <2>1, <2>4 DEF StatusAt, Hand, Lifecycle!Keeps
<1>4. CASE \E w \in Workers : p = Worked(w)
  <2>1. PICK w \in Workers : p = Worked(w)
    BY <1>4
  <2>2. Holds(w) /\ Holds(w)'
    BY <2>1, PlaceNames, PlaceNamesNext DEF Under
  <2>3. HasPermit(w) => HasPermit(w)'
    BY <2>2 DEF Flow, WorkFlow
  <2> QED
    BY <2>1, <2>3 DEF StatusAt, Worked, Lifecycle!Keeps, Lifecycle!Moves
<1> QED
  BY <1>1, <1>2, <1>3, <1>4, PlaceNames

LEMMA EntryKeeps ==
    ASSUME Partition, Flow, Shifted, StatusTold, StatusTold', NEW e \in EntryIds
    PROVE  e \in EntryIds' /\ Lifecycle!Keeps(StatusOf(e), StatusOf(e)')
<1>1. e \in EntryIds'
  BY DEF Shifted, NothingMoves, Moved, Minted, Ended, SameEntries
<1>2. CASE ~Live(e)
  <2>1. ~Live(e)'
    BY <1>2, StaysEnded
  <2> QED
    BY <1>1, <1>2, <2>1 DEF StatusTold, Lifecycle!Keeps
<1>3. CASE Live(e)
  <2>1. PICK p \in Places : e \in Content(p)
    BY <1>3 DEF Partition, LiveIsPlaced
  <2>2. \A q \in Places : e \in Content(q) => q = p
    BY <2>1 DEF Partition, PlacesApart
  <2>3. StatusOf(e) = StatusAt(p)
    BY <2>1 DEF StatusTold
  <2>4. ASSUME e \in Content(p)' PROVE Lifecycle!Keeps(StatusOf(e), StatusOf(e)')
    <3>1. StatusOf(e)' = StatusAt(p)'
      BY <1>1, <2>4 DEF StatusTold
    <3> QED
      BY <2>1, <2>3, <2>4, <3>1, StatusKept
  <2>5. CASE NothingMoves
    BY <1>1, <2>1, <2>4, <2>5 DEF NothingMoves, Elsewhere
  <2>6. ASSUME NEW x \in EntryIds, NEW a \in Places, NEW b \in Places, Moved(x, a, b)
        PROVE  Lifecycle!Keeps(StatusOf(e), StatusOf(e)')
    <3>1. CASE x = e
      <4>1. a = p /\ e \in Content(b)'
        BY <2>2, <2>6, <3>1 DEF Moved
      <4>2. StatusOf(e)' = StatusAt(b)'
        BY <1>1, <4>1 DEF StatusTold
      <4> QED
        BY <2>3, <2>6, <4>1, <4>2 DEF Moved, Lifecycle!Keeps
    <3>2. CASE x # e
      BY <2>1, <2>4, <2>6, <3>2 DEF Moved, Elsewhere
    <3> QED
      BY <3>1, <3>2
  <2>7. ASSUME NEW q \in Places, Minted(Len(entry) + 1, q)
        PROVE  Lifecycle!Keeps(StatusOf(e), StatusOf(e)')
    BY <2>1, <2>4, <2>7 DEF Minted, Elsewhere
  <2>8. ASSUME NEW P \in SUBSET Places, Ended(P)
        PROVE  Lifecycle!Keeps(StatusOf(e), StatusOf(e)')
    <3>1. CASE p \in P
      <4>1. ~Live(e)'
        BY <2>1, <2>8, <3>1 DEF Ended
      <4>2. StatusOf(e)' = "ended"
        BY <1>1, <4>1 DEF StatusTold
      <4> QED
        BY <2>3, <2>8, <3>1, <4>2 DEF Ended, Lifecycle!Keeps
    <3>2. CASE p \notin P
      BY <2>1, <2>4, <2>8, <3>2 DEF Ended, Elsewhere
    <3> QED
      BY <3>1, <3>2
  <2> QED
    BY <1>1, <2>5, <2>6, <2>7, <2>8 DEF Shifted
<1> QED
  BY <1>2, <1>3

Statuses == [e \in EntryIds |-> StatusOf(e)]

LEMMA LastId == \A k, m \in Nat : 1..m = 1..k => m = k
<1> SUFFICES ASSUME NEW k \in Nat, NEW m \in Nat, 1..m = 1..k PROVE m = k
  OBVIOUS
<1>1. m \in 1..m \/ m = 0
  OBVIOUS
<1>2. k \in 1..k \/ k = 0
  OBVIOUS
<1>3. m <= k /\ k <= m
  BY <1>1, <1>2
<1> QED
  BY <1>3

LEMMA StatusesDomain ==
    TypeOK => Len(Statuses) = Len(entry) /\ Len(entry) \in Nat
<1> SUFFICES ASSUME TypeOK PROVE Len(Statuses) = Len(entry) /\ Len(entry) \in Nat
  OBVIOUS
<1>1. Len(entry) \in Nat
  BY DEF TypeOK, StoreOK
<1>2. DOMAIN Statuses = 1..Len(entry)
  BY DEF Statuses, EntryIds
<1> QED
  BY <1>1, <1>2

LEMMA StatusesDomainNext ==
    TypeOK' => (Len(Statuses) = Len(entry) /\ Len(entry) \in Nat)'
BY StatusesDomain, PTL

LEMMA LifecycleNext ==
    ASSUME TypeOK, TypeOK', Partition, Flow, Shifted, StatusTold, StatusTold'
    PROVE  Lifecycle!Next
<1>1. /\ Len(Statuses) = Len(entry) /\ Len(entry) \in Nat
      /\ Len(Statuses') = Len(entry') /\ Len(entry') \in Nat
  BY StatusesDomain, StatusesDomainNext
<1>2. \A e \in 1..Len(entry) : Lifecycle!Keeps(Statuses[e], Statuses'[e])
  BY EntryKeeps DEF Statuses, EntryIds
<1>3. \/ Len(entry') = Len(entry)
      \/ Len(entry') = Len(entry) + 1 /\ Statuses'[Len(entry) + 1] = "offering"
  <2>1. CASE EntryIds' = EntryIds
    BY <1>1, <2>1, LastId DEF EntryIds
  <2>2. ASSUME NEW q \in Places, Minted(Len(entry) + 1, q)
        PROVE  Len(entry') = Len(entry) + 1 /\ Statuses'[Len(entry) + 1] = "offering"
    <3>1. PICK n : n = Len(entry) + 1
      OBVIOUS
    <3>2. EntryIds' = EntryIds \cup {n} /\ n \in EntryIds' /\ n \in Content(q)'
      BY <2>2, <3>1 DEF Minted
    <3>3. StatusOf(n)' = "offering"
      BY <2>2, <3>1, <3>2 DEF StatusTold, Minted
    <3>4. 1..Len(entry') = 1..n /\ n \in Nat
      <4>1. 1..n = (1..Len(entry)) \cup {n} /\ n \in Nat
        BY <1>1, <3>1
      <4> QED
        BY <3>2, <4>1 DEF EntryIds
    <3>5. Len(entry') = n
      BY <1>1, <3>4, LastId
    <3> QED
      BY <3>1, <3>2, <3>3, <3>5 DEF Statuses
  <2> QED
    BY <2>1, <2>2 DEF Shifted, NothingMoves, Moved, Ended, SameEntries
<1>4. \A e \in Len(entry) + 1 .. Len(entry') : Statuses'[e] = "offering"
  BY <1>1, <1>3
<1> QED
  BY <1>1, <1>2, <1>3, <1>4 DEF Lifecycle!Next, Statuses

LEMMA InitLifecycle == Init => Lifecycle!Init
<1> SUFFICES ASSUME Init PROVE Statuses = <<>>
  BY DEF Lifecycle!Init, Statuses
<1>1. EntryIds = {}
  BY DEF Init, EntryIds
<1> QED
  BY <1>1 DEF Statuses

Frames == FramesClear /\ MonitorOff /\ Finished

LEMMA StatusToldNext == Partition' /\ Finished' => StatusTold'
BY StatusIsTold, PTL

LEMMA NextLifecycle ==
    /\ TypeOK /\ TypeOK'
    /\ Accounts /\ Partition /\ Partition' /\ Frames /\ Frames'
    /\ [Next]_vars
    => [Lifecycle!Next]_[e \in EntryIds |-> StatusOf(e)]
<1> SUFFICES ASSUME TypeOK, TypeOK', Accounts, Partition, Partition', Frames, Frames',
                    [Next]_vars
             PROVE  Lifecycle!Next
  OBVIOUS
<1>1. Flow /\ Shifted
  BY NextFlow, NextShifts DEF Frames
<1>2. StatusTold /\ StatusTold'
  BY StatusIsTold, StatusToldNext DEF Frames
<1> QED
  BY <1>1, <1>2, LifecycleNext

(* The engine implements the life cycle of an entry: whatever the workers,   *)
(* the clients and their interruptions do, every entry is offered, queued,   *)
(* taken by one worker, run at most once and ended, in this order; a queued  *)
(* one may be pulled out and put back, a taken one never is.                 *)
THEOREM ImplementsLifecycle == Spec => FollowsLifecycle
<1>1. Init => (Accounts /\ Partition /\ Frames) /\ Lifecycle!Init
  BY InitAccounts, InitPartition, InitFrames, InitLifecycle DEF Frames
<1>2. TypeOK /\ (Accounts /\ Partition /\ Frames) /\ [Next]_vars
        => (Accounts /\ Partition /\ Frames)'
  BY NextAccounts, NextPartition, NextFrames DEF Frames
<1>3. /\ TypeOK /\ TypeOK'
      /\ (Accounts /\ Partition /\ Frames) /\ (Accounts /\ Partition /\ Frames)'
      /\ [Next]_vars
      => [Lifecycle!Next]_[e \in EntryIds |-> StatusOf(e)]
  BY NextLifecycle
<1> QED
  BY <1>1, <1>2, <1>3, TypeCorrect, PTL DEF Spec, FollowsLifecycle, Lifecycle!Spec

----------------------------------------------------------------------------
(* The attempts and the dedup keys of the entries of QueueEngine, for any    *)
(* number of workers, clients, lanes and items and every configuration.      *)

----------------------------------------------------------------------------
(* A step of a fiber leaves the frames of the other fibers alone.            *)

LocalTo(f) ==
    OthersFrame(f) /\ \A g \in Fibers \ {f} : todo'[g] = todo[g]

LEMMA LocalFrames ==
    ASSUME TypeOK, NEW f \in Fibers,
           UNCHANGED pc \/ \E v : pc' = [pc EXCEPT ![f] = v],
           UNCHANGED op \/ \E v : op' = [op EXCEPT ![f] = v],
           UNCHANGED cur \/ \E v : cur' = [cur EXCEPT ![f] = v],
           UNCHANGED todo \/ \E v : todo' = [todo EXCEPT ![f] = v]
    PROVE  LocalTo(f)
<1>1. \A g \in Fibers \ {f} : pc'[g] = pc[g]
  BY FrameOf
<1>2. \A g \in Fibers \ {f} : op'[g] = op[g]
  BY FrameOf
<1>3. \A g \in Fibers \ {f} : cur'[g] = cur[g]
  BY FrameOf
<1>4. \A g \in Fibers \ {f} : todo'[g] = todo[g]
  BY DEF TypeOK, FramesOK
<1> QED
  BY <1>1, <1>2, <1>3, <1>4 DEF LocalTo, OthersFrame, SameFrame

LEMMA WorkerLocal ==
    ASSUME TypeOK, NEW w \in Workers, Worker(w)
    PROVE  LocalTo(w)
<1> w \in Fibers
  BY Apart
<1>1. CASE WorkerLoop(w) \/ AwaitLatch(w) \/ TakeNextEmpty(w) \/ WorkerWoken(w)
  BY <1>1, LocalFrames DEF WorkerLoop, AwaitLatch, TakeNextEmpty, WorkerWoken
<1>2. CASE PollLane(w)
  <2>1. /\ UNCHANGED <<op, todo>>
        /\ UNCHANGED pc \/ \E v : pc' = [pc EXCEPT ![w] = v]
        /\ UNCHANGED cur \/ \E v : cur' = [cur EXCEPT ![w] = v]
    BY <1>2, Zenon DEF PollLane
  <2> QED
    BY <2>1, LocalFrames
<1>3. CASE RateLimitAwait(w) \/ SkipRateLimitedItem(w) \/ StartItem(w)
  BY <1>3, LocalFrames DEF RateLimitAwait, SkipRateLimitedItem, StartItem
<1>4. CASE CtxEnqueue(w) \/ RetryRelease(w)
  <2>1. \E o, items, level, e : CallEnqueue(w, o, items, level, e)
    BY <1>4, Zenon DEF CtxEnqueue, RetryRelease
  <2> QED
    BY <2>1, LocalFrames DEF CallEnqueue
<1>5. CASE EffectExits(w) \/ ReleaseKey(w) \/ ReleasePermit(w)
  BY <1>5, LocalFrames DEF EffectExits, ReleaseKey, ReleasePermit
<1>6. CASE SettleItem(w) \/ DisposeFailure(w)
  BY <1>6, LocalFrames DEF SettleItem, DisposeFailure
<1> QED
  BY <1>1, <1>2, <1>3, <1>4, <1>5, <1>6 DEF Worker

LEMMA MonitorLocal ==
    ASSUME TypeOK, Monitor
    PROVE  LocalTo(DrainMonitor)
<1> DrainMonitor \in Fibers
  BY DEF Fibers
<1>1. CASE MonitorLoop \/ MonitorWoken \/ MonitorCheck
  BY <1>1, LocalFrames DEF MonitorLoop, MonitorWoken, MonitorCheck
<1>2. CASE MonitorLoad
  BY <1>2, LocalFrames DEF MonitorLoad, CallEnqueue
<1> QED
  BY <1>1, <1>2 DEF Monitor

LEMMA ReturnLocal ==
    ASSUME TypeOK, NEW f \in Fibers, NEW label, Return(f, label),
           UNCHANGED todo \/ \E v : todo' = [todo EXCEPT ![f] = v]
    PROVE  LocalTo(f)
<1>1. \A g \in Fibers \ {f} : todo'[g] = todo[g]
  BY DEF TypeOK, FramesOK
<1> QED
  BY <1>1, ReturnsFrame DEF LocalTo

LEMMA SubroutineLocal ==
    ASSUME TypeOK, NEW f \in Fibers, Subroutine(f)
    PROVE  LocalTo(f)
<1>1. CASE EnqueueShutdownCheck(f)
  <2>1. \/ Return(f, AfterEnqueue(f)) /\ \E v : todo' = [todo EXCEPT ![f] = v]
        \/ GoTo(f, "dedup") /\ UNCHANGED <<op, cur, todo>>
    BY <1>1 DEF EnqueueShutdownCheck
  <2> QED
    BY <2>1, LocalFrames, ReturnLocal
<1>2. CASE \/ DedupDone(f) \/ SignalWorkerWake(f) \/ SignalDrainWake(f)
           \/ WakeDrainedIfEmpty(f) \/ FinalizeRead(f) \/ FinalizeSet(f)
  <2>1. /\ UNCHANGED todo
        /\ \/ \E label : Return(f, label)
           \/ UNCHANGED <<op, cur>> /\ \E label : GoTo(f, label)
    <3>1. CASE DedupDone(f)
      BY <3>1, Zenon DEF DedupDone
    <3>2. CASE SignalWorkerWake(f) \/ SignalDrainWake(f)
      BY <3>2, Zenon DEF SignalWorkerWake, SignalDrainWake
    <3>3. CASE WakeDrainedIfEmpty(f) \/ FinalizeRead(f) \/ FinalizeSet(f)
      BY <3>3, Zenon DEF WakeDrainedIfEmpty, FinalizeRead, FinalizeSet
    <3> QED
      BY <1>2, <3>1, <3>2, <3>3
  <2> QED
    BY <2>1, LocalFrames, ReturnLocal
<1>3. CASE DedupCheck(f) \/ ClaimKey(f)
  <2>1. /\ UNCHANGED <<op, cur>>
        /\ UNCHANGED pc \/ \E v : pc' = [pc EXCEPT ![f] = v]
        /\ UNCHANGED todo \/ \E v : todo' = [todo EXCEPT ![f] = v]
    BY <1>3, Zenon DEF DedupCheck, ClaimKey, Mint
  <2> QED
    BY <2>1, LocalFrames
<1>4. CASE Offer(f)
  BY <1>4, LocalFrames DEF Offer
<1> QED
  BY <1>1, <1>2, <1>3, <1>4 DEF Subroutine

(* Only opening the latch and forking reach other fibers.                    *)
ReachesOthers(c) ==
    CallResume(c) \/ DrainModeOpensLatch(c) \/ ForkProcessingFibers(c)

LEMMA ClientLocal ==
    ASSUME TypeOK, NEW c \in Clients, ClientCall(c) \/ ClientStep(c), ~ReachesOthers(c)
    PROVE  LocalTo(c)
<1> c \in Fibers
  BY NotWorker
<1>1. CASE CallAdd(c) \/ CallEnqueueEntry(c)
  <2>1. \E o, items, level, e : CallEnqueue(c, o, items, level, e)
    BY <1>1, Zenon DEF CallAdd, CallEnqueueEntry
  <2> QED
    BY <2>1, LocalFrames DEF CallEnqueue
<1>2. CASE CallPause(c) \/ CallShutdown(c) \/ CallExtract(c) \/ CallStart(c)
  <2>1. \E o, label, s : Call(c, o, label, s)
    BY <1>2, Zenon DEF CallPause, CallShutdown, CallExtract, CallStart
  <2> QED
    BY <2>1, LocalFrames DEF Call
<1>3. CASE SetPaused(c)
  BY <1>3, ReturnLocal DEF SetPaused
<1>4. CASE InterruptCall(c)
  BY <1>4, ReturnLocal DEF InterruptCall
<1>5. CASE SetShutdown(c) \/ ResetCompleted(c) \/ RestoreActiveKey(c) \/ RestorePending(c)
  BY <1>5, LocalFrames DEF SetShutdown, ResetCompleted, RestoreActiveKey, RestorePending
<1>6. CASE DrainLane(c) \/ PutBack(c)
  <2>1. UNCHANGED <<op, cur, todo>> /\ (UNCHANGED pc \/ \E v : pc' = [pc EXCEPT ![c] = v])
    BY <1>6, Zenon DEF DrainLane, PutBack, NextLane
  <2> QED
    BY <2>1, LocalFrames
<1>7. CASE ReleaseKeys(c) \/ EncodeReleased(c)
  BY <1>7, LocalFrames DEF ReleaseKeys, EncodeReleased
<1> QED
  BY <1>1, <1>2, <1>3, <1>4, <1>5, <1>6, <1>7 DEF ClientCall, ClientStep, ReachesOthers

----------------------------------------------------------------------------
(* The attempts of an entry. A fiber that is about to continue an entry, by   *)
(* a retry or a re-injection, works on an entry that has been retried or      *)
(* re-injected, that nothing continues yet and that no other fiber is about   *)
(* to continue; a retry has an attempt left.                                  *)

Continuing(f) ==
    \/ pc[f] = "requeue"
    \/ Continues(f) /\ pc[f] \in {"enq", "dedup", "claim"} /\ todo[f] # <<>>

Continuable(f) ==
    /\ cur[f] \in EntryIds
    /\ \A e \in EntryIds : entry[e].prev # cur[f]
    /\ \/ /\ op[f] = "retry" /\ result[cur[f]] = "retried"
          /\ entry[cur[f]].retries < MaxRetries
       \/ op[f] = "reinject" /\ result[cur[f]] = "reinjected"
    /\ IF pc[f] = "requeue" THEN op[f] = "retry" ELSE todo[f] = <<entry[cur[f]].item>>

ChainFrames ==
    /\ \A f \in Fibers : Continuing(f) => Continuable(f)
    /\ \A f, g \in Fibers : Continuing(f) /\ Continuing(g) /\ f # g => cur[f] # cur[g]

Chain == AttemptChain /\ ChainFrames

(* What a step leaves alone: the entries that have been continued, and the    *)
(* fibers that were about to continue one.                                    *)
Continued == {"retried", "reinjected"}
Settles == \A e \in EntryIds : result[e] \in Continued => result'[e] = result[e]

ChainKeeps(f) ==
    Continuing(f)' => /\ Continuing(f)
                      /\ cur'[f] = cur[f] /\ op'[f] = op[f]
                      /\ IF pc'[f] = "requeue" THEN pc[f] = "requeue"
                         ELSE todo'[f] = <<entry[cur[f]].item>>

LEMMA EntryTyped ==
    ASSUME TypeOK, NEW e \in EntryIds
    PROVE  entry[e] \in EntryRecords
BY DEF TypeOK, StoreOK, EntryIds

LEMMA PrevIds ==
    ASSUME TypeOK, AttemptChain, NEW e \in EntryIds, entry[e].prev # 0
    PROVE  /\ entry[e].prev \in EntryIds
           /\ result[entry[e].prev] \in Continued
<1>1. entry[e] \in EntryRecords
  BY EntryTyped
<1>2. entry[e].prev \in Nat /\ Len(entry) \in Nat
  BY <1>1 DEF EntryRecords, TypeOK, StoreOK
<1>3. entry[e].prev < e /\ result[entry[e].prev] \in Continued
  BY DEF AttemptChain, Continued
<1> QED
  BY <1>2, <1>3 DEF EntryIds

LEMMA AttemptsKept ==
    ASSUME TypeOK, AttemptChain, entry' = entry, Settles
    PROVE  AttemptChain'
<1>1. EntryIds' = EntryIds
  BY DEF EntryIds
<1>2. ASSUME NEW e \in EntryIds, entry[e].prev # 0
      PROVE  result'[entry[e].prev] = result[entry[e].prev]
  BY <1>2, PrevIds DEF Settles
<1>3. \A e \in EntryIds : entry[e].prev # 0 =>
        LET p == entry[e].prev IN
        /\ p < e
        /\ result'[p] \in {"retried", "reinjected"}
        /\ entry[e].item = entry[p].item /\ entry[e].level = entry[p].level
        /\ entry[e].retries = entry[p].retries
                                + (IF result'[p] = "retried" THEN 1 ELSE 0)
  BY <1>2, Zenon DEF AttemptChain
<1>4. /\ \A e \in EntryIds : entry[e].retries <= MaxRetries
      /\ \A e, g \in EntryIds : e # g /\ entry[e].prev # 0
                                => entry[e].prev # entry[g].prev
  BY DEF AttemptChain
<1> QED
  BY <1>1, <1>3, <1>4, Zenon DEF AttemptChain

LEMMA ChainKept ==
    ASSUME TypeOK, Chain, entry' = entry, Settles, \A f \in Fibers : ChainKeeps(f)
    PROVE  Chain'
<1>1. EntryIds' = EntryIds
  BY DEF EntryIds
<1>2. ASSUME NEW f \in Fibers, Continuing(f)'
      PROVE  Continuable(f)' /\ Continuing(f) /\ cur'[f] = cur[f]
  <2>1. /\ Continuing(f) /\ cur'[f] = cur[f] /\ op'[f] = op[f]
        /\ IF pc'[f] = "requeue" THEN pc[f] = "requeue"
           ELSE todo'[f] = <<entry[cur[f]].item>>
    BY <1>2 DEF ChainKeeps
  <2>2. Continuable(f)
    BY <2>1 DEF Chain, ChainFrames
  <2>3. result'[cur[f]] = result[cur[f]]
    BY <2>2 DEF Continuable, Settles, Continued
  <2> QED
    BY <1>1, <2>1, <2>2, <2>3 DEF Continuable
<1>3. ChainFrames'
  BY <1>2 DEF Chain, ChainFrames
<1> QED
  BY <1>3, AttemptsKept DEF Chain

(* The steps of one fiber that do not start a continuation or mint.           *)
LEMMA ChainAlone ==
    ASSUME TypeOK, Chain, NEW f \in Fibers, LocalTo(f), entry' = entry, Settles,
           ChainKeeps(f)
    PROVE  Chain'
<1>1. ASSUME NEW g \in Fibers \ {f}
      PROVE  ChainKeeps(g)
  <2>1. pc'[g] = pc[g] /\ op'[g] = op[g] /\ cur'[g] = cur[g] /\ todo'[g] = todo[g]
    BY DEF LocalTo, OthersFrame, SameFrame
  <2> QED
    BY <2>1 DEF ChainKeeps, Continuing, Continues, Chain, ChainFrames, Continuable
<1> QED
  BY <1>1, ChainKept

LEMMA ChainIdle ==
    ASSUME NEW f \in Fibers, pc'[f] \notin {"requeue", "enq", "dedup", "claim"}
    PROVE  ChainKeeps(f)
BY DEF ChainKeeps, Continuing

(* A fiber starts to continue p.                                              *)
LEMMA ChainBegins ==
    ASSUME TypeOK, Chain, NEW f \in Fibers, LocalTo(f), entry' = entry, Settles,
           NEW p \in EntryIds, result[p] \notin Continued, cur'[f] = p,
           \/ /\ pc'[f] = "requeue" /\ op'[f] = "retry" /\ result'[p] = "retried"
              /\ entry[p].retries < MaxRetries
           \/ /\ pc'[f] = "enq" /\ op'[f] = "reinject" /\ result'[p] = "reinjected"
              /\ todo'[f] = <<entry[p].item>>
    PROVE  Chain'
<1>1. EntryIds' = EntryIds
  BY DEF EntryIds
<1>2. \A e \in EntryIds : entry[e].prev # p
  <2>1. p # 0
    BY DEF EntryIds
  <2> QED
    BY <2>1, PrevIds DEF Chain
<1>3. Continuable(f)'
  BY <1>1, <1>2 DEF Continuable
<1>4. ASSUME NEW g \in Fibers \ {f}, Continuing(g)'
      PROVE  Continuable(g)' /\ Continuing(g) /\ cur'[g] = cur[g] /\ cur[g] # p
  <2>1. pc'[g] = pc[g] /\ op'[g] = op[g] /\ cur'[g] = cur[g] /\ todo'[g] = todo[g]
    BY DEF LocalTo, OthersFrame, SameFrame
  <2>2. Continuing(g) /\ Continuable(g)
    BY <1>4, <2>1 DEF Continuing, Continues, Chain, ChainFrames
  <2>3. result'[cur[g]] = result[cur[g]] /\ cur[g] # p
    BY <2>2 DEF Continuable, Settles, Continued
  <2> QED
    BY <1>1, <2>1, <2>2, <2>3 DEF Continuable
<1>5. ChainFrames'
  BY <1>3, <1>4 DEF Chain, ChainFrames
<1> QED
  BY <1>5, AttemptsKept DEF Chain

(* A fiber mints the next entry: the one it was about to continue, if there   *)
(* is one, is continued now.                                                  *)
LEMMA ChainMints ==
    ASSUME TypeOK, Chain, NEW f \in Fibers, LocalTo(f), Mint(f),
           pc[f] \in {"dedup", "claim"}, todo[f] # <<>>,
           UNCHANGED <<op, cur>>, pc'[f] = "dedup"
    PROVE  Chain'
<1> DEFINE n == Len(entry) + 1
           x == NewEntry(f)
<1>1. /\ Len(entry) \in Nat /\ EntryIds' = EntryIds \cup {n} /\ n \notin EntryIds
      /\ \A e \in EntryIds : entry'[e] = entry[e] /\ result'[e] = result[e]
      /\ entry'[n] = x
  <2>1. entry \in Seq(EntryRecords) /\ Len(result) = Len(entry) /\ result \in Seq(Results)
    BY DEF TypeOK, StoreOK, HistoryOK
  <2> QED
    BY <2>1 DEF Mint, EntryIds
<1>2. /\ x.retries <= MaxRetries
      /\ x.prev # 0 =>
           /\ x.prev = cur[f] /\ x.prev \in EntryIds /\ result[x.prev] \in Continued
           /\ x.item = entry[x.prev].item /\ x.level = entry[x.prev].level
           /\ x.retries = entry[x.prev].retries
                            + (IF result[x.prev] = "retried" THEN 1 ELSE 0)
           /\ \A e \in EntryIds : entry[e].prev # x.prev
  <2>1. CASE ~Continues(f)
    <3>1. x.prev = 0 /\ x.retries = 0
      BY <2>1 DEF NewEntry, Continues
    <3> QED
      BY <3>1, ConfigAssumption
  <2>2. CASE Continues(f)
    <3>1. Continuable(f)
      BY <2>2 DEF Continuing, Chain, ChainFrames
    <3>2. PICK p \in EntryIds : p = cur[f]
      BY <3>1 DEF Continuable
    <3>3. /\ todo[f] = <<entry[p].item>> /\ \A e \in EntryIds : entry[e].prev # p
          /\ \/ op[f] = "retry" /\ result[p] = "retried" /\ entry[p].retries < MaxRetries
             \/ op[f] = "reinject" /\ result[p] = "reinjected"
      BY <3>1, <3>2 DEF Continuable
    <3>4. x.prev = p /\ x.level = entry[p].level /\ x.item = entry[p].item
      BY <2>2, <3>2, <3>3 DEF NewEntry
    <3>5. x.retries = entry[p].retries + (IF result[p] = "retried" THEN 1 ELSE 0)
      <4>1. entry[p].retries \in Nat
        BY EntryTyped DEF EntryRecords
      <4>2. CASE op[f] = "retry"
        BY <3>2, <3>3, <4>1, <4>2 DEF NewEntry
      <4>3. CASE op[f] = "reinject"
        BY <3>2, <3>3, <4>1, <4>3 DEF NewEntry
      <4> QED
        BY <3>3, <4>2, <4>3
    <3>6. x.retries <= MaxRetries
      <4>1. entry[p].retries \in Nat /\ entry[p].retries <= MaxRetries
        BY EntryTyped DEF EntryRecords, Chain, AttemptChain
      <4> QED
        BY <3>3, <3>5, <4>1, ConfigAssumption
    <3> QED
      BY <3>2, <3>3, <3>4, <3>5, <3>6 DEF Continued
  <2> QED
    BY <2>1, <2>2
<1>3. ASSUME NEW g \in Fibers, Continuing(g)'
      PROVE  Continuing(g) /\ g # f
  <2>1. g # f
    <3>1. todo'[f] = Tail(todo[f])
      BY DEF Mint, TypeOK, FramesOK
    <3>2. ASSUME Continues(f) PROVE Tail(todo[f]) = <<>>
      <4>1. Continuable(f)
        BY <3>2 DEF Continuing, Chain, ChainFrames
      <4>2. Len(todo[f]) = 1 /\ todo[f] \in Seq(Items)
        <5>1. pc[f] # "requeue"
          OBVIOUS
        <5>2. todo[f] = <<entry[cur[f]].item>>
          BY <4>1, <5>1 DEF Continuable
        <5> QED
          BY <5>2 DEF TypeOK, FramesOK
      <4> QED
        BY <4>2, TailOfOne
    <3> QED
      BY <1>3, <3>1, <3>2 DEF Continuing, Continues
  <2>2. pc'[g] = pc[g] /\ op'[g] = op[g] /\ cur'[g] = cur[g] /\ todo'[g] = todo[g]
    BY <2>1 DEF LocalTo, OthersFrame, SameFrame
  <2> QED
    BY <1>3, <2>1, <2>2 DEF Continuing, Continues
<1>4. AttemptChain'
  <2>1. \A e \in EntryIds : entry[e].prev # 0 =>
          LET p == entry[e].prev IN
          /\ p \in EntryIds /\ p < e /\ result[p] \in Continued
          /\ entry[e].item = entry[p].item /\ entry[e].level = entry[p].level
          /\ entry[e].retries = entry[p].retries
                                  + (IF result[p] = "retried" THEN 1 ELSE 0)
    BY PrevIds DEF Chain, AttemptChain
  <2>2. \A e \in EntryIds' : entry'[e].prev # 0 =>
          LET p == entry'[e].prev IN
          /\ p < e /\ result'[p] \in {"retried", "reinjected"}
          /\ entry'[e].item = entry'[p].item /\ entry'[e].level = entry'[p].level
          /\ entry'[e].retries = entry'[p].retries
                                  + (IF result'[p] = "retried" THEN 1 ELSE 0)
    <3>1. CASE x.prev # 0
      <4>1. x.prev < n /\ x.prev \in EntryIds
        BY <1>1, <1>2, <3>1 DEF EntryIds
      <4>2. \A e \in EntryIds : e # n
        BY <1>1
      <4> QED
        BY <1>1, <1>2, <2>1, <3>1, <4>1, <4>2 DEF Continued
    <3>2. CASE x.prev = 0
      BY <1>1, <2>1, <3>2 DEF Continued
    <3> QED
      BY <3>1, <3>2
  <2>3. \A e \in EntryIds' : entry'[e].retries <= MaxRetries
    BY <1>1, <1>2 DEF Chain, AttemptChain
  <2>4. \A e, g \in EntryIds' : e # g /\ entry'[e].prev # 0
                                  => entry'[e].prev # entry'[g].prev
    BY <1>1, <1>2 DEF Chain, AttemptChain
  <2> QED
    BY <2>2, <2>3, <2>4, Zenon DEF AttemptChain
<1>5. ASSUME NEW g \in Fibers, Continuing(g)'
      PROVE  Continuable(g)' /\ Continuing(g) /\ cur'[g] = cur[g]
  <2>1. /\ Continuing(g) /\ Continuable(g)
        /\ pc'[g] = pc[g] /\ op'[g] = op[g] /\ cur'[g] = cur[g] /\ todo'[g] = todo[g]
    BY <1>3, <1>5 DEF LocalTo, OthersFrame, SameFrame, Chain, ChainFrames
  <2>2. x.prev # cur[g]
    <3>1. CASE x.prev = 0
      BY <2>1, <3>1 DEF Continuable, EntryIds
    <3>2. CASE x.prev # 0
      <4>1. Continuing(f)
        BY <1>2, <3>2 DEF Continuing, NewEntry
      <4> QED
        BY <1>2, <1>3, <1>5, <2>1, <3>2, <4>1 DEF Chain, ChainFrames
    <3> QED
      BY <3>1, <3>2
  <2> QED
    BY <1>1, <2>1, <2>2 DEF Continuable
<1>6. ChainFrames'
  BY <1>5 DEF Chain, ChainFrames
<1> QED
  BY <1>4, <1>6 DEF Chain

(* A result that changes is that of an entry that was live.                   *)
LEMMA PlacedIsLive ==
    ASSUME TypeOK, Partition
    PROVE  /\ \A f \in Fibers : \A e \in Range(hand[f]) \cup Range(kept[f]) : Live(e)
           /\ \A w \in Workers : Holds(w) => Live(cur[w])
<1>1. \A p \in Places : \A e \in Content(p) : Live(e)
  BY ContentType DEF Partition, LiveIsPlaced
<1>2. ASSUME NEW f \in Fibers, NEW e \in Range(hand[f]) \cup Range(kept[f])
      PROVE  Live(e)
  BY <1>1, <1>2, PlaceNames
<1>3. ASSUME NEW w \in Workers, Holds(w)
      PROVE  Live(cur[w])
  <2>1. cur[w] \in Content(Worked(w)) /\ Worked(w) \in Places
    BY <1>3, PlaceNames DEF Under
  <2> QED
    BY <1>1, <2>1
<1> QED
  BY <1>2, <1>3

LEMMA OneSettles ==
    ASSUME TypeOK, NEW e, result[e] \notin Continued, NEW r,
           result' = [result EXCEPT ![e] = r]
    PROVE  Settles
BY DEF TypeOK, HistoryOK, Settles, EntryIds

LEMMA AllSettles ==
    ASSUME TypeOK, NEW S, \A e \in S : Live(e), NEW r, result' = MarkAll(S, r)
    PROVE  Settles
BY DEF TypeOK, HistoryOK, Settles, EntryIds, MarkAll, Live, Continued

LEMMA WorkerChains ==
    ASSUME TypeOK, Partition, Chain, NEW w \in Workers, Worker(w)
    PROVE  Chain'
<1> w \in Fibers
  BY Apart
<1>0. LocalTo(w)
  BY WorkerLocal
<1>6. entry' = entry
  <2>1. CASE WorkerLoop(w) \/ AwaitLatch(w) \/ TakeNextEmpty(w) \/ WorkerWoken(w)
    BY <2>1 DEF WorkerLoop, AwaitLatch, TakeNextEmpty, WorkerWoken
  <2>2. CASE PollLane(w) \/ RateLimitAwait(w) \/ SkipRateLimitedItem(w) \/ StartItem(w)
    BY <2>2 DEF PollLane, RateLimitAwait, SkipRateLimitedItem, StartItem
  <2>3. CASE CtxEnqueue(w) \/ EffectExits(w) \/ ReleaseKey(w)
    BY <2>3 DEF CtxEnqueue, EffectExits, ReleaseKey
  <2>4. CASE SettleItem(w) \/ DisposeFailure(w) \/ RetryRelease(w) \/ ReleasePermit(w)
    BY <2>4 DEF SettleItem, DisposeFailure, RetryRelease, ReleasePermit
  <2> QED
    BY <2>1, <2>2, <2>3, <2>4 DEF Worker
<1>1. Settles
  <2>1. CASE SkipRateLimitedItem(w) \/ SettleItem(w) \/ DisposeFailure(w)
    <3>1. Holds(w) /\ result[cur[w]] \notin Continued
      <4>1. pc[w] \in {"skip", "settle", "dispose"}
        BY <2>1 DEF SkipRateLimitedItem, SettleItem, DisposeFailure
      <4> QED
        BY <4>1, PlacedIsLive DEF Holds, Live, Continued
    <3>2. UNCHANGED result \/ \E r : result' = [result EXCEPT ![cur[w]] = r]
      BY <2>1, Zenon DEF SkipRateLimitedItem, SettleItem, DisposeFailure
    <3> QED
      BY <3>1, <3>2, OneSettles DEF Settles
  <2>2. CASE WorkerLoop(w) \/ AwaitLatch(w) \/ PollLane(w) \/ TakeNextEmpty(w) \/ WorkerWoken(w)
    BY <2>2 DEF WorkerLoop, AwaitLatch, PollLane, TakeNextEmpty, WorkerWoken, Settles
  <2>3. CASE RateLimitAwait(w) \/ StartItem(w) \/ CtxEnqueue(w) \/ EffectExits(w)
    BY <2>3 DEF RateLimitAwait, StartItem, CtxEnqueue, EffectExits, Settles
  <2>4. CASE ReleaseKey(w) \/ RetryRelease(w) \/ ReleasePermit(w)
    BY <2>4 DEF ReleaseKey, RetryRelease, ReleasePermit, Settles
  <2> QED
    BY <2>1, <2>2, <2>3, <2>4 DEF Worker
<1>2. CASE DisposeFailure(w) /\ pc'[w] = "requeue"
  <2>1. PICK p \in EntryIds : p = cur[w]
    BY <1>2, Apart DEF DisposeFailure, TypeOK, FrameOK, WorksOnEntry, Holds
  <2>2. pc[w] = "dispose" /\ cur' = cur
    BY <1>2 DEF DisposeFailure
  <2>3. \/ /\ RetryAllowed(p)
           /\ result' = [result EXCEPT ![p] = "retried"]
           /\ op' = [op EXCEPT ![w] = "retry"]
        \/ GoTo(w, "empty")
    BY <1>2, <2>1 DEF DisposeFailure
  <2>4. ~GoTo(w, "empty")
    BY <1>2, FrameOf
  <2>5. op'[w] = "retry"
    BY <2>3, <2>4, FrameOf
  <2>6. result'[p] = "retried"
    BY <2>3, <2>4 DEF TypeOK, HistoryOK, EntryIds
  <2>7. result[p] \notin Continued
    BY <2>1, <2>2, PlacedIsLive DEF Holds, Live, Continued
  <2> QED
    BY <1>0, <1>1, <1>6, <1>2, <2>1, <2>2, <2>3, <2>4, <2>5, <2>6, <2>7, ChainBegins
       DEF RetryAllowed
<1>3. CASE RetryRelease(w)
  <2>1. /\ pc[w] = "requeue" /\ CallEnqueue(w, "retry", <<entry[cur[w]].item>>, 0, cur[w])
    BY <1>3 DEF RetryRelease
  <2>2. op[w] = "retry"
    <3>1. Continuable(w)
      BY <2>1 DEF Continuing, Chain, ChainFrames
    <3> QED
      BY <2>1, <3>1 DEF Continuable
  <2>3. op'[w] = "retry" /\ cur'[w] = cur[w] /\ todo'[w] = <<entry[cur[w]].item>>
    BY <2>1 DEF CallEnqueue, TypeOK, FramesOK
  <2>4. ChainKeeps(w)
    BY <2>1, <2>2, <2>3 DEF ChainKeeps, Continuing
  <2> QED
    BY <1>0, <1>1, <1>6, <2>4, ChainAlone
<1>4. CASE CtxEnqueue(w)
  <2>1. \E items, level : CallEnqueue(w, "ctx", items, level, cur[w])
    BY <1>4, Zenon DEF CtxEnqueue
  <2>2. op'[w] = "ctx" /\ pc'[w] = "enq"
    BY <2>1 DEF CallEnqueue, TypeOK, FramesOK
  <2>3. ChainKeeps(w)
    BY <2>2 DEF ChainKeeps, Continuing, Continues
  <2> QED
    BY <1>0, <1>1, <1>6, <2>3, ChainAlone
<1>5. CASE /\ ~RetryRelease(w) /\ ~CtxEnqueue(w)
           /\ ~(DisposeFailure(w) /\ pc'[w] = "requeue")
  <2>1. pc'[w] \notin {"requeue", "enq", "dedup", "claim"}
    <3>1. CASE WorkerLoop(w) \/ AwaitLatch(w) \/ TakeNextEmpty(w) \/ WorkerWoken(w)
      BY <3>1, FrameOf DEF WorkerLoop, AwaitLatch, TakeNextEmpty, WorkerWoken
    <3>2. CASE RateLimitAwait(w) \/ SkipRateLimitedItem(w) \/ StartItem(w)
      BY <3>2, FrameOf DEF RateLimitAwait, SkipRateLimitedItem, StartItem
    <3>3. CASE EffectExits(w) \/ ReleaseKey(w) \/ SettleItem(w) \/ ReleasePermit(w)
      BY <3>3, FrameOf DEF EffectExits, ReleaseKey, SettleItem, ReleasePermit
    <3>4. CASE PollLane(w)
      <4>1. pc[w] = "poll" /\ (UNCHANGED pc \/ GoTo(w, "latch2") \/ GoTo(w, "check"))
        BY <3>4, Zenon DEF PollLane
      <4> QED
        BY <4>1, FrameOf
    <3>5. CASE DisposeFailure(w) /\ pc'[w] # "requeue"
      <4>1. GoTo(w, "requeue") \/ GoTo(w, "empty")
        BY <3>5 DEF DisposeFailure
      <4> QED
        BY <3>5, <4>1, FrameOf
    <3> QED
      BY <1>5, <3>1, <3>2, <3>3, <3>4, <3>5 DEF Worker
  <2> QED
    BY <1>0, <1>1, <1>6, <2>1, ChainIdle, ChainAlone
<1> QED
  BY <1>2, <1>3, <1>4, <1>5

LEMMA SubroutineChains ==
    ASSUME TypeOK, Chain, NEW f \in Fibers, Subroutine(f)
    PROVE  Chain'
<1>0. LocalTo(f)
  BY SubroutineLocal
<1>1. CASE EnqueueShutdownCheck(f)
  <2>1. UNCHANGED <<entry, result>> /\ Settles
    BY <1>1 DEF EnqueueShutdownCheck, Settles
  <2>2. CASE Return(f, AfterEnqueue(f))
    <3>1. pc'[f] \notin {"requeue", "enq", "dedup", "claim"}
      BY <2>2, ReturnsFrame DEF AfterEnqueue
    <3> QED
      BY <1>0, <2>1, <3>1, ChainIdle, ChainAlone
  <2>3. CASE GoTo(f, "dedup") /\ UNCHANGED <<op, cur, todo>>
    <3>1. pc[f] = "enq" /\ pc'[f] = "dedup"
      BY <1>1, <2>3, FrameOf DEF EnqueueShutdownCheck
    <3>2. ChainKeeps(f)
      BY <2>3, <3>1 DEF ChainKeeps, Continuing, Continues, Chain, ChainFrames, Continuable
    <3> QED
      BY <1>0, <2>1, <3>2, ChainAlone
  <2> QED
    BY <1>1, <2>2, <2>3 DEF EnqueueShutdownCheck
<1>2. CASE DedupCheck(f)
  <2>1. /\ pc[f] = "dedup" /\ todo[f] # <<>> /\ UNCHANGED <<op, cur>>
        /\ \/ /\ todo' = [todo EXCEPT ![f] = Tail(@)]
              /\ UNCHANGED <<entry, result, pc>>
           \/ Mint(f) /\ UNCHANGED pc
           \/ GoTo(f, "claim") /\ UNCHANGED <<entry, result, todo>>
    BY <1>2, Zenon DEF DedupCheck
  <2>2. CASE Mint(f) /\ UNCHANGED pc
    BY <1>0, <2>1, <2>2, ChainMints
  <2>3. CASE GoTo(f, "claim") /\ UNCHANGED <<entry, result, todo>>
    <3>1. pc'[f] = "claim"
      BY Zenon, <2>3, FrameOf
    <3>2. ChainKeeps(f)
      BY <2>1, <2>3, <3>1
         DEF ChainKeeps, Continuing, Continues, Chain, ChainFrames, Continuable
    <3> QED
      BY <1>0, <2>3, <3>2, ChainAlone DEF Settles
  <2>4. CASE todo' = [todo EXCEPT ![f] = Tail(@)] /\ UNCHANGED <<entry, result, pc>>
    <3>1. todo'[f] = Tail(todo[f])
      BY <2>4 DEF TypeOK, FramesOK
    <3>2. ChainKeeps(f)
      <4>1. SUFFICES ASSUME Continues(f) PROVE Tail(todo[f]) = <<>>
        BY <2>1, <2>4, <3>1 DEF ChainKeeps, Continuing, Continues
      <4>2. todo[f] = <<entry[cur[f]].item>>
        BY <2>1, <4>1 DEF Continuing, Chain, ChainFrames, Continuable
      <4>3. Len(todo[f]) = 1 /\ todo[f] \in Seq(Items)
        BY <4>2 DEF TypeOK, FramesOK
      <4> QED
        BY <4>3, TailOfOne
    <3> QED
      BY <1>0, <2>4, <3>2, ChainAlone DEF Settles
  <2> QED
    BY <2>1, <2>2, <2>3, <2>4
<1>3. CASE ClaimKey(f)
  <2>1. pc[f] = "claim" /\ Mint(f) /\ GoTo(f, "dedup") /\ UNCHANGED <<op, cur>>
    BY <1>3 DEF ClaimKey
  <2>2. todo[f] # <<>>
    BY <2>1 DEF TypeOK, FrameOK
  <2>3. pc'[f] = "dedup"
    <3>1. GoTo(f, "dedup")
      BY <2>1
    <3> QED
      BY Zenon, <3>1, FrameOf
  <2> QED
    BY <1>0, <2>1, <2>2, <2>3, ChainMints
<1>4. CASE \/ DedupDone(f) \/ Offer(f) \/ SignalWorkerWake(f) \/ SignalDrainWake(f)
           \/ WakeDrainedIfEmpty(f) \/ FinalizeRead(f) \/ FinalizeSet(f)
  <2>1. /\ UNCHANGED <<entry, result>>
        /\ \/ Return(f, AfterEnqueue(f)) \/ Return(f, AfterWorkerWake(f))
           \/ Return(f, AfterDrainWake(f)) \/ Return(f, AfterFinalize(f))
           \/ \E label \in {"offer", "wake1", "wake2", "drain1", "drain2", "fin2"} :
                GoTo(f, label)
    <3>1. CASE DedupDone(f) \/ Offer(f) \/ SignalWorkerWake(f) \/ SignalDrainWake(f)
      BY <3>1 DEF DedupDone, Offer, SignalWorkerWake, SignalDrainWake
    <3>2. CASE WakeDrainedIfEmpty(f) \/ FinalizeRead(f) \/ FinalizeSet(f)
      BY <3>2 DEF WakeDrainedIfEmpty, FinalizeRead, FinalizeSet
    <3> QED
      BY <1>4, <3>1, <3>2
  <2>2. pc'[f] \notin {"requeue", "enq", "dedup", "claim"}
    BY <2>1, FrameOf, ReturnsFrame
       DEF AfterEnqueue, AfterWorkerWake, AfterDrainWake, AfterFinalize
  <2> QED
    BY <1>0, <2>1, <2>2, ChainIdle, ChainAlone DEF Settles
<1> QED
  BY <1>1, <1>2, <1>3, <1>4 DEF Subroutine

LEMMA MonitorChains ==
    ASSUME TypeOK, Chain, Monitor
    PROVE  Chain'
<1> DrainMonitor \in Fibers
  BY DEF Fibers
<1>0. LocalTo(DrainMonitor)
  BY MonitorLocal
<1>1. CASE MonitorLoop \/ MonitorWoken \/ MonitorCheck
  <2>1. UNCHANGED <<entry, result>>
    BY <1>1 DEF MonitorLoop, MonitorWoken, MonitorCheck
  <2>2. pc'[DrainMonitor] \notin {"requeue", "enq", "dedup", "claim"}
    BY <1>1, FrameOf DEF MonitorLoop, MonitorWoken, MonitorCheck
  <2> QED
    BY <1>0, <2>1, <2>2, ChainIdle, ChainAlone DEF Settles
<1>2. CASE MonitorLoad
  <2>1. UNCHANGED <<entry, result>>
    BY <1>2 DEF MonitorLoad
  <2>2. \E items, level : CallEnqueue(DrainMonitor, "refill", items, level, 0)
    BY <1>2, Zenon DEF MonitorLoad
  <2>3. op'[DrainMonitor] = "refill" /\ pc'[DrainMonitor] = "enq"
    BY <2>2 DEF CallEnqueue, TypeOK, FramesOK
  <2>4. ChainKeeps(DrainMonitor)
    BY <2>3 DEF ChainKeeps, Continuing, Continues
  <2> QED
    BY <1>0, <2>1, <2>4, ChainAlone DEF Settles
<1> QED
  BY <1>1, <1>2 DEF Monitor

(* Opening the latch and forking move fibers that continue nothing.           *)
LEMMA ReachChains ==
    ASSUME TypeOK, Accounts, Chain, NEW c \in Clients, ReachesOthers(c)
    PROVE  Chain'
<1> c \in Fibers
  BY NotWorker
<1>1. UNCHANGED <<entry, result, cur, todo>>
  BY DEF ReachesOthers, CallResume, DrainModeOpensLatch, ForkProcessingFibers
<1>2. \A f \in Fibers \ {c} : op'[f] = op[f]
  <2>1. UNCHANGED op \/ \E v : op' = [op EXCEPT ![c] = v]
    BY Zenon DEF ReachesOthers, CallResume, DrainModeOpensLatch, ForkProcessingFibers
  <2> QED
    BY <2>1, FrameOf
<1>3. \A f \in Fibers : \/ pc'[f] \notin {"requeue", "enq", "dedup", "claim"}
                        \/ f # c /\ pc'[f] = pc[f]
  <2>1. CASE CallResume(c) \/ DrainModeOpensLatch(c)
    BY <2>1 DEF CallResume, DrainModeOpensLatch, OpenLatch
  <2>2. CASE ForkProcessingFibers(c)
    <3>1. pc' = [IF workersStarted THEN pc ELSE ForkWorkers EXCEPT ![c] = "idle"]
      BY <2>2 DEF ForkProcessingFibers
    <3> QED
      BY <3>1 DEF ForkWorkers, TypeOK, FramesOK
  <2> QED
    BY <2>1, <2>2 DEF ReachesOthers
<1>4. ASSUME NEW f \in Fibers
      PROVE  ChainKeeps(f)
  <2>1. CASE pc'[f] \notin {"requeue", "enq", "dedup", "claim"}
    BY <2>1, ChainIdle
  <2>2. CASE f # c /\ pc'[f] = pc[f]
    BY <1>1, <1>2, <2>2
       DEF ChainKeeps, Continuing, Continues, Chain, ChainFrames, Continuable
  <2> QED
    BY <1>3, <2>1, <2>2
<1> QED
  BY <1>1, <1>4, ChainKept DEF Settles

LEMMA ClientChains ==
    ASSUME TypeOK, Accounts, Partition, Chain, NEW c \in Clients,
           ClientCall(c) \/ ClientStep(c)
    PROVE  Chain'
<1> c \in Fibers
  BY NotWorker
<1>0. ~ReachesOthers(c) => LocalTo(c)
  BY ClientLocal
<1>1. CASE ReachesOthers(c)
  BY <1>1, ReachChains
<1>2. CASE CallAdd(c) /\ ~ReachesOthers(c)
  <2>1. UNCHANGED <<entry, result>>
    BY <1>2 DEF CallAdd
  <2>2. \E items, level : CallEnqueue(c, "add", items, level, 0)
    BY <1>2, Zenon DEF CallAdd
  <2>3. op'[c] = "add" /\ pc'[c] = "enq"
    BY <2>2 DEF CallEnqueue, TypeOK, FramesOK
  <2>4. ChainKeeps(c)
    BY <2>3 DEF ChainKeeps, Continuing, Continues
  <2> QED
    BY <1>0, <1>2, <2>1, <2>4, ChainAlone DEF Settles
<1>3. CASE CallEnqueueEntry(c) /\ ~ReachesOthers(c)
  <2>1. PICK p \in EntryIds :
          /\ result[p] = "released"
          /\ CallEnqueue(c, "reinject", <<entry[p].item>>, 0, p)
          /\ result' = [result EXCEPT ![p] = "reinjected"]
    BY <1>3 DEF CallEnqueueEntry
  <2>2. entry' = entry
    BY <1>3 DEF CallEnqueueEntry
  <2>3. /\ pc'[c] = "enq" /\ op'[c] = "reinject" /\ cur'[c] = p
        /\ todo'[c] = <<entry[p].item>>
    BY <2>1 DEF CallEnqueue, TypeOK, FramesOK
  <2>4. result'[p] = "reinjected"
    BY <2>1 DEF TypeOK, HistoryOK, EntryIds
  <2>5. result[p] \notin Continued
    BY <2>1 DEF Continued
  <2>6. Settles
    BY <2>1, <2>5, OneSettles
  <2> QED
    BY <1>0, <1>3, <2>2, <2>3, <2>4, <2>5, <2>6, ChainBegins
<1>4. CASE /\ ~ReachesOthers(c)
           /\ \/ CallPause(c) \/ CallShutdown(c) \/ CallExtract(c) \/ CallStart(c)
              \/ SetPaused(c) \/ SetShutdown(c) \/ DrainLane(c) \/ PutBack(c)
              \/ ResetCompleted(c) \/ RestorePending(c) \/ RestoreActiveKey(c)
  <2>1. UNCHANGED <<entry, result>>
    <3>1. \A o, label, s : Call(c, o, label, s) => UNCHANGED <<entry, result>>
      BY DEF Call
    <3>2. CASE CallPause(c) \/ CallShutdown(c) \/ CallExtract(c) \/ CallStart(c)
      BY <3>1, <3>2, Zenon DEF CallPause, CallShutdown, CallExtract, CallStart
    <3>3. CASE SetPaused(c) \/ SetShutdown(c) \/ DrainLane(c) \/ PutBack(c)
      BY <3>3 DEF SetPaused, SetShutdown, DrainLane, PutBack
    <3>4. CASE ResetCompleted(c) \/ RestorePending(c) \/ RestoreActiveKey(c)
      BY <3>4 DEF ResetCompleted, RestorePending, RestoreActiveKey
    <3> QED
      BY <1>4, <3>2, <3>3, <3>4
  <2>2. pc'[c] \notin {"requeue", "enq", "dedup", "claim"}
    <3>1. CASE CallPause(c) \/ CallShutdown(c) \/ CallExtract(c) \/ CallStart(c)
      <4>1. \E label \in {"setPaused", "setShutdown", "idle", "drain", "claimStart"} :
              \E o, s : Call(c, o, label, s)
        BY <3>1, Zenon DEF CallPause, CallShutdown, CallExtract, CallStart
      <4> QED
        BY <4>1, FrameOf DEF Call
    <3>2. CASE SetPaused(c)
      <4>1. Return(c, "idle") \/ Return(c, "wake1")
        BY <3>2 DEF SetPaused
      <4> QED
        BY <4>1, ReturnsFrame
    <3>3. CASE DrainLane(c) \/ PutBack(c)
      <4>1. /\ pc[c] \in {"drain", "putback"}
            /\ UNCHANGED pc \/ \E label \in {"putback", "drain", "keys"} : GoTo(c, label)
        BY <3>3 DEF DrainLane, PutBack, NextLane
      <4> QED
        BY <4>1, FrameOf
    <3>4. CASE SetShutdown(c) \/ ResetCompleted(c) \/ RestorePending(c) \/ RestoreActiveKey(c)
      <4>1. PICK label \in {"drain", "wind", "empty", "rekey", "wake1", "restore"} :
                GoTo(c, label)
        BY <3>4 DEF SetShutdown, ResetCompleted, RestorePending, RestoreActiveKey
      <4>2. pc'[c] = label
        BY Zenon, <4>1, FrameOf DEF GoTo
      <4> QED
        BY <4>1, <4>2
    <3> QED
      BY <1>4, <3>1, <3>2, <3>3, <3>4, Zenon
  <2>3. ChainKeeps(c)
    BY <2>2, ChainIdle
  <2> QED
    BY <1>0, <1>4, <2>1, <2>3, ChainAlone DEF Settles
<1>5. CASE (ReleaseKeys(c) \/ EncodeReleased(c)) /\ ~ReachesOthers(c)
  <2>1. entry' = entry
    BY <1>5 DEF ReleaseKeys, EncodeReleased
  <2>2. Settles
    <3>1. UNCHANGED result \/ \E r : result' = MarkAll(Range(hand[c]), r)
      BY <1>5, Zenon DEF ReleaseKeys, EncodeReleased
    <3>2. \A e \in Range(hand[c]) : Live(e)
      BY PlacedIsLive
    <3> QED
      BY <3>1, <3>2, AllSettles DEF Settles
  <2>3. pc'[c] \notin {"requeue", "enq", "dedup", "claim"}
    <3>1. \/ \E label \in {"encode", "empty", "restore"} : GoTo(c, label)
          \/ GoTo(c, AfterKeys(op[c]))
      BY <1>5, Zenon DEF ReleaseKeys, EncodeReleased
    <3> QED
      BY <3>1, FrameOf DEF AfterKeys
  <2> QED
    BY <1>0, <1>5, <2>1, <2>2, <2>3, ChainIdle, ChainAlone
<1>6. CASE InterruptCall(c) /\ ~ReachesOthers(c)
  <2>1. entry' = entry /\ Return(c, "idle")
    BY <1>6 DEF InterruptCall
  <2>2. Settles
    <3>1. result' = MarkAll(Range(hand[c]) \cup Range(kept[c]), "lost")
      BY <1>6 DEF InterruptCall
    <3>2. \A e \in Range(hand[c]) \cup Range(kept[c]) : Live(e)
      BY PlacedIsLive
    <3> QED
      BY <3>1, <3>2, AllSettles
  <2>3. pc'[c] = "idle"
    BY <2>1, ReturnsFrame
  <2> QED
    BY <1>0, <1>6, <2>1, <2>2, <2>3, ChainIdle, ChainAlone
<1> QED
  BY <1>1, <1>2, <1>3, <1>4, <1>5, <1>6, Zenon DEF ClientCall, ClientStep, ReachesOthers

LEMMA InitChain == Init => Chain
<1> SUFFICES ASSUME Init PROVE Chain
  OBVIOUS
<1>1. EntryIds = {}
  BY DEF Init, EntryIds
<1>2. \A f \in Fibers : ~Continuing(f)
  BY DEF Init, Continuing
<1> QED
  BY <1>1, <1>2, Zenon DEF Chain, ChainFrames, AttemptChain

LEMMA NextChain ==
    ASSUME TypeOK, Accounts, Partition, Chain, [Next]_vars
    PROVE  Chain'
<1>1. CASE UNCHANGED vars
  <2>1. UNCHANGED <<pc, op, cur, todo, entry, result>>
    BY <1>1 DEF vars
  <2>2. \A f \in Fibers : ChainKeeps(f)
    BY <2>1 DEF ChainKeeps, Continuing, Continues, Chain, ChainFrames, Continuable
  <2> QED
    BY <2>1, <2>2, ChainKept DEF Settles
<1> QED
  BY <1>1, WorkerChains, SubroutineChains, MonitorChains, ClientChains DEF Next, AtRest

(* AttemptChain: an entry that continues another one continues an entry that  *)
(* was retried or re-injected, alone, with its item and level, and only a     *)
(* retry consumes an attempt, so that no chain of attempts outruns            *)
(* MaxRetries: whatever the dispositions, however retries, re-injections,     *)
(* shutdowns and interrupted calls interleave, and with any number of fibers. *)
THEOREM AttemptsBounded == Spec => []AttemptChain
<1>1. Init => Accounts /\ Partition /\ Chain
  BY InitAccounts, InitPartition, InitChain
<1>2. TypeOK /\ (Accounts /\ Partition /\ Chain) /\ [Next]_vars
        => (Accounts /\ Partition /\ Chain)'
  BY NextAccounts, NextPartition, NextChain
<1>3. Chain => AttemptChain
  BY DEF Chain
<1> QED
  BY <1>1, <1>2, <1>3, TypeCorrect, PTL DEF Spec

----------------------------------------------------------------------------
(* The dedup keys. While no caller has been interrupted and no encoding has   *)
(* failed, every entry that owns its key goes on owning it, or the step takes *)
(* the key out of activeKeys.                                                 *)

Stranding == {"encode", "restore", "rekey"}
KeyHolder(w) == Holds(w) /\ pc[w] \notin {"settle", "dispose"}

Unspoiled == \A o \in {"interrupt", "encodeError"} : left[o] = Budget[o]
NoRestores == \A f \in Fibers : pc[f] \notin {"restore", "rekey"}
KeysOwned == \A k \in activeKeys : \E e \in EntryIds : OwnsKey(e) /\ KeyOfEntry(e) = k
WellKept == NoRestores /\ KeysOwned
LeftBound == \A o \in OpNames : left[o] <= Budget[o]

KeyTold(e) == OwnsKey(e)' \/ KeyOfEntry(e) \notin activeKeys'
OwnersStay == \A e \in EntryIds : OwnsKey(e) => KeyTold(e)
SameItems == \A e \in EntryIds : e \in EntryIds' /\ entry'[e] = entry[e]

LEMMA OwnedStays ==
    ASSUME KeysOwned, SameItems, OwnersStay,
           \A k \in activeKeys' \ activeKeys :
             \E e \in EntryIds' : OwnsKey(e)' /\ KeyOfEntry(e)' = k
    PROVE  KeysOwned'
<1> SUFFICES ASSUME NEW k \in activeKeys'
             PROVE  \E e \in EntryIds' : OwnsKey(e)' /\ KeyOfEntry(e)' = k
  BY DEF KeysOwned
<1>1. CASE k \in activeKeys
  <2>1. PICK e \in EntryIds : OwnsKey(e) /\ KeyOfEntry(e) = k
    BY <1>1 DEF KeysOwned
  <2>2. e \in EntryIds' /\ KeyOfEntry(e)' = k
    BY <2>1 DEF SameItems, KeyOfEntry
  <2>3. OwnsKey(e)'
    BY <2>1 DEF OwnersStay, KeyTold
  <2> QED
    BY <2>2, <2>3
<1> QED
  BY <1>1

(* A fiber acts alone: what matters is the lanes and what it held itself.     *)
LEMMA AloneOwners ==
    ASSUME NEW f \in Fibers, Alone(f),
           \A l \in Levels : \A e \in Range(lanes[l]) : KeyTold(e),
           pc[f] \notin Stranding =>
             \A e \in Range(hand[f]) \cup Range(kept[f]) : KeyTold(e),
           f \in Workers /\ KeyHolder(f) => KeyTold(cur[f])
    PROVE  OwnersStay
<1> SUFFICES ASSUME NEW e \in EntryIds, OwnsKey(e)
             PROVE  KeyTold(e)
  BY DEF OwnersStay
<1>1. CASE \E l \in Levels : e \in Range(lanes[l])
  BY <1>1
<1>2. CASE \E g \in Fibers : /\ e \in Range(hand[g]) \cup Range(kept[g])
                             /\ pc[g] \notin Stranding
  <2>1. PICK g \in Fibers : /\ e \in Range(hand[g]) \cup Range(kept[g])
                            /\ pc[g] \notin Stranding
    BY <1>2
  <2>2. CASE g = f
    BY <2>1, <2>2
  <2>3. CASE g # f
    <3>1. hand'[g] = hand[g] /\ kept'[g] = kept[g] /\ pc'[g] = pc[g]
      BY <2>3 DEF Alone, OthersFrame, SameFrame
    <3>2. OwnsKey(e)'
      BY <2>1, <3>1 DEF OwnsKey, Stranding
    <3> QED
      BY <3>2 DEF KeyTold
  <2> QED
    BY <2>2, <2>3
<1>3. CASE \E w \in Workers : KeyHolder(w) /\ cur[w] = e
  <2>1. PICK w \in Workers : KeyHolder(w) /\ cur[w] = e
    BY <1>3
  <2>2. CASE w = f
    BY <2>1, <2>2
  <2>3. CASE w # f
    <3>1. SameFrame(w)
      BY <2>3, Apart DEF Alone, OthersFrame
    <3>2. Holds(w)' /\ pc'[w] \notin {"settle", "dispose"} /\ cur'[w] = e
      BY <2>1, <3>1 DEF KeyHolder, SameFrame, Holds, Enqueuing
    <3>3. OwnsKey(e)'
      BY <3>2 DEF OwnsKey
    <3> QED
      BY <3>3 DEF KeyTold
  <2> QED
    BY <2>2, <2>3
<1> QED
  BY <1>1, <1>2, <1>3 DEF OwnsKey, Stranding, KeyHolder

LEMMA SameLanesOwn ==
    ASSUME UNCHANGED lanes
    PROVE  \A l \in Levels : \A e \in Range(lanes[l]) : KeyTold(e)
<1> SUFFICES ASSUME NEW l \in Levels, NEW e \in Range(lanes[l]) PROVE OwnsKey(e)'
  BY DEF KeyTold
<1>1. e \in Range(lanes'[l])
  OBVIOUS
<1> QED
  BY <1>1 DEF OwnsKey

LEMMA SameHandOwns ==
    ASSUME NEW f \in Fibers, pc'[f] \notin Stranding,
           Range(hand[f]) \subseteq Range(hand'[f]),
           Range(kept[f]) \subseteq Range(kept'[f])
    PROVE  \A e \in Range(hand[f]) \cup Range(kept[f]) : KeyTold(e)
<1> SUFFICES ASSUME NEW e \in Range(hand[f]) \cup Range(kept[f]) PROVE OwnsKey(e)'
  BY DEF KeyTold
<1>1. e \in Range(hand'[f]) \cup Range(kept'[f])
  OBVIOUS
<1> QED
  BY <1>1 DEF OwnsKey, Stranding

LEMMA SameWorkOwns ==
    ASSUME NEW w \in Workers, KeyHolder(w)', cur'[w] = cur[w]
    PROVE  KeyTold(cur[w])
<1>1. PICK e : e = cur[w]
  OBVIOUS
<1>2. OwnsKey(e)'
  BY <1>1 DEF OwnsKey, KeyHolder
<1> QED
  BY <1>1, <1>2 DEF KeyTold

(* A step that moves no entry and adds no key.                                *)
LEMMA CalmKeys ==
    ASSUME WellKept, NEW f \in Fibers, OthersFrame(f),
           UNCHANGED <<lanes, hand, kept, entry>>, activeKeys' \subseteq activeKeys,
           pc'[f] \notin Stranding,
           f \in Workers /\ KeyHolder(f) =>
             \/ KeyHolder(f)' /\ cur'[f] = cur[f]
             \/ KeyOfEntry(cur[f]) \notin activeKeys'
    PROVE  WellKept'
<1>1. OwnersStay
  <2>1. Alone(f)
    BY DEF Alone
  <2>2. f \in Workers /\ KeyHolder(f) => KeyTold(cur[f])
    BY SameWorkOwns DEF KeyTold
  <2> QED
    BY <2>1, <2>2, SameLanesOwn, SameHandOwns, AloneOwners
<1>2. SameItems
  BY DEF SameItems, EntryIds
<1>3. KeysOwned'
  BY <1>1, <1>2, OwnedStays DEF WellKept
<1>4. NoRestores'
  BY DEF WellKept, NoRestores, Stranding, OthersFrame, SameFrame
<1> QED
  BY <1>3, <1>4 DEF WellKept

LEMMA HeadOrTail ==
    ASSUME NEW S, NEW s \in Seq(S), s # <<>>
    PROVE  \A e \in Range(s) : e = Head(s) \/ e \in Range(Tail(s))
<1> DEFINE t == Tail(s)
<1>1. /\ t \in Seq(S) /\ Len(s) > 0 /\ Len(t) = Len(s) - 1
      /\ \A i \in 1..Len(t) : t[i] = s[i + 1]
      /\ Head(s) = s[1] /\ Head(s) \in S
  OBVIOUS
<1> HIDE DEF t
<1> SUFFICES ASSUME NEW e \in Range(s), e # Head(s) PROVE e \in Range(t)
  BY DEF t
<1>2. PICK i \in 1..Len(s) : s[i] = e
  BY RangeOf
<1>3. i - 1 \in 1..Len(t) /\ t[i - 1] = e
  BY <1>1, <1>2
<1> QED
  BY <1>1, <1>3, RangeOf

LEMMA LaneGrows ==
    ASSUME TypeOK, NEW l \in Levels, NEW e \in EntryIds,
           lanes' = [lanes EXCEPT ![l] = Append(@, e)]
    PROVE  /\ Range(lanes'[l]) = Range(lanes[l]) \cup {e}
           /\ \A k \in Levels \ {l} : lanes'[k] = lanes[k]
<1>1. lanes[l] \in Seq(EntryIds)
  BY DEF TypeOK, PlacesOK
<1>2. lanes'[l] = Append(lanes[l], e) /\ \A k \in Levels \ {l} : lanes'[k] = lanes[k]
  BY LaneOne
<1> QED
  BY <1>1, <1>2, AppendRange

LEMMA NoStranding ==
    ASSUME TypeOK', NEW f \in Fibers, f \notin Clients
    PROVE  pc'[f] \notin Stranding
<1>1. pc'[f] \in LabelsOf(f)
  BY DEF TypeOK, FrameOK
<1>2. LabelsOf(f) \in {WorkerLabels, MonitorLabels}
  BY DEF LabelsOf
<1> QED
  BY <1>1, <1>2 DEF WorkerLabels, MonitorLabels, EnqueueLabels, Stranding

LEMMA PollKeys ==
    ASSUME TypeOK, TypeOK', WellKept, NEW w \in Workers, PollLane(w)
    PROVE  WellKept'
<1> w \in Fibers /\ w \notin Clients
  BY Apart
<1>0. /\ UNCHANGED <<hand, kept, entry, activeKeys, op>> /\ pc[w] = "poll"
      /\ ~KeyHolder(w)
  BY DEF PollLane, KeyHolder, Holds, Enqueuing, EnqueueLabels
<1>1. Alone(w)
  BY <1>0, WorkerLocal DEF Alone, LocalTo, Worker
<1>2. CASE UNCHANGED lanes
  BY <1>0, <1>1, <1>2, NoStranding, CalmKeys DEF Alone
<1>3. CASE ~UNCHANGED lanes
  <2>1. PICK l \in Levels : l = scan[w]
    BY DEF TypeOK, FramesOK
  <2>2. /\ lanes[l] # <<>> /\ lanes' = [lanes EXCEPT ![l] = Tail(@)]
        /\ cur' = [cur EXCEPT ![w] = Head(lanes[l])]
        /\ GoTo(w, "latch2")
    BY <1>3, <2>1 DEF PollLane
  <2>3. cur'[w] = Head(lanes[l])
    BY Zenon, <2>2, FrameOf
  <2>4. pc'[w] = "latch2"
    BY Zenon, <2>2, FrameOf
  <2>5. \A k \in Levels : lanes'[k] = IF k = l THEN Tail(lanes[l]) ELSE lanes[k]
    BY <2>2 DEF TypeOK, PlacesOK
  <2>6. \A e \in Range(lanes[l]) : e = Head(lanes[l]) \/ e \in Range(Tail(lanes[l]))
    BY <2>2, HeadOrTail DEF TypeOK, PlacesOK
  <2>7. \A k \in Levels : \A e \in Range(lanes[k]) : KeyTold(e)
    <3> SUFFICES ASSUME NEW k \in Levels, NEW e \in Range(lanes[k]) PROVE OwnsKey(e)'
      BY DEF KeyTold
    <3>1. CASE e \in Range(lanes'[k])
      BY <3>1 DEF OwnsKey
    <3>2. CASE e = cur'[w]
      <4>1. Holds(w)' /\ pc'[w] \notin {"settle", "dispose"}
        BY <2>4 DEF Holds
      <4> QED
        BY <3>2, <4>1 DEF OwnsKey
    <3> QED
      BY <2>3, <2>5, <2>6, <3>1, <3>2
  <2>8. OwnersStay
    BY <1>0, <1>1, <2>7, NoStranding, SameHandOwns, AloneOwners
  <2>9. NoRestores'
    BY <1>1, NoStranding DEF WellKept, NoRestores, Alone, OthersFrame, SameFrame, Stranding
  <2>10. SameItems
    BY <1>0 DEF SameItems, EntryIds
  <2> QED
    BY <1>0, <2>8, <2>9, <2>10, OwnedStays DEF WellKept
<1> QED
  BY <1>2, <1>3

LEMMA WorkerKeys ==
    ASSUME TypeOK, TypeOK', WellKept, NEW w \in Workers, Worker(w)
    PROVE  WellKept'
<1> w \in Fibers /\ w \notin Clients
  BY Apart
<1>0. OthersFrame(w) /\ pc'[w] \notin Stranding
  BY WorkerLocal, NoStranding DEF LocalTo
<1>1. CASE PollLane(w)
  BY <1>1, PollKeys
<1>2. CASE \/ WorkerLoop(w) \/ AwaitLatch(w) \/ TakeNextEmpty(w) \/ WorkerWoken(w)
           \/ RateLimitAwait(w) \/ StartItem(w)
  <2>1. UNCHANGED <<lanes, hand, kept, entry, activeKeys, op, cur>>
    <3>1. CASE WorkerLoop(w) \/ AwaitLatch(w) \/ TakeNextEmpty(w)
      BY <3>1 DEF WorkerLoop, AwaitLatch, TakeNextEmpty
    <3>2. CASE WorkerWoken(w) \/ RateLimitAwait(w) \/ StartItem(w)
      BY <3>2 DEF WorkerWoken, RateLimitAwait, StartItem
    <3> QED
      BY <1>2, <3>1, <3>2
  <2>2. \/ pc[w] \in {"loop", "latch1", "check", "wait"}
        \/ pc'[w] \in {"rate", "shut2", "start", "skip", "run"}
    <3>1. \/ pc[w] \in {"loop", "latch1", "check", "wait"}
          \/ \E label \in {"rate", "shut2", "start", "skip", "run"} : GoTo(w, label)
      BY <1>2 DEF WorkerLoop, AwaitLatch, TakeNextEmpty, WorkerWoken, RateLimitAwait,
                  StartItem
    <3> QED
      BY <3>1, FrameOf
  <2>3. KeyHolder(w) => KeyHolder(w)'
    BY <2>2 DEF KeyHolder, Holds, Enqueuing, EnqueueLabels
  <2> QED
    BY <1>0, <2>1, <2>3, CalmKeys
<1>3. CASE SkipRateLimitedItem(w) \/ ReleaseKey(w)
  <2>1. UNCHANGED <<lanes, hand, kept, entry>>
    BY <1>3 DEF SkipRateLimitedItem, ReleaseKey
  <2>2. activeKeys' = activeKeys \ {KeyOfEntry(cur[w])}
    BY <1>3 DEF SkipRateLimitedItem, ReleaseKey
  <2> QED
    BY <1>0, <2>1, <2>2, CalmKeys
<1>4. CASE CtxEnqueue(w)
  <2>1. UNCHANGED <<lanes, hand, kept, entry, activeKeys>>
    BY <1>4 DEF CtxEnqueue
  <2>2. \E items, level : CallEnqueue(w, "ctx", items, level, cur[w])
    BY <1>4, Zenon DEF CtxEnqueue
  <2>3. op'[w] = "ctx" /\ pc'[w] = "enq" /\ cur'[w] = cur[w]
    BY <2>2 DEF CallEnqueue, TypeOK, FramesOK
  <2>4. KeyHolder(w)'
    BY <2>3 DEF KeyHolder, Holds, Enqueuing, EnqueueLabels
  <2> QED
    BY <1>0, <2>1, <2>3, <2>4, CalmKeys
<1>5. CASE EffectExits(w)
  <2>1. UNCHANGED <<lanes, hand, kept, entry, activeKeys, cur>>
    BY <1>5 DEF EffectExits
  <2>2. pc'[w] = "unkey"
    <3>1. GoTo(w, "unkey")
      BY <1>5 DEF EffectExits
    <3> QED
      BY Zenon, <3>1, FrameOf
  <2>3. KeyHolder(w)'
    BY <2>2 DEF KeyHolder, Holds
  <2> QED
    BY <1>0, <2>1, <2>3, CalmKeys
<1>6. CASE SettleItem(w) \/ DisposeFailure(w) \/ RetryRelease(w) \/ ReleasePermit(w)
  <2>1. UNCHANGED <<lanes, hand, kept, entry>> /\ activeKeys' \subseteq activeKeys
    BY <1>6 DEF SettleItem, DisposeFailure, RetryRelease, ReleasePermit
  <2>2. ~KeyHolder(w)
    <3>1. pc[w] \in {"settle", "dispose", "requeue", "permit"}
      BY <1>6 DEF SettleItem, DisposeFailure, RetryRelease, ReleasePermit
    <3> QED
      BY <3>1 DEF KeyHolder, Holds, Enqueuing, EnqueueLabels
  <2> QED
    BY <1>0, <2>1, <2>2, CalmKeys
<1> QED
  BY <1>1, <1>2, <1>3, <1>4, <1>5, <1>6 DEF Worker

LEMMA MonitorKeys ==
    ASSUME TypeOK, TypeOK', WellKept, Monitor
    PROVE  WellKept'
<1>1. DrainMonitor \in Fibers /\ DrainMonitor \notin Clients /\ DrainMonitor \notin Workers
  BY FibersAssumption
<1>2. UNCHANGED <<lanes, hand, kept, entry, activeKeys>>
  BY DEF Monitor, MonitorLoop, MonitorWoken, MonitorCheck, MonitorLoad
<1> QED
  BY <1>1, <1>2, MonitorLocal, NoStranding, CalmKeys DEF LocalTo

(* The subroutines.                                                           *)
LEMMA MintKeys ==
    ASSUME TypeOK, WellKept, NEW f \in Fibers, OthersFrame(f), Mint(f),
           UNCHANGED <<lanes, kept, op, cur>>,
           pc[f] \in {"dedup", "claim"}, pc'[f] = "dedup",
           activeKeys' = activeKeys \/
             activeKeys' = activeKeys \cup {KeyOf[Head(todo[f])]}
    PROVE  WellKept'
<1> DEFINE n == Len(entry) + 1
<1>1. /\ SameItems /\ n \in EntryIds' /\ entry'[n].item = Head(todo[f])
      /\ n \notin EntryIds
  <2>1. entry \in Seq(EntryRecords)
    BY DEF TypeOK, StoreOK
  <2>2. Len(entry) \in Nat /\ EntryIds' = EntryIds \cup {n} /\ n \notin EntryIds
        /\ entry'[n] = NewEntry(f) /\ \A e \in EntryIds : entry'[e] = entry[e]
    BY <2>1 DEF Mint, EntryIds
  <2> QED
    BY <2>2 DEF SameItems, NewEntry
<1>2. /\ hand' = [hand EXCEPT ![f] = Append(@, n)]
      /\ hand[f] \in Seq(EntryIds)
  BY DEF Mint, TypeOK, PlacesOK
<1>3. hand'[f] = Append(hand[f], n) /\ \A g \in Fibers \ {f} : hand'[g] = hand[g]
  BY Zenon, <1>2, FrameOf
<1>4. Range(hand'[f]) = Range(hand[f]) \cup {n}
  <2>1. hand[f] \in Seq(EntryIds \cup {n}) /\ Range(hand[f]) \subseteq EntryIds
    BY <1>2, SeqMonotone, RangeOf
  <2> QED
    BY <1>1, <1>3, <2>1, AppendRange
<1>5. OwnersStay
  <2>1. Alone(f)
    BY <1>3 DEF Alone
  <2>2. f \in Workers /\ KeyHolder(f) => KeyTold(cur[f])
    <3>1. KeyHolder(f) => KeyHolder(f)'
      BY DEF KeyHolder, Holds, Enqueuing, EnqueueLabels
    <3> QED
      BY <3>1, SameWorkOwns
  <2> QED
    BY <1>4, <2>1, <2>2, SameLanesOwn, SameHandOwns, AloneOwners DEF Stranding
<1>6. PICK m : m = n
  OBVIOUS
<1>7. KeysOwned'
  <2>1. OwnsKey(m)'
    <3>1. m \in Range(hand'[f]) /\ pc'[f] \notin Stranding
      BY <1>4, <1>6 DEF Stranding
    <3> QED
      BY <3>1 DEF OwnsKey, Stranding
  <2>2. m \in EntryIds' /\ KeyOfEntry(m)' = KeyOf[Head(todo[f])]
    BY <1>1, <1>6 DEF KeyOfEntry
  <2> QED
    BY <1>1, <1>5, <2>1, <2>2, OwnedStays DEF WellKept
<1>8. NoRestores'
  BY DEF WellKept, NoRestores, OthersFrame, SameFrame
<1> QED
  BY <1>7, <1>8 DEF WellKept

LEMMA OfferKeys ==
    ASSUME TypeOK, WellKept, NEW f \in Fibers, Offer(f)
    PROVE  WellKept'
<1>0. /\ pc[f] = "offer" /\ UNCHANGED <<entry, activeKeys, op, cur, kept>>
      /\ GoTo(f, IF Len(hand[f]) = 1 THEN "wake1" ELSE "offer")
      /\ hand' = [hand EXCEPT ![f] = Tail(@)]
      /\ hand[f] # <<>> /\ hand[f] \in Seq(EntryIds)
  BY DEF Offer, TypeOK, FrameOK, PlacesOK
<1>1. PICK e : e = Head(hand[f])
  OBVIOUS
<1>2. e \in EntryIds
  BY <1>0, <1>1, HeadTailProperties
<1>3. PICK l \in Levels : l = LaneOf(e)
  BY <1>2, LaneOfLevel
<1>4. lanes' = [lanes EXCEPT ![l] = Append(@, e)]
  BY <1>1, <1>3 DEF Offer
<1>5. Range(lanes'[l]) = Range(lanes[l]) \cup {e} /\ \A k \in Levels \ {l} : lanes'[k] = lanes[k]
  BY <1>2, <1>4, LaneGrows
<1>6. /\ pc'[f] \in {"wake1", "offer"}
      /\ hand'[f] = Tail(hand[f]) /\ \A g \in Fibers \ {f} : hand'[g] = hand[g]
  <2>1. PICK label \in {"wake1", "offer"} : GoTo(f, label)
    BY <1>0
  <2>2. pc'[f] \in {"wake1", "offer"}
    <3>1. pc'[f] = label
      BY <2>1, FrameOf
    <3> QED
      BY <3>1
  <2>3. hand'[f] = Tail(hand[f]) /\ \A g \in Fibers \ {f} : hand'[g] = hand[g]
    BY <1>0, FrameOf
  <2> QED
    BY <2>2, <2>3
<1>7. Alone(f)
  BY <1>0, <1>6, SubroutineLocal DEF Alone, LocalTo, Subroutine
<1>8. \A k \in Levels : \A g \in Range(lanes[k]) : KeyTold(g)
  BY <1>5 DEF KeyTold, OwnsKey
<1>9. \A g \in Range(hand[f]) \cup Range(kept[f]) : KeyTold(g)
  <2> SUFFICES ASSUME NEW g \in Range(hand[f]) \cup Range(kept[f]) PROVE OwnsKey(g)'
    BY DEF KeyTold
  <2>1. CASE g = e
    BY <1>5, <2>1 DEF OwnsKey
  <2>2. CASE g \in Range(hand'[f]) \cup Range(kept'[f])
    BY <1>6, <2>2 DEF OwnsKey
  <2>3. g \in Range(hand[f]) => g = e \/ g \in Range(Tail(hand[f]))
    BY <1>0, <1>1, HeadOrTail
  <2> QED
    BY <1>0, <1>6, <2>1, <2>2, <2>3
<1>10. f \in Workers /\ KeyHolder(f) => KeyTold(cur[f])
  <2>1. KeyHolder(f) => KeyHolder(f)'
    BY <1>0, <1>6 DEF KeyHolder, Holds, Enqueuing, EnqueueLabels
  <2> QED
    BY <1>0, <2>1, SameWorkOwns
<1>11. OwnersStay
  BY <1>7, <1>8, <1>9, <1>10, AloneOwners
<1>12. SameItems
  BY <1>0 DEF SameItems, EntryIds
<1>13. NoRestores'
  BY <1>6, <1>7 DEF WellKept, NoRestores, Alone, OthersFrame, SameFrame
<1> QED
  BY <1>0, <1>11, <1>12, <1>13, OwnedStays DEF WellKept

LEMMA SubroutineKeys ==
    ASSUME TypeOK, WellKept, NEW f \in Fibers, Subroutine(f)
    PROVE  WellKept'
<1>0. LocalTo(f) /\ OthersFrame(f)
  BY SubroutineLocal DEF LocalTo
<1>1. CASE \/ EnqueueShutdownCheck(f) \/ DedupDone(f) \/ SignalWorkerWake(f)
           \/ SignalDrainWake(f) \/ WakeDrainedIfEmpty(f) \/ FinalizeRead(f)
           \/ FinalizeSet(f)
  <2>1. UNCHANGED <<lanes, hand, kept, entry>> /\ (f \in Workers => cur'[f] = cur[f])
    BY <1>1, SubroutineFrame
  <2>2. activeKeys' = activeKeys
    <3>1. CASE EnqueueShutdownCheck(f) \/ DedupDone(f) \/ SignalWorkerWake(f)
      BY <3>1 DEF EnqueueShutdownCheck, DedupDone, SignalWorkerWake
    <3>2. CASE SignalDrainWake(f) \/ WakeDrainedIfEmpty(f) \/ FinalizeRead(f) \/ FinalizeSet(f)
      BY <3>2 DEF SignalDrainWake, WakeDrainedIfEmpty, FinalizeRead, FinalizeSet
    <3> QED
      BY <1>1, <3>1, <3>2
  <2>3. pc'[f] \notin Stranding \cup {"settle", "dispose"}
    <3>1. \/ pc'[f] \in {"dedup", "offer", "wake2", "drain1", "drain2", "fin2"}
          \/ \E label \in {AfterEnqueue(f), AfterWorkerWake(f), AfterDrainWake(f),
                           AfterFinalize(f)} : Return(f, label)
      BY <1>1, SubroutineMoves
    <3>2. {AfterEnqueue(f), AfterWorkerWake(f), AfterDrainWake(f), AfterFinalize(f)}
            \cap (Stranding \cup {"settle", "dispose"}) = {}
      BY DEF AfterEnqueue, AfterWorkerWake, AfterDrainWake, AfterFinalize, Stranding
    <3> QED
      BY <3>1, <3>2, ReturnsFrame DEF Stranding
  <2>4. f \in Workers => (KeyHolder(f) => KeyHolder(f)')
    BY <1>1, <2>3, SubroutineHolds DEF KeyHolder
  <2> QED
    BY <1>0, <2>1, <2>2, <2>3, <2>4, CalmKeys
<1>2. CASE DedupCheck(f)
  <2>1. /\ pc[f] = "dedup" /\ UNCHANGED <<lanes, kept, activeKeys, op, cur>>
        /\ \/ Mint(f) /\ UNCHANGED pc
           \/ UNCHANGED <<entry, hand>> /\ (UNCHANGED pc \/ GoTo(f, "claim"))
    BY <1>2, Zenon DEF DedupCheck
  <2>2. CASE Mint(f) /\ UNCHANGED pc
    BY <1>0, <2>1, <2>2, MintKeys
  <2>3. CASE UNCHANGED <<entry, hand>> /\ (UNCHANGED pc \/ GoTo(f, "claim"))
    <3>1. pc'[f] \in {"dedup", "claim"}
      BY <2>1, <2>3, FrameOf
    <3>2. KeyHolder(f) => KeyHolder(f)'
      BY <2>1, <3>1 DEF KeyHolder, Holds, Enqueuing, EnqueueLabels
    <3> QED
      BY <1>0, <2>1, <2>3, <3>1, <3>2, CalmKeys DEF Stranding
  <2> QED
    BY <2>1, <2>2, <2>3
<1>3. CASE ClaimKey(f)
  <2>1. /\ pc[f] = "claim" /\ Mint(f) /\ GoTo(f, "dedup")
        /\ UNCHANGED <<lanes, kept, op, cur>>
        /\ activeKeys' = activeKeys \cup {KeyOf[Head(todo[f])]}
    BY <1>3 DEF ClaimKey
  <2>2. pc'[f] = "dedup"
    <3>1. GoTo(f, "dedup")
      BY <2>1
    <3> QED
      BY <3>1, FrameOf
  <2> QED
    BY <1>0, <2>1, <2>2, MintKeys
<1>4. CASE Offer(f)
  BY <1>4, OfferKeys
<1> QED
  BY <1>1, <1>2, <1>3, <1>4 DEF Subroutine

(* Opening the latch and forking.                                             *)
LEMMA ReachKeys ==
    ASSUME TypeOK, TypeOK', Accounts, WellKept, NEW c \in Clients, ReachesOthers(c)
    PROVE  WellKept'
<1> c \in Fibers /\ c \notin Workers
  BY NotWorker
<1>1. UNCHANGED <<lanes, hand, kept, entry, activeKeys, cur>>
  BY DEF ReachesOthers, CallResume, DrainModeOpensLatch, ForkProcessingFibers
<1>2. \A f \in Fibers \ {c} : op'[f] = op[f]
  <2>1. UNCHANGED op \/ \E v : op' = [op EXCEPT ![c] = v]
    BY Zenon DEF ReachesOthers, CallResume, DrainModeOpensLatch, ForkProcessingFibers
  <2> QED
    BY <2>1, FrameOf
<1>3. \A f \in Fibers : \/ pc'[f] = pc[f]
                        \/ pc'[f] \notin Stranding /\ ~(f \in Workers /\ Holds(f))
                        \/ f # c /\ pc'[f] = "rate"
  <2>1. CASE CallResume(c) \/ DrainModeOpensLatch(c)
    BY <2>1 DEF CallResume, DrainModeOpensLatch, OpenLatch, Stranding, Holds, Enqueuing,
                EnqueueLabels
  <2>2. CASE ForkProcessingFibers(c)
    <3>1. pc' = [IF workersStarted THEN pc ELSE ForkWorkers EXCEPT ![c] = "idle"]
      BY <2>2 DEF ForkProcessingFibers
    <3>2. ~workersStarted => \A w \in Workers : ~Holds(w)
      BY DEF Accounts, Unstarted, Holds, Enqueuing, EnqueueLabels
    <3>3. CASE workersStarted
      BY <3>1, <3>3 DEF TypeOK, FramesOK, Stranding
    <3>4. CASE ~workersStarted
      BY <3>1, <3>2, <3>4 DEF TypeOK, FramesOK, ForkWorkers, Stranding
    <3> QED
      BY <3>3, <3>4
  <2> QED
    BY <2>1, <2>2 DEF ReachesOthers
<1>4. \A w \in Workers : KeyHolder(w) => KeyHolder(w)'
  <2> SUFFICES ASSUME NEW w \in Workers, KeyHolder(w) PROVE KeyHolder(w)'
    OBVIOUS
  <2>1. w \in Fibers /\ w # c
    BY Apart
  <2>2. pc'[w] = pc[w] \/ pc'[w] = "rate"
    BY <1>3, <2>1 DEF KeyHolder
  <2> QED
    BY <1>2, <2>1, <2>2 DEF KeyHolder, Holds, Enqueuing
<1>5. OwnersStay
  <2> SUFFICES ASSUME NEW e \in EntryIds, OwnsKey(e)
               PROVE  OwnsKey(e)'
    BY DEF OwnersStay, KeyTold
  <2>1. \A f \in Fibers : pc[f] \notin Stranding => pc'[f] \notin Stranding
    BY <1>3 DEF Stranding
  <2>2. CASE \E l \in Levels : e \in Range(lanes[l])
    BY <1>1, <2>2 DEF OwnsKey
  <2>3. CASE \E f \in Fibers : e \in Range(hand[f]) \cup Range(kept[f]) /\ pc[f] \notin Stranding
    BY <1>1, <2>1, <2>3 DEF OwnsKey, Stranding
  <2>4. CASE \E w \in Workers : KeyHolder(w) /\ cur[w] = e
    BY <1>1, <1>4, <2>4 DEF OwnsKey, KeyHolder
  <2> QED
    BY <2>2, <2>3, <2>4 DEF OwnsKey, Stranding, KeyHolder
<1>6. SameItems
  BY <1>1 DEF SameItems, EntryIds
<1>7. NoRestores'
  BY <1>3 DEF WellKept, NoRestores, Stranding
<1> QED
  BY <1>1, <1>5, <1>6, <1>7, OwnedStays DEF WellKept

(* Extraction: an entry leaves a lane for the hands, or the hands for a lane.  *)
LEMMA DrainKeys ==
    ASSUME TypeOK, WellKept, NEW c \in Clients, DrainLane(c)
    PROVE  WellKept'
<1> c \in Fibers /\ c \notin Workers
  BY NotWorker
<1>0. OthersFrame(c)
  BY ClientLocal DEF LocalTo, ClientStep, ReachesOthers, CallResume, DrainLane,
                     DrainModeOpensLatch, ForkProcessingFibers
<1>1. PICK l \in Levels : l = scan[c]
  BY DEF TypeOK, FramesOK
<1>2. /\ pc[c] = "drain" /\ UNCHANGED <<entry, activeKeys>>
      /\ \/ /\ lanes[l] # <<>> /\ lanes' = [lanes EXCEPT ![l] = Tail(@)]
            /\ \/ hand' = [hand EXCEPT ![c] = Append(@, Head(lanes[l]))] /\ UNCHANGED kept
               \/ kept' = [kept EXCEPT ![c] = Append(@, Head(lanes[l]))] /\ UNCHANGED hand
            /\ UNCHANGED pc
         \/ /\ UNCHANGED <<lanes, hand, kept>>
            /\ \E label \in {"putback", "drain", "keys"} : GoTo(c, label)
  BY <1>1 DEF DrainLane, NextLane
<1>3. CASE /\ UNCHANGED <<lanes, hand, kept>>
           /\ \E label \in {"putback", "drain", "keys"} : GoTo(c, label)
  <2>1. pc'[c] \notin Stranding
    BY Zenon, <1>3, FrameOf DEF Stranding
  <2> QED
    BY <1>0, <1>2, <1>3, <2>1, CalmKeys
<1>4. CASE /\ lanes[l] # <<>> /\ lanes' = [lanes EXCEPT ![l] = Tail(@)]
           /\ \/ hand' = [hand EXCEPT ![c] = Append(@, Head(lanes[l]))] /\ UNCHANGED kept
              \/ kept' = [kept EXCEPT ![c] = Append(@, Head(lanes[l]))] /\ UNCHANGED hand
           /\ UNCHANGED pc
  <2>1. PICK x : x = Head(lanes[l])
    OBVIOUS
  <2>2. lanes[l] \in Seq(EntryIds) /\ x \in EntryIds
    BY <1>4, <2>1, HeadTailProperties DEF TypeOK, PlacesOK
  <2>3. \A k \in Levels : lanes'[k] = IF k = l THEN Tail(lanes[l]) ELSE lanes[k]
    BY <1>4 DEF TypeOK, PlacesOK
  <2>4. /\ Range(hand[c]) \subseteq Range(hand'[c]) /\ Range(kept[c]) \subseteq Range(kept'[c])
        /\ x \in Range(hand'[c]) \cup Range(kept'[c])
        /\ \A g \in Fibers \ {c} : hand'[g] = hand[g] /\ kept'[g] = kept[g]
    <3>1. hand[c] \in Seq(EntryIds) /\ kept[c] \in Seq(EntryIds)
      BY DEF TypeOK, PlacesOK
    <3>2. CASE hand' = [hand EXCEPT ![c] = Append(@, x)] /\ UNCHANGED kept
      <4>1. hand'[c] = Append(hand[c], x) /\ \A g \in Fibers \ {c} : hand'[g] = hand[g]
        BY <3>2, FrameOf
      <4>2. Range(hand'[c]) = Range(hand[c]) \cup {x}
        BY <2>2, <3>1, <4>1, AppendRange
      <4> QED
        BY <3>2, <4>1, <4>2
    <3>3. CASE kept' = [kept EXCEPT ![c] = Append(@, x)] /\ UNCHANGED hand
      <4>1. kept'[c] = Append(kept[c], x) /\ \A g \in Fibers \ {c} : kept'[g] = kept[g]
        BY <3>3, FrameOf
      <4>2. Range(kept'[c]) = Range(kept[c]) \cup {x}
        BY <2>2, <3>1, <4>1, AppendRange
      <4> QED
        BY <3>3, <4>1, <4>2
    <3> QED
      BY <1>4, <2>1, <3>2, <3>3
  <2>5. pc'[c] = "drain"
    BY <1>2, <1>4
  <2>6. \A k \in Levels : \A e \in Range(lanes[k]) : KeyTold(e)
    <3> SUFFICES ASSUME NEW k \in Levels, NEW e \in Range(lanes[k]) PROVE OwnsKey(e)'
      BY DEF KeyTold
    <3>1. CASE e \in Range(lanes'[k])
      BY <3>1 DEF OwnsKey
    <3>2. CASE e = x
      BY <2>4, <2>5, <3>2 DEF OwnsKey
    <3>3. \A y \in Range(lanes[l]) : y = Head(lanes[l]) \/ y \in Range(Tail(lanes[l]))
      BY <1>4, <2>2, HeadOrTail
    <3> QED
      BY <2>1, <2>3, <3>1, <3>2, <3>3
  <2>7. OwnersStay
    <3>1. Alone(c)
      BY <1>0, <2>4 DEF Alone
    <3>2. \A e \in Range(hand[c]) \cup Range(kept[c]) : KeyTold(e)
      BY <2>4, <2>5, SameHandOwns DEF Stranding
    <3> QED
      BY <2>6, <3>1, <3>2, AloneOwners
  <2>8. SameItems
    BY <1>2 DEF SameItems, EntryIds
  <2>9. NoRestores'
    BY <1>0, <2>5 DEF WellKept, NoRestores, OthersFrame, SameFrame
  <2> QED
    BY <1>2, <2>7, <2>8, <2>9, OwnedStays DEF WellKept
<1> QED
  BY <1>2, <1>3, <1>4

LEMMA PutBackKeys ==
    ASSUME TypeOK, WellKept, NEW c \in Clients, PutBack(c)
    PROVE  WellKept'
<1> c \in Fibers /\ c \notin Workers
  BY NotWorker
<1>0. OthersFrame(c)
  BY ClientLocal DEF LocalTo, ClientStep, ReachesOthers, CallResume, PutBack,
                     DrainModeOpensLatch, ForkProcessingFibers
<1>a. PICK l \in Levels : l = scan[c]
  BY DEF TypeOK, FramesOK
<1>b. PICK x : x = Head(kept[c])
  OBVIOUS
<1>1. l = scan[c] /\ x = Head(kept[c])
  BY <1>a, <1>b
<1>2. /\ pc[c] = "putback" /\ UNCHANGED <<entry, activeKeys, hand>>
      /\ lanes' = [lanes EXCEPT ![l] = Append(@, x)]
      /\ kept' = [kept EXCEPT ![c] = Tail(@)]
      /\ UNCHANGED pc \/ \E label \in {"drain", "keys"} : GoTo(c, label)
  BY <1>1 DEF PutBack, NextLane
<1>3. kept[c] # <<>> /\ kept[c] \in Seq(EntryIds) /\ x \in EntryIds
  <2>1. kept[c] # <<>> /\ kept[c] \in Seq(EntryIds)
    BY <1>2 DEF TypeOK, FrameOK, PlacesOK
  <2> QED
    BY <1>1, <2>1, HeadTailProperties
<1>4. /\ Range(lanes'[l]) = Range(lanes[l]) \cup {x}
      /\ \A k \in Levels \ {l} : lanes'[k] = lanes[k]
  BY <1>2, <1>3, LaneGrows
<1>5. kept'[c] = Tail(kept[c]) /\ \A g \in Fibers \ {c} : kept'[g] = kept[g]
  BY <1>2, FrameOf
<1>6. pc'[c] \in {"putback", "drain", "keys"}
  <2>1. CASE UNCHANGED pc
    BY <1>2, <2>1
  <2>2. CASE \E label \in {"drain", "keys"} : GoTo(c, label)
    <3>1. PICK label \in {"drain", "keys"} : GoTo(c, label)
      BY <2>2
    <3>2. pc'[c] = label
      BY <3>1, FrameOf
    <3> QED
      BY <3>2
  <2> QED
    BY <1>2, <2>1, <2>2
<1>7. \A k \in Levels : \A e \in Range(lanes[k]) : KeyTold(e)
  BY <1>4 DEF KeyTold, OwnsKey
<1>8. \A e \in Range(hand[c]) \cup Range(kept[c]) : KeyTold(e)
  <2> SUFFICES ASSUME NEW e \in Range(hand[c]) \cup Range(kept[c]) PROVE OwnsKey(e)'
    BY DEF KeyTold
  <2>1. CASE e = x
    BY <1>a, <1>4, <2>1 DEF OwnsKey
  <2>2. CASE e \in Range(hand'[c]) \cup Range(kept'[c])
    BY <1>6, <2>2 DEF OwnsKey
  <2>3. e \in Range(kept[c]) => e = x \/ e \in Range(Tail(kept[c]))
    BY <1>1, <1>3, HeadOrTail
  <2> QED
    BY <1>2, <1>5, <2>1, <2>2, <2>3
<1>9. OwnersStay
  <2>1. Alone(c)
    BY <1>0, <1>2, <1>5 DEF Alone
  <2> QED
    BY <1>7, <1>8, <2>1, AloneOwners
<1>10. SameItems
  BY <1>2 DEF SameItems, EntryIds
<1>11. NoRestores'
  BY <1>0, <1>6 DEF WellKept, NoRestores, OthersFrame, SameFrame
<1> QED
  BY <1>2, <1>9, <1>10, <1>11, OwnedStays DEF WellKept

LEMMA ReleaseKeysKeys ==
    ASSUME TypeOK, TypeOK', FramesClear, WellKept, NEW c \in Clients, ReleaseKeys(c)
    PROVE  WellKept'
<1> c \in Fibers /\ c \notin Workers
  BY NotWorker
<1>0. OthersFrame(c)
  BY ClientLocal DEF LocalTo, ClientStep, ReachesOthers, CallResume, ReleaseKeys,
                     DrainModeOpensLatch, ForkProcessingFibers
<1>1. /\ pc[c] = "keys" /\ UNCHANGED <<lanes, entry, kept>>
      /\ activeKeys' = activeKeys \ KeysOf(Range(hand[c]))
      /\ UNCHANGED hand \/ \E v : hand' = [hand EXCEPT ![c] = v]
      /\ GoTo(c, "encode") \/ GoTo(c, AfterKeys(op[c]))
  BY DEF ReleaseKeys
<1>2. kept[c] = <<>>
  BY <1>1 DEF FramesClear, KeptLabels
<1>3. \A g \in Fibers \ {c} : hand'[g] = hand[g]
  BY <1>1, FrameOf
<1>4. pc'[c] \notin {"restore", "rekey"}
  BY <1>1, FrameOf DEF AfterKeys
<1>5. \A e \in Range(hand[c]) : KeyTold(e)
  <2>1. activeKeys \subseteq Keys /\ NoKey \notin Keys
    BY ConfigAssumption DEF TypeOK, StoreOK
  <2> QED
    BY <1>1, <2>1 DEF KeyTold, KeysOf
<1>6. OwnersStay
  <2>1. Alone(c)
    BY <1>0, <1>1, <1>3 DEF Alone
  <2>2. \A e \in Range(hand[c]) \cup Range(kept[c]) : KeyTold(e)
    BY <1>2, <1>5, EmptyRange
  <2> QED
    BY <1>1, <2>1, <2>2, SameLanesOwn, AloneOwners
<1>7. SameItems
  BY <1>1 DEF SameItems, EntryIds
<1>8. NoRestores'
  BY <1>0, <1>4 DEF WellKept, NoRestores, OthersFrame, SameFrame
<1> QED
  BY <1>1, <1>6, <1>7, <1>8, OwnedStays DEF WellKept

LEMMA EncodedKeys ==
    ASSUME TypeOK, WellKept, NEW c \in Clients, EncodeReleased(c), ~Spend("encodeError")
    PROVE  WellKept'
<1> c \in Fibers /\ c \notin Workers
  BY NotWorker
<1>0. OthersFrame(c)
  BY ClientLocal DEF LocalTo, ClientStep, ReachesOthers, CallResume, EncodeReleased,
                     DrainModeOpensLatch, ForkProcessingFibers
<1>1. /\ pc[c] = "encode" /\ UNCHANGED <<lanes, entry, kept, activeKeys>>
      /\ hand' = [hand EXCEPT ![c] = <<>>] /\ GoTo(c, "empty")
  BY DEF EncodeReleased
<1>3. \A g \in Fibers \ {c} : hand'[g] = hand[g]
  BY <1>1, FrameOf
<1>4. pc'[c] = "empty"
  <2>1. GoTo(c, "empty")
    BY <1>1
  <2> QED
    BY Zenon, <2>1, FrameOf
<1>5. OwnersStay
  <2>1. Alone(c)
    BY <1>0, <1>1, <1>3 DEF Alone
  <2> QED
    BY <1>1, <2>1, SameLanesOwn, AloneOwners DEF Stranding
<1>6. SameItems
  BY <1>1 DEF SameItems, EntryIds
<1>7. NoRestores'
  BY <1>0, <1>4 DEF WellKept, NoRestores, OthersFrame, SameFrame
<1> QED
  BY <1>1, <1>5, <1>6, <1>7, OwnedStays DEF WellKept

LEMMA ClientKeys ==
    ASSUME TypeOK, TypeOK', Accounts, FramesClear, WellKept, NEW c \in Clients,
           ClientCall(c) \/ ClientStep(c), ~InterruptCall(c),
           EncodeReleased(c) => ~Spend("encodeError")
    PROVE  WellKept'
<1> c \in Fibers /\ c \notin Workers
  BY NotWorker
<1>1. CASE ReachesOthers(c)
  BY <1>1, ReachKeys
<1>2. CASE DrainLane(c) \/ PutBack(c) \/ ReleaseKeys(c) \/ EncodeReleased(c)
  BY <1>2, DrainKeys, PutBackKeys, ReleaseKeysKeys, EncodedKeys
<1>3. CASE RestorePending(c) \/ RestoreActiveKey(c)
  BY <1>3 DEF RestorePending, RestoreActiveKey, WellKept, NoRestores
<1>4. CASE CallAdd(c) \/ CallEnqueueEntry(c)
  <2>1. UNCHANGED <<lanes, hand, kept, entry, activeKeys>>
    BY <1>4 DEF CallAdd, CallEnqueueEntry
  <2>2. \E o, items, level, e : CallEnqueue(c, o, items, level, e)
    BY <1>4, Zenon DEF CallAdd, CallEnqueueEntry
  <2>3. pc'[c] = "enq"
    <3>1. GoTo(c, "enq")
      BY <2>2 DEF CallEnqueue
    <3> QED
      BY Zenon, <3>1, FrameOf
  <2>4. OthersFrame(c)
    BY <2>2, LocalFrames DEF CallEnqueue, LocalTo
  <2> QED
    BY <2>1, <2>3, <2>4, CalmKeys DEF Stranding
<1>5. CASE /\ ~ReachesOthers(c)
           /\ CallPause(c) \/ CallShutdown(c) \/ CallExtract(c) \/ CallStart(c)
  <2>1. PICK label \in {"setPaused", "setShutdown", "idle", "drain", "claimStart"} :
          \E o, s : Call(c, o, label, s)
    BY <1>5, Zenon DEF CallPause, CallShutdown, CallExtract, CallStart
  <2>2. UNCHANGED <<lanes, hand, kept, entry, activeKeys>> /\ GoTo(c, label)
    BY <2>1 DEF Call
  <2>3. pc'[c] = label
    BY <2>2, FrameOf
  <2>4. OthersFrame(c)
    BY <1>5, ClientLocal DEF LocalTo
  <2> QED
    BY <2>1, <2>2, <2>3, <2>4, CalmKeys DEF Stranding
<1>6. CASE ~ReachesOthers(c) /\ (SetPaused(c) \/ SetShutdown(c) \/ ResetCompleted(c))
  <2>1. UNCHANGED <<lanes, hand, kept, entry, activeKeys>>
    BY <1>6 DEF SetPaused, SetShutdown, ResetCompleted
  <2>2. pc'[c] \in {"idle", "wake1", "drain", "wind", "empty"}
    <3>1. CASE SetPaused(c)
      <4>1. Return(c, "idle") \/ Return(c, "wake1")
        BY <3>1 DEF SetPaused
      <4> QED
        BY <4>1, ReturnsFrame
    <3>2. CASE SetShutdown(c) \/ ResetCompleted(c)
      <4>1. PICK label \in {"drain", "wind", "empty"} : GoTo(c, label)
        BY <3>2 DEF SetShutdown, ResetCompleted
      <4>2. pc'[c] = label
        BY <4>1, FrameOf
      <4> QED
        BY <4>2
    <3> QED
      BY <1>6, <3>1, <3>2
  <2>3. OthersFrame(c)
    BY <1>6, ClientLocal DEF LocalTo
  <2> QED
    BY <2>1, <2>2, <2>3, CalmKeys DEF Stranding
<1> QED
  BY <1>1, <1>2, <1>3, <1>4, <1>5, <1>6, Zenon DEF ClientCall, ClientStep, ReachesOthers

(* Calls are only ever spent.                                                 *)
LEMMA NextSpends ==
    ASSUME Next
    PROVE  left' = left \/ \E o \in OpNames : Spend(o)
<1>1. ASSUME NEW w \in Workers, Worker(w)
      PROVE  left' = left \/ \E o \in {"ctx", "failure"} : Spend(o)
  <2>1. CASE WorkerLoop(w) \/ AwaitLatch(w) \/ PollLane(w) \/ TakeNextEmpty(w)
    BY <2>1 DEF WorkerLoop, AwaitLatch, PollLane, TakeNextEmpty
  <2>2. CASE WorkerWoken(w) \/ RateLimitAwait(w) \/ SkipRateLimitedItem(w) \/ StartItem(w)
    BY <2>2 DEF WorkerWoken, RateLimitAwait, SkipRateLimitedItem, StartItem
  <2>3. CASE CtxEnqueue(w) \/ EffectExits(w) \/ ReleaseKey(w)
    BY <2>3, Zenon DEF CtxEnqueue, EffectExits, ReleaseKey
  <2>4. CASE SettleItem(w) \/ DisposeFailure(w) \/ RetryRelease(w) \/ ReleasePermit(w)
    BY <2>4 DEF SettleItem, DisposeFailure, RetryRelease, ReleasePermit
  <2> QED
    BY <1>1, <2>1, <2>2, <2>3, <2>4 DEF Worker
<1>2. ASSUME Monitor
      PROVE  left' = left \/ Spend("refill")
  BY <1>2 DEF Monitor, MonitorLoop, MonitorWoken, MonitorCheck, MonitorLoad
<1>3. ASSUME NEW f \in Fibers, Subroutine(f)
      PROVE  left' = left
  <2>1. CASE EnqueueShutdownCheck(f) \/ DedupCheck(f) \/ ClaimKey(f) \/ DedupDone(f) \/ Offer(f)
    BY <2>1, Zenon DEF EnqueueShutdownCheck, DedupCheck, ClaimKey, DedupDone, Offer
  <2>2. CASE SignalWorkerWake(f) \/ SignalDrainWake(f)
    BY <2>2 DEF SignalWorkerWake, SignalDrainWake
  <2>3. CASE WakeDrainedIfEmpty(f) \/ FinalizeRead(f) \/ FinalizeSet(f)
    BY <2>3 DEF WakeDrainedIfEmpty, FinalizeRead, FinalizeSet
  <2> QED
    BY <1>3, <2>1, <2>2, <2>3 DEF Subroutine
<1>4. ASSUME NEW c \in Clients, ClientCall(c)
      PROVE  \E o \in OpNames : Spend(o)
  <2>1. CASE CallAdd(c) \/ CallEnqueueEntry(c) \/ CallResume(c) \/ InterruptCall(c)
    BY <2>1 DEF CallAdd, CallEnqueueEntry, CallResume, InterruptCall, OpNames
  <2>2. CASE CallPause(c) \/ CallShutdown(c) \/ CallExtract(c) \/ CallStart(c)
    <3>1. \E o \in OpNames : \E label, s : Call(c, o, label, s)
      BY <2>2, Zenon DEF CallPause, CallShutdown, CallExtract, CallStart, OpNames
    <3> QED
      BY <3>1 DEF Call
  <2> QED
    BY <1>4, <2>1, <2>2 DEF ClientCall
<1>5. ASSUME NEW c \in Clients, ClientStep(c)
      PROVE  left' = left \/ Spend("encodeError")
  <2>1. CASE SetPaused(c) \/ SetShutdown(c) \/ DrainModeOpensLatch(c) \/ DrainLane(c) \/ PutBack(c)
    BY <2>1 DEF SetPaused, SetShutdown, DrainModeOpensLatch, DrainLane, PutBack
  <2>2. CASE ReleaseKeys(c) \/ ResetCompleted(c) \/ EncodeReleased(c)
    BY <2>2 DEF ReleaseKeys, ResetCompleted, EncodeReleased
  <2>3. CASE RestorePending(c) \/ RestoreActiveKey(c) \/ ForkProcessingFibers(c)
    BY <2>3 DEF RestorePending, RestoreActiveKey, ForkProcessingFibers
  <2> QED
    BY <1>5, <2>1, <2>2, <2>3 DEF ClientStep
<1>6. AtRest => left' = left
  BY DEF AtRest, vars
<1> QED
  BY <1>1, <1>2, <1>3, <1>4, <1>5, <1>6 DEF Next, OpNames

LEMMA SpendSpoils ==
    ASSUME TypeOK, LeftBound, NEW o \in OpNames, Spend(o)
    PROVE  /\ LeftBound'
           /\ Unspoiled' => Unspoiled /\ o \notin {"interrupt", "encodeError"}
<1>1. /\ left \in [OpNames -> Nat] /\ Budget \in [OpNames -> Nat]
      /\ left' = [left EXCEPT ![o] = @ - 1]
  BY ConfigAssumption DEF TypeOK, HistoryOK, Spend
<1>2. \A p \in OpNames : left'[p] = IF p = o THEN left[o] - 1 ELSE left[p]
  BY <1>1
<1>3. {"interrupt", "encodeError"} \subseteq OpNames
  BY DEF OpNames
<1> QED
  BY <1>1, <1>2, <1>3 DEF LeftBound, Unspoiled

KeyInv == LeftBound /\ (Unspoiled => WellKept)

LEMMA NextKeys ==
    ASSUME TypeOK, TypeOK', Accounts, FramesClear, KeyInv, [Next]_vars
    PROVE  KeyInv'
<1>1. CASE UNCHANGED vars
  BY <1>1 DEF vars, KeyInv, LeftBound, Unspoiled, WellKept, NoRestores, KeysOwned,
              OwnsKey, KeyOfEntry, Holds, Enqueuing, EntryIds
<1>2. CASE Next
  <2>1. LeftBound' /\ (Unspoiled' => Unspoiled)
    <3>1. CASE left' = left
      BY <3>1 DEF KeyInv, LeftBound, Unspoiled
    <3> QED
      BY <1>2, <3>1, NextSpends, SpendSpoils DEF KeyInv
  <2>2. ASSUME Unspoiled' PROVE WellKept'
    <3>1. WellKept
      BY <2>1, <2>2 DEF KeyInv
    <3>2. \A o \in {"interrupt", "encodeError"} : ~Spend(o)
      BY <2>2, SpendSpoils DEF KeyInv, OpNames
    <3>3. \A c \in Clients : ~InterruptCall(c)
      BY <3>2 DEF InterruptCall
    <3>4. CASE AtRest
      BY <3>1, <3>4 DEF AtRest, vars, WellKept, NoRestores, KeysOwned,
                        OwnsKey, KeyOfEntry, Holds, Enqueuing, EntryIds
    <3> QED
      BY <1>2, <3>1, <3>2, <3>3, <3>4, WorkerKeys, MonitorKeys, SubroutineKeys, ClientKeys
         DEF Next
  <2> QED
    BY <2>1, <2>2 DEF KeyInv
<1> QED
  BY <1>1, <1>2

LEMMA InitKeys == Init => KeyInv
<1> SUFFICES ASSUME Init PROVE KeyInv
  OBVIOUS
<1>1. activeKeys = {} /\ left = Budget /\ \A f \in Fibers : pc[f] \in {"idle", "loop", "off"}
  BY DEF Init
<1>2. LeftBound
  BY <1>1, ConfigAssumption DEF LeftBound
<1> QED
  BY <1>1, <1>2 DEF KeyInv, WellKept, NoRestores, KeysOwned

(* NoKeyLeak: while no caller has been interrupted and no encoding has        *)
(* failed, every key of activeKeys is the key of an entry that is enqueued or *)
(* processing, so that no later add of it is dropped for ever: for every      *)
(* configuration, any number of fibers and any interleaving of adds, retries, *)
(* clears, releases and shutdowns.                                            *)
THEOREM KeysNeverLeak == Spec => []NoKeyLeak
<1>1. Init => Accounts /\ Partition /\ Frames /\ KeyInv
  BY InitAccounts, InitPartition, InitFrames, InitKeys DEF Frames
<1>2. TypeOK /\ (Accounts /\ Partition /\ Frames /\ KeyInv) /\ [Next]_vars
        => (Accounts /\ Partition /\ Frames /\ KeyInv)'
  BY NextTypeOK, NextAccounts, NextPartition, NextFrames, NextKeys DEF Frames
<1>3. KeyInv => NoKeyLeak
  BY DEF KeyInv, WellKept, KeysOwned, Unspoiled, NoKeyLeak
<1> QED
  BY <1>1, <1>2, <1>3, TypeCorrect, PTL DEF Spec

----------------------------------------------------------------------------
(* Deduplication has two windows: between the test of a key and its claim,     *)
(* where another fiber may test the same key, and between the release of a     *)
(* failed entry's key and the one before its retry, where the key may have     *)
(* become another entry's. Uncontended says that nobody is in either one with  *)
(* another's key.                                                              *)

ClaimsApart ==
    \A f, g \in Fibers : f # g /\ pc[f] = "claim" /\ pc[g] = "claim"
                            => KeyOf[Head(todo[f])] # KeyOf[Head(todo[g])]
RetryKeysFree ==
    \A w \in Workers : pc[w] = "requeue" => KeyOfEntry(cur[w]) \notin activeKeys
Uncontended == ClaimsApart /\ RetryKeysFree

(* The invariant: the key of whatever is enqueued or processing is active, a   *)
(* key about to be claimed is not, and so no two entries share one.            *)
KeysHeld ==
    \A e \in EntryIds :
        OwnsKey(e) /\ KeyOfEntry(e) # NoKey => KeyOfEntry(e) \in activeKeys
ClaimsFresh ==
    \A f \in Fibers : pc[f] = "claim" => KeyOf[Head(todo[f])] \notin activeKeys
Exclusive == KeysHeld /\ ClaimsFresh /\ DedupExclusive

(* An entry that is somewhere and owns no key: it was taken out to be encoded, *)
(* or its key was released after its run.                                      *)
StrandedAt(g, e) ==
    \/ pc[g] = "encode" /\ e \in Range(hand[g])
    \/ g \in Workers /\ pc[g] \in {"settle", "dispose"} /\ cur[g] = e

LEMMA OwnersAreLive ==
    ASSUME TypeOK, Partition, NEW e \in EntryIds, OwnsKey(e)
    PROVE  Live(e) /\ \A g \in Fibers : ~StrandedAt(g, e)
<1>1. PICK p \in Places :
        /\ e \in Content(p)
        /\ \A g \in Fibers : p = Hand(g) => pc[g] # "encode"
        /\ \A w \in Workers : p = Worked(w) => pc[w] \notin {"settle", "dispose"}
  <2>1. CASE \E l \in Levels : e \in Range(lanes[l])
    BY <2>1, PlaceNames, DistinctPlaces
  <2>2. CASE \E f \in Fibers : /\ e \in Range(hand[f]) \cup Range(kept[f])
                               /\ pc[f] \notin Stranding
    BY <2>2, PlaceNames, DistinctPlaces DEF Stranding
  <2>3. CASE \E w \in Workers : KeyHolder(w) /\ cur[w] = e
    <3>1. PICK w \in Workers : KeyHolder(w) /\ cur[w] = e
      BY <2>3
    <3>2. e \in Content(Worked(w)) /\ Worked(w) \in Places
      BY <3>1, PlaceNames DEF KeyHolder, Under
    <3> QED
      BY <3>1, <3>2, DistinctPlaces DEF KeyHolder
  <2> QED
    BY <2>1, <2>2, <2>3 DEF OwnsKey, Stranding, KeyHolder
<1>2. ASSUME NEW g \in Fibers, StrandedAt(g, e)
      PROVE  FALSE
  <2>1. CASE pc[g] = "encode" /\ e \in Range(hand[g])
    BY <1>1, <2>1, PlaceNames DEF Partition, PlacesApart
  <2>2. CASE g \in Workers /\ pc[g] \in {"settle", "dispose"} /\ cur[g] = e
    <3>1. e \in Content(Worked(g)) /\ Worked(g) \in Places
      BY <2>2, PlaceNames DEF Under, Holds
    <3> QED
      BY <1>1, <2>2, <3>1 DEF Partition, PlacesApart
  <2> QED
    BY <1>2, <2>1, <2>2 DEF StrandedAt
<1> QED
  BY <1>1, <1>2 DEF Partition, LiveIsPlaced

LEMMA LiveAreOwners ==
    ASSUME TypeOK, Partition, FramesClear, NoRestores, NEW e \in EntryIds, Live(e),
           \A g \in Fibers : ~StrandedAt(g, e)
    PROVE  OwnsKey(e)
<1>1. PICK p \in Places : e \in Content(p)
  BY DEF Partition, LiveIsPlaced
<1>2. CASE \E l \in Levels : p = Lane(l)
  BY <1>1, <1>2, PlaceNames DEF OwnsKey
<1>3. CASE \E f \in Fibers : p = Hand(f)
  <2>1. PICK f \in Fibers : e \in Range(hand[f])
    BY <1>1, <1>3, PlaceNames
  <2> QED
    BY <2>1 DEF StrandedAt, NoRestores, OwnsKey
<1>4. CASE \E f \in Fibers : p = KeptBy(f)
  <2>1. PICK f \in Fibers : e \in Range(kept[f])
    BY <1>1, <1>4, PlaceNames
  <2>2. pc[f] \in KeptLabels
    BY <2>1, EmptyRange DEF FramesClear
  <2> QED
    BY <2>1, <2>2 DEF KeptLabels, OwnsKey
<1>5. CASE \E w \in Workers : p = Worked(w)
  <2>1. PICK w \in Workers : e \in Under(w)
    BY <1>1, <1>5, PlaceNames
  <2>2. Holds(w) /\ cur[w] = e /\ w \in Fibers
    BY <2>1, Apart DEF Under
  <2> QED
    BY <2>2 DEF StrandedAt, OwnsKey
<1> QED
  BY <1>2, <1>3, <1>4, <1>5, PlaceNames

----------------------------------------------------------------------------
(* A stranded entry stays so until it ends.                                    *)

HandOnly(f) == UNCHANGED hand \/ \E v : hand' = [hand EXCEPT ![f] = v]
StaysStranded(f) ==
    \A g \in Fibers \ {f} : \A e \in EntryIds : StrandedAt(g, e) => StrandedAt(g, e)'

LEMMA OthersStranded ==
    ASSUME TypeOK, NEW f \in Fibers, OthersFrame(f), HandOnly(f)
    PROVE  StaysStranded(f)
<1> SUFFICES ASSUME NEW g \in Fibers \ {f}, NEW e \in EntryIds, StrandedAt(g, e)
             PROVE  StrandedAt(g, e)'
  BY DEF StaysStranded
<1>1. hand'[g] = hand[g] /\ pc'[g] = pc[g] /\ cur'[g] = cur[g]
  BY FrameOf DEF HandOnly, OthersFrame, SameFrame
<1> QED
  BY <1>1 DEF StrandedAt

LEMMA ReachStranded ==
    ASSUME TypeOK, Accounts, NEW c \in Clients, ReachesOthers(c),
           NEW g \in Fibers, NEW e \in EntryIds, StrandedAt(g, e)
    PROVE  StrandedAt(g, e)'
<1>1. UNCHANGED <<hand, cur>> /\ pc[c] \in {"idle", "wind", "claimStart"}
  BY DEF ReachesOthers, CallResume, DrainModeOpensLatch, ForkProcessingFibers
<1>2. pc[g] \in {"encode", "settle", "dispose"} /\ g # c
  BY <1>1 DEF StrandedAt
<1>3. pc'[g] = pc[g]
  <2>1. CASE CallResume(c) \/ DrainModeOpensLatch(c)
    BY <1>2, <2>1 DEF CallResume, DrainModeOpensLatch, OpenLatch
  <2>2. CASE ForkProcessingFibers(c)
    <3>1. pc' = [IF workersStarted THEN pc ELSE ForkWorkers EXCEPT ![c] = "idle"]
      BY <2>2 DEF ForkProcessingFibers
    <3>2. CASE workersStarted
      BY <1>2, <3>1, <3>2 DEF TypeOK, FramesOK
    <3>3. CASE ~workersStarted
      <4>1. g \notin Workers
        BY <1>2, <3>3 DEF Accounts, Unstarted
      <4>2. g # DrainMonitor
        <5>1. pc[g] \in LabelsOf(g)
          BY DEF TypeOK, FrameOK
        <5> QED
          BY <1>2, <5>1, FibersAssumption DEF LabelsOf, MonitorLabels, EnqueueLabels
      <4>3. g \in Clients
        BY <4>1, <4>2
      <4> QED
        BY <1>2, <3>1, <3>3, <4>3 DEF TypeOK, FramesOK, ForkWorkers
    <3> QED
      BY <3>2, <3>3
  <2> QED
    BY <2>1, <2>2 DEF ReachesOthers
<1> QED
  BY <1>1, <1>3 DEF StrandedAt

LEMMA WorkerStranded ==
    ASSUME TypeOK, NEW w \in Workers, Worker(w),
           NEW g \in Fibers, NEW e \in EntryIds, StrandedAt(g, e)
    PROVE  StrandedAt(g, e)' \/ ~Live(e)'
<1> w \in Fibers /\ w \notin Clients
  BY Apart
<1>1. HandOnly(w)
  <2>1. CASE WorkerLoop(w) \/ AwaitLatch(w) \/ PollLane(w) \/ TakeNextEmpty(w)
    BY <2>1 DEF WorkerLoop, AwaitLatch, PollLane, TakeNextEmpty, HandOnly
  <2>2. CASE WorkerWoken(w) \/ RateLimitAwait(w) \/ SkipRateLimitedItem(w) \/ StartItem(w)
    BY <2>2 DEF WorkerWoken, RateLimitAwait, SkipRateLimitedItem, StartItem, HandOnly
  <2>3. CASE CtxEnqueue(w) \/ EffectExits(w) \/ ReleaseKey(w)
    BY <2>3 DEF CtxEnqueue, EffectExits, ReleaseKey, HandOnly
  <2>4. CASE SettleItem(w) \/ DisposeFailure(w) \/ RetryRelease(w) \/ ReleasePermit(w)
    BY <2>4 DEF SettleItem, DisposeFailure, RetryRelease, ReleasePermit, HandOnly
  <2> QED
    BY <2>1, <2>2, <2>3, <2>4 DEF Worker
<1>2. CASE g # w
  BY <1>1, <1>2, WorkerLocal, OthersStranded DEF LocalTo, StaysStranded
<1>3. CASE g = w
  <2>1. pc[w] \in {"settle", "dispose"} /\ cur[w] = e
    <3>1. pc[w] \in LabelsOf(w)
      BY DEF TypeOK, FrameOK
    <3> QED
      BY <1>3, <3>1 DEF LabelsOf, WorkerLabels, EnqueueLabels, StrandedAt
  <2>2. SettleItem(w) \/ DisposeFailure(w)
    <3>1. ~(WorkerLoop(w) \/ AwaitLatch(w) \/ PollLane(w) \/ TakeNextEmpty(w))
      BY <2>1 DEF WorkerLoop, AwaitLatch, PollLane, TakeNextEmpty
    <3>2. ~(WorkerWoken(w) \/ RateLimitAwait(w) \/ SkipRateLimitedItem(w) \/ StartItem(w))
      BY <2>1 DEF WorkerWoken, RateLimitAwait, SkipRateLimitedItem, StartItem
    <3>3. ~(CtxEnqueue(w) \/ EffectExits(w) \/ ReleaseKey(w) \/ RetryRelease(w)
              \/ ReleasePermit(w))
      BY <2>1 DEF CtxEnqueue, EffectExits, ReleaseKey, RetryRelease, ReleasePermit
    <3> QED
      BY <3>1, <3>2, <3>3 DEF Worker
  <2>3. CASE SettleItem(w)
    <3>1. CASE op[w] = "ok"
      <4>1. result' = [result EXCEPT ![e] = "ok"]
        BY <2>1, <2>3, <3>1 DEF SettleItem
      <4> QED
        BY <4>1, ResultEnds
    <3>2. CASE op[w] # "ok"
      <4>1. pc' = [pc EXCEPT ![w] = "dispose"] /\ cur' = cur
        BY <2>3, <3>2 DEF SettleItem
      <4>2. pc'[w] = "dispose"
        BY Zenon, <4>1, FrameOf
      <4> QED
        BY <1>3, <2>1, <4>1, <4>2 DEF StrandedAt
    <3> QED
      BY <3>1, <3>2
  <2>4. CASE DisposeFailure(w)
    <3>1. PICK r \in {"retried", "exhausted", "routed", "failed"} :
            result' = [result EXCEPT ![e] = r]
      BY <2>1, <2>4 DEF DisposeFailure
    <3> QED
      BY <3>1, ResultEnds
  <2> QED
    BY <2>2, <2>3, <2>4
<1> QED
  BY <1>2, <1>3

LEMMA MonitorStranded ==
    ASSUME TypeOK, Monitor, NEW g \in Fibers, NEW e \in EntryIds, StrandedAt(g, e)
    PROVE  StrandedAt(g, e)'
<1> DrainMonitor \in Fibers
  BY DEF Fibers
<1>1. /\ UNCHANGED hand
      /\ pc[DrainMonitor] \in {"loop", "wait", "check", "isEmpty", "loaded", "load"}
  BY DEF Monitor, MonitorLoop, MonitorWoken, MonitorCheck, MonitorLoad
<1>2. g # DrainMonitor
  BY <1>1 DEF StrandedAt
<1> QED
  BY <1>1, <1>2, MonitorLocal, OthersStranded DEF LocalTo, StaysStranded, HandOnly

LEMMA SubroutineStranded ==
    ASSUME TypeOK, NEW f \in Fibers, Subroutine(f),
           NEW g \in Fibers, NEW e \in EntryIds, StrandedAt(g, e)
    PROVE  StrandedAt(g, e)'
<1>1. /\ HandOnly(f)
      /\ pc[f] \in {"enq", "dedup", "claim", "offer", "wake1", "wake2", "drain1", "drain2",
                    "empty", "fin1", "fin2"}
  <2>1. CASE EnqueueShutdownCheck(f) \/ DedupDone(f) \/ Offer(f) \/ ClaimKey(f)
    BY <2>1 DEF EnqueueShutdownCheck, DedupDone, Offer, ClaimKey, Mint, HandOnly
  <2>2. CASE DedupCheck(f)
    <3>1. pc[f] = "dedup" /\ (UNCHANGED hand \/ Mint(f))
      BY <2>2, Zenon DEF DedupCheck
    <3> QED
      BY <3>1 DEF Mint, HandOnly
  <2>3. CASE SignalWorkerWake(f) \/ SignalDrainWake(f)
    BY <2>3 DEF SignalWorkerWake, SignalDrainWake, HandOnly
  <2>4. CASE WakeDrainedIfEmpty(f) \/ FinalizeRead(f) \/ FinalizeSet(f)
    BY <2>4 DEF WakeDrainedIfEmpty, FinalizeRead, FinalizeSet, HandOnly
  <2> QED
    BY <2>1, <2>2, <2>3, <2>4 DEF Subroutine
<1>2. g # f
  BY <1>1 DEF StrandedAt
<1> QED
  BY <1>1, <1>2, SubroutineLocal, OthersStranded DEF LocalTo, StaysStranded

LEMMA ClientStranded ==
    ASSUME TypeOK, Accounts, NEW c \in Clients, ClientCall(c) \/ ClientStep(c),
           ~Spend("encodeError"), NEW g \in Fibers, NEW e \in EntryIds, StrandedAt(g, e)
    PROVE  StrandedAt(g, e)' \/ ~Live(e)'
<1> c \in Fibers /\ c \notin Workers
  BY NotWorker
<1>1. CASE ReachesOthers(c)
  BY <1>1, ReachStranded
<1>2. CASE ~ReachesOthers(c)
  <2>1. HandOnly(c)
    <3>1. CASE CallAdd(c) \/ CallEnqueueEntry(c) \/ InterruptCall(c)
      BY <3>1 DEF CallAdd, CallEnqueueEntry, InterruptCall, HandOnly
    <3>2. CASE CallPause(c) \/ CallShutdown(c) \/ CallExtract(c) \/ CallStart(c)
      <4>1. \E o, label, s : Call(c, o, label, s)
        BY <3>2, Zenon DEF CallPause, CallShutdown, CallExtract, CallStart
      <4> QED
        BY <4>1 DEF Call, HandOnly
    <3>3. CASE SetPaused(c) \/ SetShutdown(c) \/ PutBack(c)
      BY <3>3 DEF SetPaused, SetShutdown, PutBack, HandOnly
    <3>4. CASE DrainLane(c)
      BY <3>4, Zenon DEF DrainLane, HandOnly
    <3>5. CASE ReleaseKeys(c) \/ ResetCompleted(c) \/ EncodeReleased(c)
      BY <3>5 DEF ReleaseKeys, ResetCompleted, EncodeReleased, HandOnly
    <3>6. CASE RestorePending(c) \/ RestoreActiveKey(c)
      BY <3>6 DEF RestorePending, RestoreActiveKey, HandOnly
    <3> QED
      BY <1>2, <3>1, <3>2, <3>3, <3>4, <3>5, <3>6 DEF ClientCall, ClientStep, ReachesOthers
  <2>2. CASE g # c
    BY <1>2, <2>1, <2>2, ClientLocal, OthersStranded DEF LocalTo, StaysStranded
  <2>3. CASE g = c
    <3>1. pc[c] = "encode" /\ e \in Range(hand[c])
      BY <2>3 DEF StrandedAt
    <3>2. InterruptCall(c) \/ EncodeReleased(c)
      <4>1. ~(CallAdd(c) \/ CallEnqueueEntry(c))
        BY <3>1 DEF CallAdd, CallEnqueueEntry
      <4>2. ~(CallPause(c) \/ CallShutdown(c) \/ CallExtract(c) \/ CallStart(c))
        BY <3>1, Zenon DEF CallPause, CallShutdown, CallExtract, CallStart, Call
      <4>3. ~(SetPaused(c) \/ SetShutdown(c) \/ DrainLane(c) \/ PutBack(c))
        BY <3>1, Zenon DEF SetPaused, SetShutdown, DrainLane, PutBack
      <4>4. ~(ReleaseKeys(c) \/ ResetCompleted(c) \/ RestorePending(c) \/ RestoreActiveKey(c))
        BY <3>1 DEF ReleaseKeys, ResetCompleted, RestorePending, RestoreActiveKey
      <4> QED
        BY <1>2, <4>1, <4>2, <4>3, <4>4 DEF ClientCall, ClientStep, ReachesOthers
    <3>3. \E r \in {"lost", "released"} : \E S : e \in S /\ result' = MarkAll(S, r)
      <4>1. CASE InterruptCall(c)
        BY <3>1, <4>1 DEF InterruptCall
      <4>2. CASE EncodeReleased(c)
        BY <3>1, <4>2 DEF EncodeReleased
      <4> QED
        BY <3>2, <4>1, <4>2
    <3> QED
      BY <3>3, MarkAllEnds
  <2> QED
    BY <2>2, <2>3
<1> QED
  BY <1>1, <1>2

LEMMA NextStranded ==
    ASSUME TypeOK, Accounts, Next, ~Spend("encodeError"),
           NEW g \in Fibers, NEW e \in EntryIds, StrandedAt(g, e)
    PROVE  StrandedAt(g, e)' \/ ~Live(e)'
<1>1. CASE AtRest
  BY <1>1 DEF AtRest, vars, StrandedAt
<1> QED
  BY <1>1, WorkerStranded, MonitorStranded, SubroutineStranded, ClientStranded DEF Next

OwnersLive ==
    \A e \in EntryIds : OwnsKey(e) => Live(e) /\ \A g \in Fibers : ~StrandedAt(g, e)

LEMMA OwnersTold == TypeOK /\ Partition => OwnersLive
BY OwnersAreLive DEF OwnersLive

LEMMA OwnersToldNext == TypeOK' /\ Partition' => OwnersLive'
BY OwnersTold, PTL

(* Nobody gets a key back: what owns a key after a step owned it before, or is *)
(* new.                                                                        *)
LEMMA NoNewOwners ==
    ASSUME TypeOK, TypeOK', Accounts, Partition, Partition', FramesClear, NoRestores,
           Next, ~Spend("encodeError"), NEW e \in EntryIds, e \in EntryIds', OwnsKey(e)'
    PROVE  OwnsKey(e)
<1>1. Live(e)' /\ \A g \in Fibers : ~StrandedAt(g, e)'
  BY OwnersToldNext DEF OwnersLive
<1>2. Live(e)
  BY <1>1, NextShifts, StaysEnded
<1>3. \A g \in Fibers : ~StrandedAt(g, e)
  BY <1>1, NextStranded
<1> QED
  BY <1>2, <1>3, LiveAreOwners

----------------------------------------------------------------------------
(* What a step does to the keys.                                               *)

(* No owner is new but possibly one, whose key was free and is active now.     *)
NoGain == \A e \in EntryIds : OwnsKey(e)' => OwnsKey(e)
KeysStayHeld ==
    \A e \in EntryIds :
        OwnsKey(e) /\ OwnsKey(e)' /\ KeyOfEntry(e) \in activeKeys
            => KeyOfEntry(e) \in activeKeys'
FreshKey(n) ==
    \/ KeyOfEntry(n)' = NoKey
    \/ /\ KeyOfEntry(n)' \notin activeKeys
       /\ KeyOfEntry(n)' \in activeKeys'

LEMMA ExclusiveNext ==
    ASSUME TypeOK, Exclusive, SameItems, NoGain, KeysStayHeld, ClaimsFresh', NEW n,
           EntryIds' \subseteq EntryIds \cup {n}, n \notin EntryIds,
           n \in EntryIds' => FreshKey(n)
    PROVE  Exclusive'
<1>0. \A e \in EntryIds : e \in EntryIds' /\ KeyOfEntry(e)' = KeyOfEntry(e)
  BY DEF SameItems, KeyOfEntry
<1>1. KeysHeld'
  <2> SUFFICES ASSUME NEW e \in EntryIds', OwnsKey(e)', KeyOfEntry(e)' # NoKey
               PROVE  KeyOfEntry(e)' \in activeKeys'
    BY DEF KeysHeld
  <2>1. CASE e = n
    BY <2>1 DEF FreshKey
  <2>2. CASE e \in EntryIds
    BY <1>0, <2>2 DEF Exclusive, KeysHeld, NoGain, KeysStayHeld
  <2> QED
    BY <2>1, <2>2
<1>2. DedupExclusive'
  <2> SUFFICES ASSUME NEW e \in EntryIds', NEW g \in EntryIds', e # g, OwnsKey(e)',
                      OwnsKey(g)', KeyOfEntry(e)' # NoKey, KeyOfEntry(e)' = KeyOfEntry(g)'
               PROVE  FALSE
    BY DEF DedupExclusive
  <2>1. CASE e \in EntryIds /\ g \in EntryIds
    BY <1>0, <2>1 DEF Exclusive, DedupExclusive, NoGain
  <2>2. \A x \in EntryIds : OwnsKey(x)' /\ KeyOfEntry(x)' # NoKey
                              => KeyOfEntry(x)' \in activeKeys
    BY <1>0 DEF Exclusive, KeysHeld, NoGain
  <2>3. CASE e = n
    BY <2>2, <2>3 DEF FreshKey
  <2>4. CASE g = n
    BY <2>2, <2>4 DEF FreshKey
  <2> QED
    BY <2>1, <2>3, <2>4
<1> QED
  BY <1>1, <1>2 DEF Exclusive

(* The keys of entries that stop being owners go.                              *)
LEMMA OwnersGiveUp ==
    ASSUME Exclusive, NEW S, S \subseteq EntryIds,
           \A e \in S : OwnsKey(e) /\ ~OwnsKey(e)',
           activeKeys \ {KeyOfEntry(e) : e \in S} \subseteq activeKeys', NoKey \notin activeKeys
    PROVE  KeysStayHeld
<1> SUFFICES ASSUME NEW e \in EntryIds, OwnsKey(e), OwnsKey(e)',
                    KeyOfEntry(e) \in activeKeys, KeyOfEntry(e) \notin activeKeys'
             PROVE  FALSE
  BY DEF KeysStayHeld
<1>1. PICK x \in S : KeyOfEntry(x) = KeyOfEntry(e)
  OBVIOUS
<1>2. x # e /\ OwnsKey(x) /\ x \in EntryIds
  BY <1>1
<1> QED
  BY <1>1, <1>2 DEF Exclusive, DedupExclusive

(* A step that adds no key leaves the others' claims fresh.                    *)
LEMMA FreshStays ==
    ASSUME Exclusive, NEW f \in Fibers, LocalTo(f), activeKeys' \subseteq activeKeys,
           pc'[f] = "claim" => KeyOf[Head(todo'[f])] \notin activeKeys'
    PROVE  ClaimsFresh'
<1>1. \A g \in Fibers \ {f} : pc'[g] = pc[g] /\ todo'[g] = todo[g]
  BY DEF LocalTo, OthersFrame, SameFrame
<1> QED
  BY <1>1 DEF Exclusive, ClaimsFresh

LEMMA NoEntryMinted ==
    ASSUME TypeOK, Exclusive, NoGain, KeysStayHeld, ClaimsFresh', UNCHANGED entry
    PROVE  Exclusive'
<1>1. SameItems /\ EntryIds' = EntryIds
  BY DEF SameItems, EntryIds
<1>2. Len(entry) + 1 \notin EntryIds
  BY DEF EntryIds, TypeOK, StoreOK
<1> QED
  BY <1>1, <1>2, ExclusiveNext

LEMMA WorkerMoves ==
    ASSUME TypeOK, NEW w \in Workers, Worker(w)
    PROVE  /\ pc'[w] # "claim"
           /\ pc'[w] \in {"enq", "dedup"} => pc[w] \in {"run", "requeue"}
<1> w \in Fibers
  BY Apart
<1>1. CASE WorkerLoop(w) \/ AwaitLatch(w) \/ TakeNextEmpty(w) \/ WorkerWoken(w)
  BY <1>1, FrameOf DEF WorkerLoop, AwaitLatch, TakeNextEmpty, WorkerWoken
<1>2. CASE PollLane(w)
  <2>1. pc[w] = "poll" /\ (UNCHANGED pc \/ \E v \in {"latch2", "check"} : GoTo(w, v))
    BY <1>2, Zenon DEF PollLane
  <2> QED
    BY <2>1, FrameOf
<1>3. CASE RateLimitAwait(w) \/ SkipRateLimitedItem(w) \/ StartItem(w) \/ EffectExits(w)
             \/ ReleaseKey(w) \/ ReleasePermit(w)
  BY <1>3, FrameOf DEF RateLimitAwait, SkipRateLimitedItem, StartItem, EffectExits,
                       ReleaseKey, ReleasePermit
<1>4. CASE CtxEnqueue(w) \/ RetryRelease(w)
  <2>1. pc[w] \in {"run", "requeue"} /\ \E o, items, level, e : CallEnqueue(w, o, items, level, e)
    BY <1>4, Zenon DEF CtxEnqueue, RetryRelease
  <2>2. pc'[w] = "enq"
    <3>1. GoTo(w, "enq")
      BY <2>1 DEF CallEnqueue
    <3> QED
      BY Zenon, <3>1, FrameOf
  <2> QED
    BY <2>1, <2>2
<1>5. CASE SettleItem(w) \/ DisposeFailure(w)
  <2>1. PICK v \in {"empty", "dispose", "requeue"} : GoTo(w, v)
    BY <1>5 DEF SettleItem, DisposeFailure
  <2>2. pc'[w] = v
    BY <2>1, FrameOf
  <2> QED
    BY <2>1, <2>2
<1> QED
  BY <1>1, <1>2, <1>3, <1>4, <1>5 DEF Worker

LEMMA WorkerExclusive ==
    ASSUME TypeOK, TypeOK', Partition, Partition', Exclusive, RetryKeysFree, NoGain,
           NEW w \in Workers, Worker(w)
    PROVE  Exclusive'
<1> w \in Fibers /\ w \notin Clients
  BY Apart
<1>0. NoKey \notin activeKeys
  BY ConfigAssumption DEF TypeOK, StoreOK
<1>1. UNCHANGED entry
  <2>1. CASE WorkerLoop(w) \/ AwaitLatch(w) \/ PollLane(w) \/ TakeNextEmpty(w)
    BY <2>1 DEF WorkerLoop, AwaitLatch, PollLane, TakeNextEmpty
  <2>2. CASE WorkerWoken(w) \/ RateLimitAwait(w) \/ SkipRateLimitedItem(w) \/ StartItem(w)
    BY <2>2 DEF WorkerWoken, RateLimitAwait, SkipRateLimitedItem, StartItem
  <2>3. CASE CtxEnqueue(w) \/ EffectExits(w) \/ ReleaseKey(w)
    BY <2>3 DEF CtxEnqueue, EffectExits, ReleaseKey
  <2>4. CASE SettleItem(w) \/ DisposeFailure(w) \/ RetryRelease(w) \/ ReleasePermit(w)
    BY <2>4 DEF SettleItem, DisposeFailure, RetryRelease, ReleasePermit
  <2> QED
    BY <2>1, <2>2, <2>3, <2>4 DEF Worker
<1>2. activeKeys' \subseteq activeKeys /\ KeysStayHeld
  <2>1. CASE activeKeys' = activeKeys
    BY <2>1 DEF KeysStayHeld
  <2>2. CASE SkipRateLimitedItem(w) \/ ReleaseKey(w)
    <3>1. PICK x : x = cur[w]
      OBVIOUS
    <3>2. pc[w] \in {"skip", "unkey"} /\ activeKeys' = activeKeys \ {KeyOfEntry(x)}
      BY <2>2, <3>1 DEF SkipRateLimitedItem, ReleaseKey
    <3>3. x \in EntryIds
      BY <3>1, <3>2 DEF TypeOK, FrameOK, WorksOnEntry, Holds
    <3>4. OwnsKey(x)
      BY <3>1, <3>2 DEF OwnsKey, Holds
    <3>5. ~OwnsKey(x)'
      <4>1. CASE SkipRateLimitedItem(w)
        <5>1. result' = [result EXCEPT ![x] = "skipped"]
          BY <3>1, <4>1 DEF SkipRateLimitedItem
        <5>2. ~Live(x)'
          BY <3>3, <5>1, ResultEnds
        <5>3. x \in EntryIds'
          BY <1>1, <3>3 DEF EntryIds
        <5> QED
          BY <5>2, <5>3, OwnersToldNext DEF OwnersLive
      <4>2. CASE ReleaseKey(w)
        <5>1. GoTo(w, "settle") /\ cur' = cur
          BY <4>2 DEF ReleaseKey
        <5>2. pc'[w] = "settle" /\ cur'[w] = x
          BY Zenon, <3>1, <5>1, FrameOf
        <5>3. StrandedAt(w, x)'
          BY <5>2 DEF StrandedAt
        <5>4. x \in EntryIds'
          BY <1>1, <3>3 DEF EntryIds
        <5> QED
          BY <5>3, <5>4, OwnersToldNext DEF OwnersLive
      <4> QED
        BY <2>2, <4>1, <4>2
    <3>6. PICK S : S = {x}
      OBVIOUS
    <3>7. {KeyOfEntry(e) : e \in S} = {KeyOfEntry(x)}
      BY <3>6
    <3>8. S \subseteq EntryIds /\ \A e \in S : OwnsKey(e) /\ ~OwnsKey(e)'
      BY <3>3, <3>4, <3>5, <3>6
    <3> QED
      BY <1>0, <3>2, <3>7, <3>8, OwnersGiveUp
  <2>3. CASE RetryRelease(w)
    <3>1. pc[w] = "requeue" /\ activeKeys' = activeKeys \ {KeyOfEntry(cur[w])}
      BY <2>3 DEF RetryRelease
    <3>2. KeyOfEntry(cur[w]) \notin activeKeys
      BY <3>1 DEF RetryKeysFree
    <3> QED
      BY <2>1, <3>1, <3>2
  <2>4. CASE WorkerLoop(w) \/ AwaitLatch(w) \/ PollLane(w) \/ TakeNextEmpty(w)
    BY <2>1, <2>4 DEF WorkerLoop, AwaitLatch, PollLane, TakeNextEmpty
  <2>5. CASE WorkerWoken(w) \/ RateLimitAwait(w) \/ StartItem(w)
    BY <2>1, <2>5 DEF WorkerWoken, RateLimitAwait, StartItem
  <2>6. CASE CtxEnqueue(w) \/ EffectExits(w) \/ SettleItem(w) \/ DisposeFailure(w) \/ ReleasePermit(w)
    <3>1. activeKeys' = activeKeys
      BY <2>6 DEF CtxEnqueue, EffectExits, SettleItem, DisposeFailure, ReleasePermit
    <3> QED
      BY <2>1, <3>1
  <2> QED
    BY <2>2, <2>3, <2>4, <2>5, <2>6 DEF Worker
<1>3. ClaimsFresh'
  BY <1>2, WorkerLocal, WorkerMoves, FreshStays
<1> QED
  BY <1>1, <1>2, <1>3, NoEntryMinted

LEMMA ClientMoves ==
    ASSUME TypeOK, NEW c \in Clients, ClientCall(c) \/ ClientStep(c)
    PROVE  /\ pc'[c] # "claim"
           /\ pc'[c] \in {"restore", "rekey"} =>
                Spend("encodeError") \/ pc[c] \in {"restore", "rekey"}
<1> c \in Fibers
  BY NotWorker
<1>1. CASE CallAdd(c) \/ CallEnqueueEntry(c)
  <2>1. \E o, items, level, e : CallEnqueue(c, o, items, level, e)
    BY <1>1, Zenon DEF CallAdd, CallEnqueueEntry
  <2>2. GoTo(c, "enq")
    BY <2>1 DEF CallEnqueue
  <2>3. pc'[c] = "enq"
    BY Zenon, <2>2, FrameOf
  <2> QED
    BY <2>3
<1>2. CASE CallPause(c) \/ CallShutdown(c) \/ CallExtract(c) \/ CallStart(c)
  <2>1. PICK label \in {"setPaused", "setShutdown", "idle", "drain", "claimStart"} :
          \E o, s : Call(c, o, label, s)
    BY <1>2, Zenon DEF CallPause, CallShutdown, CallExtract, CallStart
  <2>2. GoTo(c, label)
    BY <2>1 DEF Call
  <2> QED
    BY <2>2, FrameOf
<1>3. CASE CallResume(c) \/ DrainModeOpensLatch(c)
  BY <1>3, NotWorker DEF CallResume, DrainModeOpensLatch, OpenLatch
<1>4. CASE InterruptCall(c)
  BY <1>4, ReturnsFrame DEF InterruptCall
<1>5. CASE SetPaused(c)
  <2>1. Return(c, "idle") \/ Return(c, "wake1")
    BY <1>5 DEF SetPaused
  <2> QED
    BY <2>1, ReturnsFrame
<1>6. CASE SetShutdown(c) \/ ResetCompleted(c) \/ ReleaseKeys(c)
  <2>1. PICK label \in {"drain", "wind", "empty", "encode", "zero", "wake1"} : GoTo(c, label)
    BY <1>6 DEF SetShutdown, ResetCompleted, ReleaseKeys, AfterKeys
  <2> QED
    BY <2>1, FrameOf
<1>7. CASE DrainLane(c) \/ PutBack(c)
  <2>1. /\ pc[c] \in {"drain", "putback"}
        /\ UNCHANGED pc \/ \E label \in {"drain", "putback", "keys"} : GoTo(c, label)
    BY <1>7, Zenon DEF DrainLane, PutBack, NextLane
  <2> QED
    BY <2>1, FrameOf
<1>8. CASE EncodeReleased(c) \/ RestorePending(c) \/ RestoreActiveKey(c)
  <2>1. /\ pc[c] \in {"encode", "restore", "rekey"}
        /\ pc[c] = "encode" => GoTo(c, "empty") \/ Spend("encodeError")
        /\ \E label \in {"empty", "restore", "rekey", "wake1"} : GoTo(c, label)
    BY <1>8 DEF EncodeReleased, RestorePending, RestoreActiveKey
  <2>2. pc'[c] \in {"empty", "restore", "rekey", "wake1"}
    BY Zenon, <2>1, FrameOf
  <2>3. GoTo(c, "empty") => pc'[c] = "empty"
    BY Zenon, FrameOf
  <2> QED
    BY <2>1, <2>2, <2>3
<1>9. CASE ForkProcessingFibers(c)
  <2>1. pc'[c] = "idle"
    BY <1>9 DEF ForkProcessingFibers, TypeOK, FramesOK, ForkWorkers
  <2> QED
    BY <2>1
<1> QED
  BY <1>1, <1>2, <1>3, <1>4, <1>5, <1>6, <1>7, <1>8, <1>9 DEF ClientCall, ClientStep

LEMMA ClientExclusive ==
    ASSUME TypeOK, TypeOK', Accounts, Partition, Partition', Exclusive, NoGain, NoRestores,
           NEW c \in Clients, ClientCall(c) \/ ClientStep(c)
    PROVE  Exclusive'
<1> c \in Fibers /\ c \notin Workers
  BY NotWorker
<1>0. NoKey \notin activeKeys
  BY ConfigAssumption DEF TypeOK, StoreOK
<1>1. UNCHANGED entry
  <2>1. CASE CallAdd(c) \/ CallEnqueueEntry(c) \/ CallResume(c) \/ InterruptCall(c)
    BY <2>1 DEF CallAdd, CallEnqueueEntry, CallResume, InterruptCall
  <2>2. CASE CallPause(c) \/ CallShutdown(c) \/ CallExtract(c) \/ CallStart(c)
    <3>1. \E o, label, s : Call(c, o, label, s)
      BY <2>2, Zenon DEF CallPause, CallShutdown, CallExtract, CallStart
    <3> QED
      BY <3>1 DEF Call
  <2>3. CASE SetPaused(c) \/ SetShutdown(c) \/ DrainModeOpensLatch(c) \/ DrainLane(c)
               \/ PutBack(c)
    BY <2>3, Zenon DEF SetPaused, SetShutdown, DrainModeOpensLatch, DrainLane, PutBack
  <2>4. CASE ReleaseKeys(c) \/ ResetCompleted(c) \/ EncodeReleased(c)
    BY <2>4 DEF ReleaseKeys, ResetCompleted, EncodeReleased
  <2>5. CASE RestorePending(c) \/ RestoreActiveKey(c) \/ ForkProcessingFibers(c)
    BY <2>5 DEF RestorePending, RestoreActiveKey, ForkProcessingFibers
  <2> QED
    BY <2>1, <2>2, <2>3, <2>4, <2>5 DEF ClientCall, ClientStep
<1>2. activeKeys' \subseteq activeKeys /\ KeysStayHeld
  <2>1. CASE activeKeys' = activeKeys
    BY <2>1 DEF KeysStayHeld
  <2>2. CASE ReleaseKeys(c)
    <3>1. PICK S : S = Range(hand[c])
      OBVIOUS
    <3>2. pc[c] = "keys" /\ activeKeys' = activeKeys \ KeysOf(S)
      BY <2>2, <3>1 DEF ReleaseKeys
    <3>3. S \subseteq EntryIds
      BY <3>1, RangeOf DEF TypeOK, PlacesOK
    <3>4. \A x \in S : OwnsKey(x)
      BY <3>1, <3>2 DEF OwnsKey
    <3>5. \A x \in S : ~OwnsKey(x)'
      <4> SUFFICES ASSUME NEW x \in S PROVE ~OwnsKey(x)'
        OBVIOUS
      <4>1. x \in EntryIds'
        BY <1>1, <3>3 DEF EntryIds
      <4>2. CASE op[c] = "releaseEncoded"
        <5>1. GoTo(c, "encode") /\ hand' = hand
          BY <2>2, <4>2 DEF ReleaseKeys
        <5>2. pc'[c] = "encode"
          BY Zenon, <5>1, FrameOf
        <5>3. StrandedAt(c, x)'
          BY <3>1, <5>1, <5>2 DEF StrandedAt
        <5> QED
          BY <4>1, <5>3, OwnersToldNext DEF OwnersLive
      <4>3. CASE op[c] # "releaseEncoded"
        <5>1. PICK r : r = SettledAs(op[c])
          OBVIOUS
        <5>2. r # "live"
          BY <3>2, <4>3, <5>1 DEF TypeOK, FrameOK, ExtractOps, SettledAs
        <5>3. result' = MarkAll(S, r)
          BY <2>2, <3>1, <4>3, <5>1 DEF ReleaseKeys
        <5>4. ~Live(x)'
          BY <3>3, <5>2, <5>3, MarkAllEnds
        <5> QED
          BY <4>1, <5>4, OwnersToldNext DEF OwnersLive
      <4> QED
        BY <4>2, <4>3
    <3> QED
      BY <1>0, <3>2, <3>3, <3>4, <3>5, OwnersGiveUp DEF KeysOf
  <2>3. CASE RestorePending(c) \/ RestoreActiveKey(c)
    BY <2>3 DEF RestorePending, RestoreActiveKey, NoRestores
  <2>4. CASE CallAdd(c) \/ CallEnqueueEntry(c) \/ CallResume(c) \/ InterruptCall(c)
    <3>1. activeKeys' = activeKeys
      BY <2>4 DEF CallAdd, CallEnqueueEntry, CallResume, InterruptCall
    <3> QED
      BY <2>1, <3>1
  <2>5. CASE CallPause(c) \/ CallShutdown(c) \/ CallExtract(c) \/ CallStart(c)
    <3>1. \E o, label, s : Call(c, o, label, s)
      BY <2>5, Zenon DEF CallPause, CallShutdown, CallExtract, CallStart
    <3>2. activeKeys' = activeKeys
      BY <3>1 DEF Call
    <3> QED
      BY <2>1, <3>2
  <2>6. CASE SetPaused(c) \/ SetShutdown(c) \/ DrainModeOpensLatch(c) \/ DrainLane(c)
               \/ PutBack(c)
    <3>1. activeKeys' = activeKeys
      BY <2>6, Zenon DEF SetPaused, SetShutdown, DrainModeOpensLatch, DrainLane, PutBack
    <3> QED
      BY <2>1, <3>1
  <2>7. CASE ResetCompleted(c) \/ EncodeReleased(c) \/ ForkProcessingFibers(c)
    <3>1. activeKeys' = activeKeys
      BY <2>7 DEF ResetCompleted, EncodeReleased, ForkProcessingFibers
    <3> QED
      BY <2>1, <3>1
  <2> QED
    BY <2>2, <2>3, <2>4, <2>5, <2>6, <2>7 DEF ClientCall, ClientStep
<1>3. ClaimsFresh'
  <2>1. CASE ReachesOthers(c)
    <3>1. UNCHANGED todo /\ \A f \in Fibers : pc'[f] = "claim" => pc[f] = "claim"
      <4>1. CASE CallResume(c) \/ DrainModeOpensLatch(c)
        BY <4>1 DEF CallResume, DrainModeOpensLatch, OpenLatch
      <4>2. CASE ForkProcessingFibers(c)
        BY <4>2 DEF ForkProcessingFibers, ForkWorkers, TypeOK, FramesOK
      <4> QED
        BY <2>1, <4>1, <4>2 DEF ReachesOthers
    <3> QED
      BY <1>2, <3>1 DEF Exclusive, ClaimsFresh
  <2>2. CASE ~ReachesOthers(c)
    BY <1>2, <2>2, ClientLocal, ClientMoves, FreshStays
  <2> QED
    BY <2>1, <2>2
<1> QED
  BY <1>1, <1>2, <1>3, NoEntryMinted

LEMMA MonitorExclusive ==
    ASSUME TypeOK, Exclusive, NoGain, Monitor
    PROVE  Exclusive'
<1> DrainMonitor \in Fibers
  BY DEF Fibers
<1>1. UNCHANGED <<entry, activeKeys>>
  BY DEF Monitor, MonitorLoop, MonitorWoken, MonitorCheck, MonitorLoad
<1>2. pc'[DrainMonitor] # "claim"
  <2>1. PICK label \in {"wait", "check", "exit", "isEmpty", "load", "loop", "enq"} :
          GoTo(DrainMonitor, label)
    BY DEF Monitor, MonitorLoop, MonitorWoken, MonitorCheck, MonitorLoad, CallEnqueue
  <2> QED
    BY <2>1, FrameOf
<1>3. ClaimsFresh'
  BY <1>1, <1>2, MonitorLocal, FreshStays
<1> QED
  BY <1>1, <1>3, NoEntryMinted DEF KeysStayHeld

LEMMA MintOne ==
    ASSUME TypeOK, NEW f, Mint(f), NEW n, n = Len(entry) + 1
    PROVE  /\ SameItems
           /\ EntryIds' = EntryIds \cup {n}
           /\ KeyOfEntry(n)' = KeyOf[Head(todo[f])]
<1>1. /\ entry \in Seq(EntryRecords) /\ entry' = Append(entry, NewEntry(f))
      /\ NewEntry(f).item = Head(todo[f])
  BY DEF TypeOK, StoreOK, Mint, NewEntry
<1>2. /\ Len(entry) \in Nat /\ Len(entry') = n /\ entry'[n] = NewEntry(f)
      /\ \A e \in EntryIds : entry'[e] = entry[e]
  BY <1>1 DEF EntryIds
<1> QED
  BY <1>1, <1>2 DEF SameItems, EntryIds, KeyOfEntry

LEMMA SubroutineNeverStrands ==
    ASSUME TypeOK, NEW f \in Fibers, Subroutine(f)
    PROVE  pc'[f] \notin Stranding
<1>1. CASE Offer(f) \/ ClaimKey(f)
  <2>1. PICK label \in {"wake1", "offer", "dedup"} : GoTo(f, label)
    BY <1>1 DEF Offer, ClaimKey
  <2> QED
    BY <2>1, FrameOf DEF Stranding
<1>2. CASE DedupCheck(f)
  <2>1. pc[f] = "dedup" /\ (UNCHANGED pc \/ GoTo(f, "claim"))
    BY <1>2, Zenon DEF DedupCheck
  <2> QED
    BY <2>1, FrameOf DEF Stranding
<1>3. CASE \/ EnqueueShutdownCheck(f) \/ DedupDone(f) \/ SignalWorkerWake(f)
           \/ SignalDrainWake(f) \/ WakeDrainedIfEmpty(f) \/ FinalizeRead(f)
           \/ FinalizeSet(f)
  <2>1. \/ pc'[f] \in {"dedup", "offer", "wake2", "drain1", "drain2", "fin2"}
        \/ \E label \in {AfterEnqueue(f), AfterWorkerWake(f), AfterDrainWake(f),
                         AfterFinalize(f)} : Return(f, label)
    BY <1>3, SubroutineMoves
  <2>2. {AfterEnqueue(f), AfterWorkerWake(f), AfterDrainWake(f), AfterFinalize(f)}
          \cap Stranding = {}
    BY DEF AfterEnqueue, AfterWorkerWake, AfterDrainWake, AfterFinalize, Stranding
  <2> QED
    BY <2>1, <2>2, ReturnsFrame DEF Stranding
<1> QED
  BY <1>1, <1>2, <1>3 DEF Subroutine

LEMMA SubroutineExclusive ==
    ASSUME TypeOK, Exclusive, ClaimsApart, NoGain, NEW f \in Fibers, Subroutine(f)
    PROVE  Exclusive'
<1>0. LocalTo(f) /\ \A g \in Fibers \ {f} : pc'[g] = pc[g] /\ todo'[g] = todo[g]
  BY SubroutineLocal DEF LocalTo, OthersFrame, SameFrame
<1>1. CASE \/ EnqueueShutdownCheck(f) \/ DedupDone(f) \/ SignalWorkerWake(f)
           \/ SignalDrainWake(f) \/ WakeDrainedIfEmpty(f) \/ FinalizeRead(f)
           \/ FinalizeSet(f) \/ Offer(f)
  <2>1. UNCHANGED <<entry, activeKeys>>
    <3>1. CASE EnqueueShutdownCheck(f) \/ DedupDone(f) \/ SignalWorkerWake(f) \/ Offer(f)
      BY <3>1 DEF EnqueueShutdownCheck, DedupDone, SignalWorkerWake, Offer
    <3>2. CASE SignalDrainWake(f) \/ WakeDrainedIfEmpty(f) \/ FinalizeRead(f) \/ FinalizeSet(f)
      BY <3>2 DEF SignalDrainWake, WakeDrainedIfEmpty, FinalizeRead, FinalizeSet
    <3> QED
      BY <1>1, <3>1, <3>2
  <2>2. pc'[f] # "claim"
    <3>1. CASE Offer(f)
      <4>1. PICK label \in {"wake1", "offer"} : GoTo(f, label)
        BY <3>1 DEF Offer
      <4> QED
        BY <4>1, FrameOf
    <3>2. CASE ~Offer(f)
      <4>1. \/ pc'[f] \in {"dedup", "offer", "wake2", "drain1", "drain2", "fin2"}
            \/ \E label \in {AfterEnqueue(f), AfterWorkerWake(f), AfterDrainWake(f),
                             AfterFinalize(f)} : Return(f, label)
        BY <1>1, <3>2, SubroutineMoves
      <4>2. "claim" \notin {AfterEnqueue(f), AfterWorkerWake(f), AfterDrainWake(f),
                            AfterFinalize(f)}
        BY DEF AfterEnqueue, AfterWorkerWake, AfterDrainWake, AfterFinalize
      <4> QED
        BY <4>1, <4>2, ReturnsFrame
    <3> QED
      BY <3>1, <3>2
  <2>3. ClaimsFresh'
    BY <1>0, <2>1, <2>2, FreshStays
  <2> QED
    BY <2>1, <2>3, NoEntryMinted DEF KeysStayHeld
<1>2. CASE DedupCheck(f) \/ ClaimKey(f)
  <2>0. PICK n, k : n = Len(entry) + 1 /\ k = KeyOf[Head(todo[f])]
    OBVIOUS
  <2>1. KeysStayHeld
    BY <1>2 DEF KeysStayHeld, DedupCheck, ClaimKey
  <2>2. n \notin EntryIds
    BY <2>0 DEF EntryIds, TypeOK, StoreOK
  <2>3. CASE ClaimKey(f)
    <3>1. /\ pc[f] = "claim" /\ Mint(f) /\ activeKeys' = activeKeys \cup {k}
          /\ GoTo(f, "dedup")
      BY <2>0, <2>3 DEF ClaimKey
    <3>2. k \notin activeKeys
      BY <2>0, <3>1 DEF Exclusive, ClaimsFresh
    <3>3. /\ SameItems /\ EntryIds' \subseteq EntryIds \cup {n} /\ KeyOfEntry(n)' = k
      BY <2>0, <3>1, MintOne
    <3>4. ClaimsFresh'
      <4>1. pc'[f] = "dedup"
        BY Zenon, <3>1, FrameOf
      <4> SUFFICES ASSUME NEW g \in Fibers, pc'[g] = "claim"
                   PROVE  KeyOf[Head(todo'[g])] \notin activeKeys'
        BY DEF ClaimsFresh
      <4>2. g # f /\ pc[g] = "claim" /\ todo'[g] = todo[g]
        BY <1>0, <4>1
      <4>3. KeyOf[Head(todo[g])] \notin activeKeys /\ KeyOf[Head(todo[g])] # k
        BY <2>0, <3>1, <4>2 DEF Exclusive, ClaimsFresh, ClaimsApart
      <4> QED
        BY <3>1, <4>2, <4>3
    <3>5. FreshKey(n)
      BY <3>1, <3>2, <3>3 DEF FreshKey
    <3> QED
      BY <2>1, <2>2, <3>3, <3>4, <3>5, ExclusiveNext
  <2>4. CASE DedupCheck(f)
    <3>1. /\ UNCHANGED activeKeys /\ pc[f] = "dedup"
          /\ \/ UNCHANGED <<entry, pc>>
             \/ k = NoKey /\ Mint(f) /\ UNCHANGED pc
             \/ k \notin activeKeys /\ UNCHANGED <<entry, todo>>
      BY <2>0, <2>4, Zenon DEF DedupCheck, Active
    <3>2. ClaimsFresh'
      <4>1. pc'[f] = "claim" => KeyOf[Head(todo'[f])] \notin activeKeys'
        BY <2>0, <3>1
      <4> QED
        BY <1>0, <3>1, <4>1, FreshStays
    <3>3. CASE UNCHANGED entry
      BY <2>1, <3>2, <3>3, NoEntryMinted
    <3>4. CASE k = NoKey /\ Mint(f)
      <4>1. /\ SameItems /\ EntryIds' \subseteq EntryIds \cup {n} /\ KeyOfEntry(n)' = k
        BY <2>0, <3>4, MintOne
      <4>2. KeyOfEntry(n)' = NoKey
        BY <3>4, <4>1
      <4>3. FreshKey(n)
        BY <4>2, Zenon DEF FreshKey
      <4> QED
        BY <2>1, <2>2, <3>2, <4>1, <4>3, ExclusiveNext
    <3> QED
      BY <3>1, <3>3, <3>4
  <2> QED
    BY <1>2, <2>3, <2>4
<1> QED
  BY <1>1, <1>2 DEF Subroutine

(* Only releaseEncoded whose encoding fails restores entries.                  *)
LEMMA NoRestoresStay ==
    ASSUME TypeOK, TypeOK', NoRestores, Next, ~Spend("encodeError")
    PROVE  NoRestores'
<1> SUFFICES ASSUME NEW g \in Fibers
             PROVE  pc'[g] \notin {"restore", "rekey"}
  BY DEF NoRestores
<1>1. CASE g \notin Clients
  BY <1>1, NoStranding DEF Stranding
<1>2. CASE g \in Clients
  <2>0. pc[g] \notin {"restore", "rekey"}
    BY DEF NoRestores
  <2>1. ASSUME NEW f \in Fibers, f # g, LocalTo(f)
        PROVE  pc'[g] = pc[g]
    BY <2>1 DEF LocalTo, OthersFrame, SameFrame
  <2>2. CASE \E w \in Workers : Worker(w)
    BY <1>2, <2>0, <2>1, <2>2, Apart, WorkerLocal
  <2>3. CASE Monitor
    BY <1>2, <2>0, <2>1, <2>3, FibersAssumption, MonitorLocal
  <2>4. CASE \E f \in Fibers : Subroutine(f)
    <3>1. PICK f \in Fibers : Subroutine(f)
      BY <2>4
    <3>2. CASE f # g
      BY <2>0, <2>1, <3>1, <3>2, SubroutineLocal
    <3>3. CASE f = g
      BY <3>1, <3>3, SubroutineNeverStrands DEF Stranding
    <3> QED
      BY <3>2, <3>3
  <2>5. CASE \E c \in Clients : ClientCall(c) \/ ClientStep(c)
    <3>1. PICK c \in Clients : ClientCall(c) \/ ClientStep(c)
      BY <2>5
    <3>2. CASE c = g
      BY <2>0, <3>1, <3>2, ClientMoves
    <3>3. CASE c # g /\ ~ReachesOthers(c)
      BY <2>0, <2>1, <3>1, <3>3, ClientLocal, NotWorker
    <3>4. CASE c # g /\ ReachesOthers(c)
      <4>1. CASE CallResume(c) \/ DrainModeOpensLatch(c)
        BY <2>0, <4>1 DEF CallResume, DrainModeOpensLatch, OpenLatch
      <4>2. CASE ForkProcessingFibers(c)
        BY <2>0, <4>2 DEF ForkProcessingFibers, ForkWorkers, TypeOK, FramesOK
      <4> QED
        BY <3>4, <4>1, <4>2 DEF ReachesOthers
    <3> QED
      BY <3>1, <3>2, <3>3, <3>4
  <2>6. CASE AtRest
    BY <2>0, <2>6 DEF AtRest, vars
  <2> QED
    BY <2>2, <2>3, <2>4, <2>5, <2>6 DEF Next
<1> QED
  BY <1>1, <1>2


(* Entries are only ever added.                                                *)
LEMMA IdsGrow ==
    ASSUME Shifted
    PROVE  EntryIds \subseteq EntryIds'
BY DEF Shifted, NothingMoves, Moved, Minted, Ended, SameEntries

LEMMA NextExclusive ==
    ASSUME TypeOK, TypeOK', Accounts, Partition, Partition', FramesClear, NoRestores,
           Exclusive, Uncontended, Next, ~Spend("encodeError")
    PROVE  Exclusive'
<1>1. NoGain
  <2> SUFFICES ASSUME NEW e \in EntryIds, OwnsKey(e)'
               PROVE  OwnsKey(e)
    BY DEF NoGain
  <2>1. e \in EntryIds'
    BY NextShifts, IdsGrow
  <2> QED
    BY <2>1, NoNewOwners
<1>2. CASE \E w \in Workers : Worker(w)
  BY <1>1, <1>2, WorkerExclusive DEF Uncontended
<1>3. CASE Monitor
  BY <1>1, <1>3, MonitorExclusive
<1>4. CASE \E f \in Fibers : Subroutine(f)
  BY <1>1, <1>4, SubroutineExclusive DEF Uncontended
<1>5. CASE \E c \in Clients : ClientCall(c) \/ ClientStep(c)
  BY <1>1, <1>5, ClientExclusive
<1>6. CASE AtRest
  <2>1. UNCHANGED <<entry, activeKeys, pc, todo>>
    BY <1>6 DEF AtRest, vars
  <2>2. ClaimsFresh' /\ KeysStayHeld
    BY <2>1 DEF Exclusive, ClaimsFresh, KeysStayHeld
  <2> QED
    BY <1>1, <2>1, <2>2, NoEntryMinted
<1> QED
  BY <1>2, <1>3, <1>4, <1>5, <1>6 DEF Next

DedupInv == LeftBound /\ NoRestores /\ Exclusive

LEMMA InitDedup == Init => DedupInv
<1> SUFFICES ASSUME Init PROVE DedupInv
  OBVIOUS
<1>1. /\ left = Budget /\ entry = <<>>
      /\ \A f \in Fibers : pc[f] \in {"idle", "loop", "off"}
  BY DEF Init
<1>2. LeftBound
  BY <1>1, ConfigAssumption DEF LeftBound
<1>3. EntryIds = {}
  BY <1>1 DEF EntryIds
<1> QED
  BY <1>1, <1>2, <1>3
     DEF DedupInv, NoRestores, Exclusive, KeysHeld, ClaimsFresh, DedupExclusive

LEMMA NextDedup ==
    ASSUME TypeOK, TypeOK', Accounts, Partition, Partition', Frames, DedupInv, Uncontended,
           Budget["encodeError"] = 0, [Next]_vars
    PROVE  DedupInv'
<1>1. CASE UNCHANGED vars
  BY <1>1 DEF vars, DedupInv, LeftBound, NoRestores, Exclusive, KeysHeld, ClaimsFresh,
              DedupExclusive, OwnsKey, KeyOfEntry, Holds, Enqueuing, EntryIds
<1>2. CASE Next
  <2>1. LeftBound'
    <3>1. CASE left' = left
      BY <3>1 DEF DedupInv, LeftBound
    <3> QED
      BY <1>2, <3>1, NextSpends, SpendSpoils DEF DedupInv
  <2>2. ~Spend("encodeError")
    <3>1. "encodeError" \in OpNames
      BY DEF OpNames
    <3>2. left["encodeError"] <= 0
      <4>1. left["encodeError"] <= Budget["encodeError"]
        BY <3>1 DEF DedupInv, LeftBound
      <4> QED
        BY <4>1
    <3>3. SUFFICES ASSUME Spend("encodeError") PROVE FALSE
      OBVIOUS
    <3>4. left["encodeError"] > 0
      BY <3>3 DEF Spend
    <3> QED
      BY <3>1, <3>2, <3>4 DEF TypeOK, HistoryOK
  <2> QED
    BY <1>2, <2>1, <2>2, NextExclusive, NoRestoresStay DEF DedupInv, Frames
<1> QED
  BY <1>1, <1>2

(* DedupExclusive: no two entries that are enqueued or processing have the     *)
(* same dedup key, as long as nobody is in one of the two windows with         *)
(* another's key, and no encoding of a released entry fails (its entries go    *)
(* back without their keys). The hypothesis is about the states passed, so the *)
(* windows are the only ways to run one key twice.                             *)
THEOREM KeysExclusive ==
    ASSUME Budget["encodeError"] = 0
    PROVE  Spec /\ []Uncontended => []DedupExclusive
<1>1. Init => Accounts /\ Partition /\ Frames /\ DedupInv
  BY InitAccounts, InitPartition, InitFrames, InitDedup DEF Frames
<1>2. TypeOK /\ TypeOK' /\ Uncontended /\ (Accounts /\ Partition /\ Frames /\ DedupInv)
        /\ [Next]_vars
        => (Accounts /\ Partition /\ Frames /\ DedupInv)'
  BY NextAccounts, NextPartition, NextFrames, NextDedup DEF Frames
<1>3. DedupInv => DedupExclusive
  BY DEF DedupInv, Exclusive
<1> QED
  BY <1>1, <1>2, <1>3, TypeCorrect, PTL DEF Spec

(* One caller, whose effects do not enqueue and are not retried: nobody else   *)
(* is ever in either window.                                                   *)
Adding == {"enq", "dedup", "claim", "requeue"}
OnlyAdds(c) == \A f \in Fibers \ {c} : pc[f] \notin Adding
RetriesOff == \A d \in Dispositions : d # "retry" /\ (d = "default" => ~AutoReEnqueue)

LEMMA WorkerNeverAdds ==
    ASSUME TypeOK, NEW w \in Workers, Worker(w), pc[w] \notin Adding, ~Spend("ctx"), RetriesOff
    PROVE  pc'[w] \notin Adding
<1> w \in Fibers
  BY Apart
<1>1. CASE WorkerLoop(w) \/ AwaitLatch(w) \/ TakeNextEmpty(w) \/ WorkerWoken(w)
  BY <1>1, FrameOf DEF WorkerLoop, AwaitLatch, TakeNextEmpty, WorkerWoken, Adding
<1>2. CASE PollLane(w)
  <2>1. pc[w] = "poll" /\ (UNCHANGED pc \/ \E v \in {"latch2", "check"} : GoTo(w, v))
    BY <1>2, Zenon DEF PollLane
  <2> QED
    BY <2>1, FrameOf DEF Adding
<1>3. CASE RateLimitAwait(w) \/ SkipRateLimitedItem(w) \/ StartItem(w) \/ EffectExits(w)
             \/ ReleaseKey(w) \/ ReleasePermit(w)
  BY <1>3, FrameOf DEF RateLimitAwait, SkipRateLimitedItem, StartItem, EffectExits,
                       ReleaseKey, ReleasePermit, Adding
<1>4. CASE CtxEnqueue(w) \/ RetryRelease(w)
  BY <1>4 DEF CtxEnqueue, RetryRelease, Adding
<1>5. CASE SettleItem(w)
  <2>1. PICK v \in {"empty", "dispose"} : GoTo(w, v)
    BY <1>5 DEF SettleItem
  <2> QED
    BY <2>1, FrameOf DEF Adding
<1>6. CASE DisposeFailure(w)
  <2>1. PICK v : v = "empty" /\ GoTo(w, v)
    BY <1>6 DEF DisposeFailure, RetriesOff
  <2> QED
    BY <2>1, FrameOf DEF Adding
<1> QED
  BY <1>1, <1>2, <1>3, <1>4, <1>5, <1>6 DEF Worker

LEMMA MonitorNeverAdds ==
    ASSUME TypeOK, Monitor, ~Spend("refill")
    PROVE  pc'[DrainMonitor] \notin Adding
<1> DrainMonitor \in Fibers
  BY DEF Fibers
<1>1. PICK label \in {"wait", "check", "exit", "isEmpty", "load", "loop"} :
        GoTo(DrainMonitor, label)
  BY DEF Monitor, MonitorLoop, MonitorWoken, MonitorCheck, MonitorLoad
<1> QED
  BY <1>1, FrameOf DEF Adding

LEMMA SubroutineNeverAdds ==
    ASSUME TypeOK, NEW f \in Fibers, Subroutine(f), pc[f] \notin Adding
    PROVE  pc'[f] \notin Adding
<1>1. CASE Offer(f)
  <2>1. PICK label \in {"wake1", "offer"} : GoTo(f, label)
    BY <1>1 DEF Offer
  <2> QED
    BY <2>1, FrameOf DEF Adding
<1>2. CASE ClaimKey(f) \/ DedupCheck(f)
  <2>1. pc[f] \in {"claim", "dedup"}
    BY <1>2, Zenon DEF ClaimKey, DedupCheck
  <2> QED
    BY <2>1 DEF Adding
<1>3. CASE \/ EnqueueShutdownCheck(f) \/ DedupDone(f) \/ SignalWorkerWake(f)
           \/ SignalDrainWake(f) \/ WakeDrainedIfEmpty(f) \/ FinalizeRead(f)
           \/ FinalizeSet(f)
  <2>1. \/ pc'[f] \in {"offer", "wake2", "drain1", "drain2", "fin2"}
        \/ pc[f] = "wake1" /\ pc'[f] \in {"dedup", "offer", "wake2"}
        \/ \E label \in {AfterEnqueue(f), AfterWorkerWake(f), AfterDrainWake(f),
                         AfterFinalize(f)} : Return(f, label)
    BY <1>3, SubroutineMoves DEF Adding
  <2>2. pc[f] = "wake1" => pc'[f] # "dedup"
    <3>1. ASSUME pc[f] = "wake1" PROVE SignalWorkerWake(f)
      BY <1>3, <3>1 DEF EnqueueShutdownCheck, DedupDone, SignalDrainWake,
                        WakeDrainedIfEmpty, FinalizeRead, FinalizeSet
    <3>2. ASSUME SignalWorkerWake(f), pc[f] = "wake1" PROVE pc'[f] = "wake2"
      BY <3>2, FrameOf DEF SignalWorkerWake
    <3> QED
      BY <3>1, <3>2
  <2>3. {AfterEnqueue(f), AfterWorkerWake(f), AfterDrainWake(f), AfterFinalize(f)}
          \cap Adding = {}
    BY DEF AfterEnqueue, AfterWorkerWake, AfterDrainWake, AfterFinalize, Adding
  <2> QED
    BY <2>1, <2>2, <2>3, ReturnsFrame DEF Adding
<1> QED
  BY <1>1, <1>2, <1>3 DEF Subroutine

LEMMA OnlyAddsNext ==
    ASSUME TypeOK, NEW c \in Clients, Clients = {c}, RetriesOff, OnlyAdds(c), Next,
           ~Spend("ctx"), ~Spend("refill")
    PROVE  OnlyAdds(c)'
<1> SUFFICES ASSUME NEW g \in Fibers \ {c} PROVE pc'[g] \notin Adding
  BY DEF OnlyAdds
<1>0. pc[g] \notin Adding
  BY DEF OnlyAdds
<1>1. ASSUME NEW f \in Fibers, f # g, LocalTo(f)
      PROVE  pc'[g] = pc[g]
  BY <1>1 DEF LocalTo, OthersFrame, SameFrame
<1>2. CASE \E w \in Workers : Worker(w)
  BY <1>0, <1>1, <1>2, Apart, WorkerLocal, WorkerNeverAdds
<1>3. CASE Monitor
  BY <1>0, <1>1, <1>3, FibersAssumption, MonitorLocal, MonitorNeverAdds DEF Fibers
<1>4. CASE \E f \in Fibers : Subroutine(f)
  BY <1>0, <1>1, <1>4, SubroutineLocal, SubroutineNeverAdds
<1>5. CASE ClientCall(c) \/ ClientStep(c)
  <2>1. CASE ~ReachesOthers(c)
    BY <1>0, <1>1, <1>5, <2>1, ClientLocal, NotWorker
  <2>2. CASE CallResume(c) \/ DrainModeOpensLatch(c)
    BY <1>0, <2>2 DEF CallResume, DrainModeOpensLatch, OpenLatch, Adding
  <2>3. CASE ForkProcessingFibers(c)
    BY <1>0, <2>3 DEF ForkProcessingFibers, ForkWorkers, TypeOK, FramesOK, Adding
  <2> QED
    BY <2>1, <2>2, <2>3 DEF ReachesOthers
<1>6. CASE AtRest
  BY <1>0, <1>6 DEF AtRest, vars
<1> QED
  BY <1>2, <1>3, <1>4, <1>5, <1>6 DEF Next

OneCaller(c) == LeftBound /\ OnlyAdds(c)

(* DedupExclusive without a hypothesis on the states passed: a queue with one  *)
(* caller, whose effects neither enqueue nor are retried and that no loader    *)
(* refills, never holds two entries of one dedup key, whatever its workers,    *)
(* lanes, pauses, interrupted calls, clears, releases and shutdowns do.        *)
THEOREM OneCallerExclusive ==
    ASSUME NEW c, Clients = {c}, RetriesOff,
           \A o \in {"ctx", "refill", "encodeError"} : Budget[o] = 0
    PROVE  Spec => []DedupExclusive
<1>0. c \in Clients /\ Budget["encodeError"] = 0
  OBVIOUS
<1>1. Init => OneCaller(c)
  <2> SUFFICES ASSUME Init PROVE OneCaller(c)
    OBVIOUS
  <2>1. left = Budget /\ \A f \in Fibers : pc[f] \in {"idle", "loop", "off"}
    BY DEF Init
  <2>2. LeftBound
    BY <2>1, ConfigAssumption DEF LeftBound
  <2> QED
    BY <2>1, <2>2 DEF OneCaller, OnlyAdds, Adding
<1>2. TypeOK /\ OneCaller(c) /\ [Next]_vars => OneCaller(c)'
  <2> SUFFICES ASSUME TypeOK, OneCaller(c), [Next]_vars PROVE OneCaller(c)'
    OBVIOUS
  <2>1. CASE UNCHANGED vars
    BY <2>1 DEF vars, OneCaller, LeftBound, OnlyAdds
  <2>2. CASE Next
    <3>1. LeftBound'
      <4>1. CASE left' = left
        BY <4>1 DEF OneCaller, LeftBound
      <4> QED
        BY <2>2, <4>1, NextSpends, SpendSpoils DEF OneCaller
    <3>2. ~Spend("ctx") /\ ~Spend("refill")
      <4>1. left["ctx"] \in Nat /\ left["refill"] \in Nat
        BY DEF TypeOK, HistoryOK, OpNames
      <4>2. left["ctx"] <= Budget["ctx"] /\ left["refill"] <= Budget["refill"]
        BY DEF OneCaller, LeftBound, OpNames
      <4>3. left["ctx"] <= 0 /\ left["refill"] <= 0
        BY <4>2
      <4> QED
        BY <4>1, <4>3 DEF Spend
    <3> QED
      BY <1>0, <2>2, <3>1, <3>2, OnlyAddsNext DEF OneCaller
  <2> QED
    BY <2>1, <2>2
<1>3. OneCaller(c) => Uncontended
  BY Apart DEF OneCaller, OnlyAdds, Adding, Uncontended, ClaimsApart, RetryKeysFree
<1>4. Spec => []Uncontended
  BY <1>1, <1>2, <1>3, TypeCorrect, PTL DEF Spec
<1>5. Spec /\ []Uncontended => []DedupExclusive
  BY <1>0, KeysExclusive
<1> QED
  BY <1>4, <1>5, PTL
============================================================================
