--------------------------- MODULE RunGateProofs ---------------------------
(* The gate for any number of callers and permits: permits are conserved,   *)
(* the counters cover the callers and account for every run, and the history *)
(* told from the facts is the one that happened.                            *)
EXTENDS RunGate, FiniteSetTheorems, TLAPS

(* The parts of the invariant need one another: a release stays within the  *)
(* permits because its caller holds one, and a counter that goes down stays *)
(* above zero because its caller is counted in it.                          *)
IInv == TypeOK /\ PermitsConserved /\ CountersCover /\ RunsAccounted

----------------------------------------------------------------------------
(* A set that differs from another in one element at most.                  *)
One(b) == IF b THEN 1 ELSE 0

LEMMA OneMoves ==
    ASSUME NEW S, NEW T, NEW c, IsFiniteSet(S), IsFiniteSet(T), S \ {c} = T \ {c}
    PROVE  /\ Cardinality(S) \in Nat /\ Cardinality(T) \in Nat
           /\ Cardinality(T) = Cardinality(S) + One(c \in T) - One(c \in S)
<1>1. Cardinality(S) \in Nat /\ Cardinality(T) \in Nat
  BY FS_CardinalityType
<1>2. Cardinality(S \ {c}) = IF c \in S THEN Cardinality(S) - 1 ELSE Cardinality(S)
  BY FS_RemoveElement
<1>3. Cardinality(T \ {c}) = IF c \in T THEN Cardinality(T) - 1 ELSE Cardinality(T)
  BY FS_RemoveElement
<1> QED
  BY <1>1, <1>2, <1>3 DEF One

LEMMA Counted ==
    /\ IsFiniteSet(Holders) /\ IsFiniteSet(Waiters)
    /\ IsFiniteSet(Runners) /\ IsFiniteSet(Numbered)
<1>1. Holders \subseteq Callers /\ Waiters \subseteq Callers
      /\ Runners \subseteq Callers /\ Numbered \subseteq Callers
  BY DEF Holders, Waiters, Runners, Numbered
<1> QED
  BY <1>1, FS_Subset, GateAssumption

LEMMA CountedNext ==
    /\ IsFiniteSet(Holders') /\ IsFiniteSet(Waiters')
    /\ IsFiniteSet(Runners') /\ IsFiniteSet(Numbered')
<1>1. Holders' \subseteq Callers /\ Waiters' \subseteq Callers
      /\ Runners' \subseteq Callers /\ Numbered' \subseteq Callers
  BY DEF Holders, Waiters, Runners, Numbered
<1> QED
  BY <1>1, FS_Subset, GateAssumption

(* A step of one caller moves that caller only between the four sets.       *)
Elsewhere(c) ==
    \A d \in Callers \ {c} : pc'[d] = pc[d] /\ why'[d] = why[d]

LEMMA SetsMove ==
    ASSUME NEW c \in Callers, Elsewhere(c)
    PROVE  /\ Cardinality(Holders) \in Nat /\ Cardinality(Waiters) \in Nat
           /\ Cardinality(Runners) \in Nat /\ Cardinality(Numbered) \in Nat
           /\ Cardinality(Holders)' = Cardinality(Holders)
                + One(c \in Holders') - One(c \in Holders)
           /\ Cardinality(Waiters)' = Cardinality(Waiters)
                + One(c \in Waiters') - One(c \in Waiters)
           /\ Cardinality(Runners)' = Cardinality(Runners)
                + One(c \in Runners') - One(c \in Runners)
           /\ Cardinality(Numbered)' = Cardinality(Numbered)
                + One(c \in Numbered') - One(c \in Numbered)
           /\ Cardinality(Holders)' \in Nat /\ Cardinality(Waiters)' \in Nat
           /\ Cardinality(Runners)' \in Nat /\ Cardinality(Numbered)' \in Nat
<1>1. Holders \ {c} = Holders' \ {c}
  BY DEF Elsewhere, Holders, Using
<1>2. Waiters \ {c} = Waiters' \ {c}
  BY DEF Elsewhere, Waiters
<1>3. Runners \ {c} = Runners' \ {c}
  BY DEF Elsewhere, Runners
<1>4. Numbered \ {c} = Numbered' \ {c}
  BY DEF Elsewhere, Numbered
<1> QED
  BY <1>1, <1>2, <1>3, <1>4, Counted, CountedNext, OneMoves

(* Where one caller stands in the four sets, and where it stands after the  *)
(* step: what the sums need to know of it.                                  *)
Here(c) ==
    /\ c \in Holders <=> \/ pc[c] \in {"noteStart", "effect", "noteEnd", "release"}
                         \/ pc[c] \in {"modify", "record"} /\ why[c] # "waiting"
    /\ c \in Waiters <=> \/ pc[c] = "record" /\ why[c] = "waiting"
                         \/ pc[c] = "take"
                         \/ pc[c] = "modify" /\ why[c] = "started"
    /\ c \in Runners <=> \/ pc[c] \in {"noteStart", "effect"}
                         \/ pc[c] = "record" /\ why[c] = "started"
                         \/ pc[c] = "modify" /\ why[c] \in Endings
    /\ c \in Numbered <=> pc[c] = "modify" /\ why[c] = "waiting"

LEMMA Standing == \A c \in Callers : Here(c) /\ Here(c)'
BY DEF Here, Holders, Using, Waiters, Runners, Numbered

----------------------------------------------------------------------------
(* One lemma per action: where the caller goes, what the sets lose or gain, *)
(* the types, then the three sums.                                          *)

LEMMA CallStep ==
    ASSUME IInv, NEW c \in Callers, Call(c)
    PROVE  IInv'
<1>1. /\ Elsewhere(c) /\ pc[c] = "idle"
      /\ \/ kind = "gate" /\ pc'[c] = "modify" /\ why'[c] = "waiting"
         \/ kind = "runner" /\ pc'[c] = "take"
  BY DEF IInv, TypeOK, Call, Goto, Publish, Elsewhere
<1>2. /\ c \notin Holders /\ c \notin Waiters /\ c \notin Runners /\ c \notin Numbered
      /\ c \notin Holders' /\ c \notin Runners'
      /\ kind = "gate" => c \in Numbered' /\ c \notin Waiters'
  BY <1>1, Standing DEF Here, Endings
<1>3. TypeOK'
  BY DEF IInv, TypeOK, Call, Goto, Publish, Stages, Reasons
<1>4. PermitsConserved'
  BY <1>1, <1>2, SetsMove DEF IInv, PermitsConserved, Call, One
<1>5. CountersCover'
  BY <1>1, <1>2, SetsMove DEF IInv, TypeOK, CountersCover, Call, One, Counters
<1>6. RunsAccounted'
  BY <1>1, <1>2, SetsMove DEF IInv, TypeOK, RunsAccounted, Call, One, Counters
<1> QED
  BY <1>3, <1>4, <1>5, <1>6 DEF IInv

LEMMA ModifyStep ==
    ASSUME IInv, NEW c \in Callers, Modify(c)
    PROVE  IInv'
<1>1. /\ Elsewhere(c) /\ pc[c] = "modify" /\ pc'[c] = "record"
      /\ why'[c] = why[c] /\ why[c] \in Reasons /\ kind = "gate"
  BY DEF IInv, TypeOK, Modify, Goto, Elsewhere
<1>2. /\ c \in Holders' <=> c \in Holders
      /\ c \in Waiters' <=> why[c] = "waiting"
      /\ c \in Waiters <=> why[c] = "started"
      /\ c \in Runners' <=> why[c] = "started"
      /\ c \in Runners <=> why[c] \in Endings
      /\ c \in Numbered <=> why[c] = "waiting"
      /\ c \notin Numbered'
  BY <1>1, Standing DEF Here, Endings
<1>3. /\ why[c] = "waiting" => gate' = [gate EXCEPT !["waiting"] = @ + 1]
      /\ why[c] = "started" => gate' = [gate EXCEPT !["waiting"] = Down(@),
                                                   !["inFlight"] = @ + 1]
      /\ why[c] \in Endings => gate' = [gate EXCEPT !["inFlight"] = Down(@),
                                                   ![why[c]] = @ + 1]
  <2>1. gate' = Updated(why[c])
    BY DEF Modify
  <2>2. CASE why[c] = "waiting"
    BY <2>1, <2>2 DEF Updated, Endings
  <2>3. CASE why[c] = "started"
    BY <2>1, <2>3 DEF Updated, Endings
  <2>4. CASE why[c] \in Endings
    <3>1. why[c] # "waiting" /\ why[c] # "started"
      BY <2>4 DEF Endings
    <3> QED
      BY <2>1, <3>1 DEF Updated
  <2> QED
    BY <1>1, <2>2, <2>3, <2>4 DEF Reasons
<1>4. gate \in [Counters -> Nat] /\ gate' \in [Counters -> Nat]
  BY <1>1, <1>3 DEF IInv, TypeOK, Down, Counters, Reasons, Endings
<1>5. TypeOK'
  BY <1>1, <1>4 DEF IInv, TypeOK, Modify, Goto, Stages
<1>6. PermitsConserved'
  BY <1>1, <1>2, SetsMove DEF IInv, PermitsConserved, Modify, One
<1>7. /\ c \in Waiters => gate["waiting"] > 0
      /\ c \in Runners => gate["inFlight"] > 0
  <2>1. c \in Waiters => Cardinality(Waiters) # 0
    BY Counted, FS_EmptySet
  <2>2. c \in Runners => Cardinality(Runners) # 0
    BY Counted, FS_EmptySet
  <2> QED
    BY <1>1, <1>4, <2>1, <2>2, SetsMove DEF IInv, CountersCover, Counters
<1>8. CASE why[c] = "waiting"
  <2>1. CountersCover'
    BY <1>1, <1>2, <1>3, <1>4, <1>8, SetsMove
       DEF IInv, CountersCover, Modify, One, Counters, Endings
  <2>2. RunsAccounted'
    BY <1>1, <1>2, <1>3, <1>4, <1>8, SetsMove
       DEF IInv, TypeOK, RunsAccounted, Modify, One, Counters, Endings
  <2> QED
    BY <1>5, <1>6, <2>1, <2>2 DEF IInv
<1>9. CASE why[c] = "started"
  <2>1. CountersCover'
    BY <1>1, <1>2, <1>3, <1>4, <1>7, <1>9, SetsMove
       DEF IInv, CountersCover, Modify, One, Counters, Endings, Down
  <2>2. RunsAccounted'
    BY <1>1, <1>2, <1>3, <1>4, <1>7, <1>9, SetsMove
       DEF IInv, TypeOK, RunsAccounted, Modify, One, Counters, Endings, Down
  <2> QED
    BY <1>5, <1>6, <2>1, <2>2 DEF IInv
<1>10. CASE why[c] \in Endings
  <2>1. /\ gate'["waiting"] = gate["waiting"]
        /\ gate'["inFlight"] = gate["inFlight"] - 1
        /\ gate'["completed"] + gate'["failed"] + gate'["interrupted"]
            = gate["completed"] + gate["failed"] + gate["interrupted"] + 1
    BY <1>2, <1>3, <1>4, <1>7, <1>10 DEF Counters, Endings, Down
  <2>2. CountersCover'
    BY <1>1, <1>2, <1>4, <1>10, <2>1, SetsMove
       DEF IInv, CountersCover, Modify, One, Counters, Endings
  <2>3. RunsAccounted'
    <3>1. \A x \in Counters : gate[x] \in Nat /\ gate'[x] \in Nat
      BY <1>4
    <3>2. Cardinality(Numbered)' = Cardinality(Numbered)
      BY <1>1, <1>2, <1>10, SetsMove DEF One, Endings
    <3>3. runSeq' = runSeq /\ kind' = kind /\ Cardinality(Numbered) \in Nat
      BY SetsMove, <1>1 DEF Modify
    <3> QED
      BY <1>1, <2>1, <3>1, <3>2, <3>3 DEF IInv, RunsAccounted, Counters
  <2> QED
    BY <1>5, <1>6, <2>2, <2>3 DEF IInv
<1> QED
  BY <1>1, <1>8, <1>9, <1>10 DEF Reasons

LEMMA RecordStep ==
    ASSUME IInv, NEW c \in Callers, Record(c)
    PROVE  IInv'
<1>1. /\ Elsewhere(c) /\ pc[c] = "record" /\ pc'[c] = AfterRecord(why[c])
      /\ why'[c] = why[c] /\ why[c] \in Reasons /\ kind = "gate"
  BY DEF IInv, TypeOK, Record, Goto, Elsewhere
<1>2. /\ why[c] = "waiting" => pc'[c] = "take"
      /\ why[c] = "started" => pc'[c] = "noteStart"
      /\ why[c] \in Endings => pc'[c] = "noteEnd"
  <2>1. CASE why[c] = "waiting"
    BY <1>1, <2>1 DEF AfterRecord, Endings
  <2>2. CASE why[c] = "started"
    BY <1>1, <2>2 DEF AfterRecord, Endings
  <2>3. CASE why[c] \in Endings
    <3>1. why[c] # "waiting" /\ why[c] # "started"
      BY <2>3 DEF Endings
    <3> QED
      BY <1>1, <2>3, <3>1 DEF AfterRecord
  <2> QED
    BY <1>1, <2>1, <2>2, <2>3 DEF Reasons
<1>3. /\ c \in Holders' <=> c \in Holders
      /\ c \in Waiters' <=> c \in Waiters
      /\ c \in Runners' <=> c \in Runners
      /\ c \in Numbered' <=> c \in Numbered
  BY <1>1, <1>2, Standing DEF Here, Endings, Reasons
<1>4. TypeOK'
  BY <1>1, <1>2 DEF IInv, TypeOK, Record, Goto, Stages, Reasons, Endings
<1>5. PermitsConserved'
  BY <1>1, <1>3, SetsMove DEF IInv, PermitsConserved, Record, One
<1>6. CountersCover'
  BY <1>1, <1>3, SetsMove DEF IInv, TypeOK, CountersCover, Record, One, Counters
<1>7. RunsAccounted'
  BY <1>1, <1>3, SetsMove DEF IInv, TypeOK, RunsAccounted, Record, One, Counters
<1> QED
  BY <1>4, <1>5, <1>6, <1>7 DEF IInv

LEMMA TakeStep ==
    ASSUME IInv, NEW c \in Callers, Take(c)
    PROVE  IInv'
<1>1. /\ Elsewhere(c) /\ pc[c] = "take" /\ why[c] \in Reasons
      /\ \/ c \in doomed /\ pc'[c] = "release"
         \/ kind = "gate" /\ pc'[c] = "modify" /\ why'[c] = "started"
         \/ kind = "runner" /\ pc'[c] = "effect"
  BY DEF IInv, TypeOK, Take, Goto, Publish, Elsewhere
<1>2. /\ c \notin Holders /\ c \in Holders'
      /\ c \in Waiters /\ c \notin Runners
      /\ c \notin Numbered /\ c \notin Numbered'
      /\ c \notin Runners' \/ kind = "runner"
      /\ c \in Waiters' \/ kind = "runner" \/ c \in doomed
  BY <1>1, Standing DEF Here, Endings
<1>3. TypeOK'
  <2>1. pc' \in [Callers -> Stages] /\ why' \in [Callers -> Reasons]
    BY DEF IInv, TypeOK, Take, Goto, Publish, Stages, Reasons
  <2>2. free' \in 0..Concurrency
    BY GateAssumption DEF IInv, TypeOK, Take
  <2>3. doomed' \subseteq Callers /\ (doomed' # {} => cancels' < MaxCancels)
    BY DEF IInv, TypeOK, Take
  <2>4. \A d \in Callers :
          /\ pc'[d] = "noteEnd" => why'[d] \in Endings
          /\ kind' = "runner" => pc'[d] \in {"idle", "take", "effect", "release"}
    BY <1>1 DEF IInv, TypeOK, Take, Elsewhere, Goto, Publish
  <2> QED
    BY <2>1, <2>2, <2>3, <2>4 DEF IInv, TypeOK, Take
<1>4. PermitsConserved'
  BY <1>1, <1>2, SetsMove DEF IInv, TypeOK, PermitsConserved, Take, One, GateAssumption
<1>5. CountersCover'
  <2>1. c \in doomed => cancels # MaxCancels
    BY GateAssumption DEF IInv, TypeOK
  <2> QED
    BY <1>1, <1>2, <2>1, SetsMove DEF IInv, TypeOK, CountersCover, Take, One, Counters
<1>6. RunsAccounted'
  BY <1>1, <1>2, SetsMove DEF IInv, TypeOK, RunsAccounted, Take, One, Counters
<1> QED
  BY <1>3, <1>4, <1>5, <1>6 DEF IInv

LEMMA NoteStartStep ==
    ASSUME IInv, NEW c \in Callers, NoteStart(c)
    PROVE  IInv'
<1>1. /\ Elsewhere(c) /\ pc[c] = "noteStart" /\ pc'[c] = "effect"
      /\ why'[c] = why[c] /\ faults' \in Nat
  BY DEF IInv, TypeOK, NoteStart, Write, Goto, Elsewhere
<1>2. /\ c \in Holders /\ c \in Holders' /\ c \in Runners /\ c \in Runners'
      /\ c \notin Waiters /\ c \notin Waiters'
      /\ c \notin Numbered /\ c \notin Numbered'
  BY <1>1, Standing DEF Here, Endings
<1>3. TypeOK'
  BY <1>1 DEF IInv, TypeOK, NoteStart, Goto, Stages
<1>4. PermitsConserved'
  BY <1>2, SetsMove, <1>1 DEF IInv, PermitsConserved, NoteStart, One
<1>5. CountersCover'
  BY <1>2, SetsMove, <1>1 DEF IInv, TypeOK, CountersCover, NoteStart, One, Counters
<1>6. RunsAccounted'
  BY <1>2, SetsMove, <1>1 DEF IInv, TypeOK, RunsAccounted, NoteStart, One, Counters
<1> QED
  BY <1>3, <1>4, <1>5, <1>6 DEF IInv

LEMMA EffectEndsStep ==
    ASSUME IInv, NEW c \in Callers, EffectEnds(c)
    PROVE  IInv'
<1>1. /\ Elsewhere(c) /\ pc[c] = "effect"
      /\ \/ kind = "gate" /\ pc'[c] = "modify" /\ why'[c] \in Endings
         \/ kind = "runner" /\ pc'[c] = "release"
  BY DEF IInv, TypeOK, EffectEnds, Goto, Publish, Elsewhere
<1>2. /\ c \in Holders /\ c \in Holders' /\ c \in Runners
      /\ c \in Runners' \/ kind = "runner"
      /\ c \notin Waiters /\ c \notin Waiters'
      /\ c \notin Numbered /\ c \notin Numbered'
  BY <1>1, Standing DEF Here, Endings
<1>3. TypeOK'
  <2>1. pc' \in [Callers -> Stages] /\ why' \in [Callers -> Reasons]
    BY DEF IInv, TypeOK, EffectEnds, Goto, Publish, Stages, Reasons
  <2>2. \A d \in Callers :
          /\ pc'[d] = "noteEnd" => why'[d] \in Endings
          /\ kind' = "runner" => pc'[d] \in {"idle", "take", "effect", "release"}
    BY <1>1 DEF IInv, TypeOK, EffectEnds, Elsewhere
  <2> QED
    BY <2>1, <2>2 DEF IInv, TypeOK, EffectEnds
<1>4. PermitsConserved'
  BY <1>2, SetsMove, <1>1 DEF IInv, PermitsConserved, EffectEnds, One
<1>5. CountersCover'
  BY <1>1, <1>2, SetsMove DEF IInv, TypeOK, CountersCover, EffectEnds, One, Counters
<1>6. RunsAccounted'
  BY <1>2, SetsMove, <1>1 DEF IInv, TypeOK, RunsAccounted, EffectEnds, One, Counters
<1> QED
  BY <1>3, <1>4, <1>5, <1>6 DEF IInv

LEMMA NoteEndStep ==
    ASSUME IInv, NEW c \in Callers, NoteEnd(c)
    PROVE  IInv'
<1>1. /\ Elsewhere(c) /\ pc[c] = "noteEnd" /\ pc'[c] = "release"
      /\ why'[c] = why[c] /\ faults' \in Nat
  BY DEF IInv, TypeOK, NoteEnd, Write, Goto, Elsewhere
<1>2. /\ c \in Holders /\ c \in Holders' /\ c \notin Runners /\ c \notin Runners'
      /\ c \notin Waiters /\ c \notin Waiters'
      /\ c \notin Numbered /\ c \notin Numbered'
  BY <1>1, Standing DEF Here
<1>3. TypeOK'
  BY <1>1 DEF IInv, TypeOK, NoteEnd, Goto, Stages
<1>4. PermitsConserved'
  BY <1>2, SetsMove, <1>1 DEF IInv, PermitsConserved, NoteEnd, One
<1>5. CountersCover'
  BY <1>2, SetsMove, <1>1 DEF IInv, TypeOK, CountersCover, NoteEnd, One, Counters
<1>6. RunsAccounted'
  BY <1>2, SetsMove, <1>1 DEF IInv, TypeOK, RunsAccounted, NoteEnd, One, Counters
<1> QED
  BY <1>3, <1>4, <1>5, <1>6 DEF IInv

(* The permit that comes back fits: the caller was one of the holders.      *)
LEMMA ReleaseStep ==
    ASSUME IInv, NEW c \in Callers, Release(c)
    PROVE  IInv'
<1>1. /\ Elsewhere(c) /\ pc[c] = "release" /\ pc'[c] = "idle"
  BY DEF IInv, TypeOK, Release, Goto, Elsewhere
<1>2. /\ c \in Holders /\ c \notin Holders' /\ c \notin Runners /\ c \notin Runners'
      /\ c \notin Waiters /\ c \notin Waiters'
      /\ c \notin Numbered /\ c \notin Numbered'
  BY <1>1, Standing DEF Here
<1>3. free + 1 \in 0..Concurrency
  <2>1. Cardinality(Holders) # 0
    BY <1>2, Counted, FS_EmptySet
  <2> QED
    BY <2>1, <1>1, SetsMove, GateAssumption DEF IInv, TypeOK, PermitsConserved
<1>4. TypeOK'
  BY <1>1, <1>3 DEF IInv, TypeOK, Release, Goto, Stages
<1>5. PermitsConserved'
  <2>1. Cardinality(Holders)' = Cardinality(Holders) - 1 /\ Cardinality(Holders) \in Nat
    BY <1>1, <1>2, SetsMove DEF One
  <2>2. free' = free + 1 /\ free \in Nat
    BY DEF IInv, TypeOK, Release
  <2>3. free + Cardinality(Holders) = Concurrency
    BY DEF IInv, PermitsConserved
  <2>4. free' + Cardinality(Holders)' = Concurrency
    BY <2>1, <2>2, <2>3
  <2> QED
    BY <2>4 DEF PermitsConserved
<1>6. CountersCover'
  BY <1>2, SetsMove, <1>1 DEF IInv, TypeOK, CountersCover, Release, One, Counters
<1>7. RunsAccounted'
  BY <1>2, SetsMove, <1>1 DEF IInv, TypeOK, RunsAccounted, Release, One, Counters
<1> QED
  BY <1>4, <1>5, <1>6, <1>7 DEF IInv

(* An interruption spends a cancel, so the counters need only be enough.    *)
LEMMA InterruptStep ==
    ASSUME IInv, NEW c \in Callers, Interrupt(c)
    PROVE  IInv'
<1>1. /\ Elsewhere(c) /\ why'[c] = why[c] /\ kind' = kind
      /\ cancels' \in 0..MaxCancels /\ cancels' < MaxCancels
      /\ gate' = gate /\ free' = free /\ runSeq' = runSeq
      /\ \/ Using(c) /\ pc'[c] = "release"
         \/ kind = "runner" /\ pc[c] = "take" /\ pc'[c] = "idle"
         \/ pc'[c] = pc[c]
  BY GateAssumption DEF IInv, TypeOK, Interrupt, Goto, Elsewhere
<1>2. Using(c) <=> \/ pc[c] \in {"noteStart", "effect", "noteEnd"}
                   \/ pc[c] \in {"modify", "record"} /\ why[c] # "waiting"
  BY DEF Using
<1>3. /\ c \in Holders' <=> c \in Holders
      /\ kind = "gate" => /\ c \in Waiters' => c \in Waiters
                          /\ c \in Runners' => c \in Runners
                          /\ c \in Numbered' <=> c \in Numbered
  BY <1>1, <1>2, Standing DEF Here
<1>4. TypeOK'
  <2>1. pc' \in [Callers -> Stages]
    BY DEF IInv, TypeOK, Interrupt, Goto, Stages
  <2>2. doomed' \subseteq Callers
    BY DEF IInv, TypeOK, Interrupt
  <2>3. \A d \in Callers :
          /\ pc'[d] = "noteEnd" => why'[d] \in Endings
          /\ kind' = "runner" => pc'[d] \in {"idle", "take", "effect", "release"}
    BY <1>1 DEF IInv, TypeOK, Elsewhere
  <2> QED
    BY <1>1, <2>1, <2>2, <2>3 DEF IInv, TypeOK, Interrupt
<1>5. PermitsConserved'
  BY <1>1, <1>3, SetsMove DEF IInv, PermitsConserved, One
<1>6. CountersCover'
  BY <1>1, <1>3, SetsMove DEF IInv, TypeOK, CountersCover, One, Counters
<1>7. RunsAccounted'
  BY <1>1, <1>3, SetsMove DEF IInv, TypeOK, RunsAccounted, One, Counters
<1> QED
  BY <1>4, <1>5, <1>6, <1>7 DEF IInv

(* All callers at the start: no permit is out and nothing is counted.       *)
LEMMA AllIdle ==
    ASSUME \A c \in Callers : pc[c] = "idle"
    PROVE  /\ Cardinality(Holders) = 0 /\ Cardinality(Waiters) = 0
           /\ Cardinality(Runners) = 0 /\ Cardinality(Numbered) = 0
<1>1. Holders = {} /\ Waiters = {} /\ Runners = {} /\ Numbered = {}
  BY DEF Holders, Using, Waiters, Runners, Numbered
<1> QED
  BY <1>1, FS_EmptySet

LEMMA Fresh ==
    ASSUME kind \in {"gate", "runner"},
           pc = [c \in Callers |-> "idle"], why = [c \in Callers |-> "waiting"],
           run = [c \in Callers |-> 0], doomed = {}, free = Concurrency,
           gate = [x \in Counters |-> 0], runSeq = 0,
           life \in Nat, cancels \in 0..MaxCancels, faults \in Nat
    PROVE  IInv
<1>1. TypeOK
  BY GateAssumption DEF TypeOK, Stages, Reasons
<1>2. /\ Cardinality(Holders) = 0 /\ Cardinality(Waiters) = 0
      /\ Cardinality(Runners) = 0 /\ Cardinality(Numbered) = 0
  BY AllIdle
<1>3. \A x \in Counters : gate[x] = 0
  OBVIOUS
<1>4. PermitsConserved /\ CountersCover /\ RunsAccounted
  BY <1>2, <1>3, GateAssumption
     DEF PermitsConserved, CountersCover, RunsAccounted, Counters
<1> QED
  BY <1>1, <1>4 DEF IInv

LEMMA InitIInv == Init => IInv
BY Fresh, GateAssumption DEF Init

LEMMA RestartStep ==
    ASSUME IInv, Restart
    PROVE  IInv'
<1>1. /\ kind' \in {"gate", "runner"}
      /\ life' \in Nat /\ cancels' \in 0..MaxCancels /\ faults' \in Nat
  BY DEF IInv, TypeOK, Restart
<1>2. TypeOK'
  BY <1>1, GateAssumption DEF TypeOK, Restart, Stages, Reasons
<1>3. Holders' = {} /\ Waiters' = {} /\ Runners' = {} /\ Numbered' = {}
  BY DEF Restart, Holders, Using, Waiters, Runners, Numbered
<1>4. /\ Cardinality(Holders)' = 0 /\ Cardinality(Waiters)' = 0
      /\ Cardinality(Runners)' = 0 /\ Cardinality(Numbered)' = 0
  BY <1>3, FS_EmptySet
<1>5. \A x \in Counters : gate'[x] = 0
  BY DEF Restart
<1>6. (PermitsConserved /\ CountersCover /\ RunsAccounted)'
  BY <1>4, <1>5, GateAssumption
     DEF Restart, PermitsConserved, CountersCover, RunsAccounted, Counters
<1> QED
  BY <1>2, <1>6 DEF IInv

LEMMA Stutter ==
    ASSUME IInv, UNCHANGED vars
    PROVE  IInv'
BY DEF vars, IInv, TypeOK, PermitsConserved, CountersCover, RunsAccounted,
       Holders, Using, Waiters, Runners, Numbered

LEMMA NextIInv == IInv /\ [Next]_vars => IInv'
<1> SUFFICES ASSUME IInv, [Next]_vars PROVE IInv'
  OBVIOUS
<1>1. ASSUME NEW c \in Callers, Step(c) PROVE IInv'
  BY <1>1, ModifyStep, RecordStep, TakeStep, NoteStartStep, EffectEndsStep,
     NoteEndStep, ReleaseStep DEF Step
<1>2. ASSUME NEW c \in Callers, Call(c) \/ Interrupt(c) PROVE IInv'
  BY <1>2, CallStep, InterruptStep
<1>3. ASSUME AtRest \/ UNCHANGED vars PROVE IInv'
  BY <1>3, Stutter DEF AtRest
<1> QED
  BY <1>1, <1>2, <1>3, RestartStep DEF Next

LEMMA Invariance == Spec => []IInv
BY InitIInv, NextIInv, PTL DEF Spec

----------------------------------------------------------------------------
(* The gate's variables keep their types, for any number of callers.        *)
THEOREM SpecTypeOK == Spec => []TypeOK
<1>1. IInv => TypeOK
  BY DEF IInv
<1> QED
  BY Invariance, <1>1, PTL

(* At most Concurrency effects run at once and no permit is ever lost,      *)
(* wherever callers are interrupted: acquireUseRelease of makeGateInternal. *)
THEOREM SpecPermitsConserved == Spec => []PermitsConserved
<1>1. IInv => PermitsConserved
  BY DEF IInv
<1> QED
  BY Invariance, <1>1, PTL

(* The counters of RunResourceState are at least the callers that wait and  *)
(* run, and exactly those as long as none is interrupted.                   *)
THEOREM SpecCountersCover == Spec => []CountersCover
<1>1. IInv => CountersCover
  BY DEF IInv
<1> QED
  BY Invariance, <1>1, PTL

(* Each numbered run is in exactly one counter of RunResourceState.         *)
THEOREM SpecRunsAccounted == Spec => []RunsAccounted
<1>1. IInv => RunsAccounted
  BY DEF IInv
<1> QED
  BY Invariance, <1>1, PTL

----------------------------------------------------------------------------
(* The history of a process that keeps its records no longer than itself.     *)

(* A caller whose effect has ended, and one whose effect has not.             *)
Ended(c) ==
    \/ pc[c] = "noteEnd"
    \/ pc[c] \in {"modify", "record"} /\ why[c] \in Endings
Unended(c) ==
    \/ pc[c] \in {"take", "noteStart", "effect"}
    \/ pc[c] \in {"modify", "record"} /\ why[c] \notin Endings

(* No two callers are in one run, and no run ended that was not numbered.     *)
RunsNumbered ==
    /\ runSeq <= MaxRuns /\ faults <= MaxFaults
    /\ \A c \in Callers : pc[c] # "idle" => run[c] # 0
    /\ \A c, d \in Callers : c # d /\ run[c] = run[d] => run[c] = 0
    /\ DOMAIN ends \subseteq 1..runSeq

(* Facts say what the effects did.                                          *)
FactsTrue ==
    /\ \A c \in Callers : Ended(c) => run[c] \in DOMAIN ends /\ ends[run[c]] = why[c]
    /\ \A c \in Callers : Unended(c) => run[c] \notin DOMAIN ends
    /\ \A x \in DOMAIN facts : facts[x] \in Nat
    /\ \A r \in Nat, t \in {"completed", "failed"} :
          <<r, t>> \in DOMAIN facts => r \in DOMAIN ends /\ t = EndFact(ends[r])

(* And as long as nothing was interrupted or refused, none is missing but    *)
(* those of callers on the way to write them.                               *)
Clean == cancels = MaxCancels /\ faults = MaxFaults
FactsThere ==
    Clean =>
        /\ \A c \in Callers :
              kind = "gate" /\ pc[c] = "effect" => <<run[c], "started">> \in DOMAIN facts
        /\ \A r \in DOMAIN ends :
              /\ <<r, "started">> \in DOMAIN facts
              /\ \/ <<r, EndFact(ends[r])>> \in DOMAIN facts
                 \/ \E c \in Callers : run[c] = r /\ Ended(c)

Told == RunsNumbered /\ FactsTrue /\ FactsThere

----------------------------------------------------------------------------
(* A step of c that writes nothing, and ends no effect.                      *)
Writeless(c) ==
    /\ Elsewhere(c) /\ UNCHANGED <<kind, run, runSeq, facts, faults, ends>>
    /\ pc[c] # "idle"
    /\ Ended(c)' => Ended(c) /\ why'[c] = why[c]
    /\ Unended(c)' => Unended(c)
    /\ Clean' => /\ Clean
                 /\ Ended(c) => Ended(c)'
                 /\ kind = "gate" /\ pc'[c] = "effect" => pc[c] = "effect"

LEMMA WritelessTold ==
    ASSUME Told, NEW c \in Callers, Writeless(c)
    PROVE  Told'
<1>1. \A d \in Callers \ {c} : /\ Ended(d)' <=> Ended(d)
                               /\ Unended(d)' <=> Unended(d)
                               /\ pc'[d] = pc[d] /\ why'[d] = why[d]
  BY DEF Writeless, Elsewhere, Ended, Unended
<1>2. RunsNumbered'
  BY <1>1 DEF Told, RunsNumbered, Writeless
<1>3. FactsTrue'
  BY <1>1 DEF Told, FactsTrue, Writeless
<1>4. FactsThere'
  <2> SUFFICES ASSUME Clean'
               PROVE  FactsThere'
    BY DEF FactsThere
  <2>1. Clean /\ \A d \in Callers : Ended(d) => Ended(d)'
    BY <1>1 DEF Writeless
  <2>2. \A d \in Callers : kind = "gate" /\ pc'[d] = "effect" => pc[d] = "effect"
    BY <1>1 DEF Writeless
  <2> QED
    BY <2>1, <2>2 DEF Told, FactsThere, Writeless
<1> QED
  BY <1>2, <1>3, <1>4 DEF Told

LEMMA QuietTold ==
    ASSUME IInv, Told, NEW c \in Callers,
           Modify(c) \/ Record(c) \/ Take(c) \/ Release(c) \/ Interrupt(c)
    PROVE  Told'
<1>0. TypeOK
  BY DEF IInv
<1>1. CASE Modify(c)
  <2>1. Elsewhere(c) /\ pc[c] = "modify" /\ pc'[c] = "record" /\ why'[c] = why[c]
        /\ UNCHANGED <<kind, run, runSeq, facts, faults, ends, cancels>>
    BY <1>0, <1>1 DEF TypeOK, Modify, Goto, Elsewhere
  <2> QED
    BY <2>1, WritelessTold DEF Writeless, Ended, Unended, Clean
<1>2. CASE Record(c)
  <2>1. Elsewhere(c) /\ pc[c] = "record" /\ pc'[c] = AfterRecord(why[c]) /\ why'[c] = why[c]
        /\ UNCHANGED <<kind, run, runSeq, facts, faults, ends, cancels>>
    BY <1>0, <1>2 DEF TypeOK, Record, Goto, Elsewhere
  <2>2. why[c] \in {"waiting", "started"} \cup Endings
    BY <1>0 DEF TypeOK, Reasons
  <2>3. CASE why[c] \in Endings
    <3>1. pc'[c] = "noteEnd"
      BY <2>1, <2>3 DEF AfterRecord, Endings
    <3> QED
      BY <2>1, <2>3, <3>1, WritelessTold DEF Writeless, Ended, Unended, Clean
  <2>4. CASE why[c] \in {"waiting", "started"}
    <3>1. pc'[c] \in {"take", "noteStart"} /\ why[c] \notin Endings
      BY <2>1, <2>4 DEF AfterRecord, Endings
    <3> QED
      BY <2>1, <3>1, WritelessTold DEF Writeless, Ended, Unended, Clean
  <2> QED
    BY <2>2, <2>3, <2>4
<1>3. CASE Take(c)
  <2>1. Elsewhere(c) /\ pc[c] = "take"
        /\ UNCHANGED <<kind, run, runSeq, facts, faults, ends, cancels>>
    BY <1>0, <1>3 DEF TypeOK, Take, Goto, Publish, Elsewhere
  <2>2. \/ pc'[c] = "release" /\ why'[c] = why[c]
        \/ pc'[c] = "modify" /\ why'[c] = "started"
        \/ kind = "runner" /\ pc'[c] = "effect" /\ why'[c] = why[c]
    BY <1>0, <1>3 DEF TypeOK, Take, Goto, Publish
  <2> QED
    BY <2>1, <2>2, WritelessTold DEF Writeless, Ended, Unended, Clean, Endings
<1>4. CASE Release(c)
  <2>1. Elsewhere(c) /\ pc[c] = "release" /\ pc'[c] = "idle" /\ why'[c] = why[c]
        /\ UNCHANGED <<kind, run, runSeq, facts, faults, ends, cancels>>
    BY <1>0, <1>4 DEF TypeOK, Release, Goto, Elsewhere
  <2> QED
    BY <2>1, WritelessTold DEF Writeless, Ended, Unended, Clean
<1>5. CASE Interrupt(c)
  <2>1. Elsewhere(c) /\ pc[c] # "idle" /\ why'[c] = why[c]
        /\ UNCHANGED <<kind, run, runSeq, facts, faults, ends>>
        /\ pc'[c] \in {pc[c], "idle", "release"}
    BY <1>0, <1>5 DEF TypeOK, Interrupt, Goto, Elsewhere
  <2>2. ~Clean'
    BY <1>0, <1>5, GateAssumption DEF TypeOK, Interrupt, Clean
  <2> QED
    BY <2>1, <2>2, WritelessTold DEF Writeless, Ended, Unended
<1> QED
  BY <1>1, <1>2, <1>3, <1>4, <1>5

(* A call has a number of its own.                                          *)
LEMMA CallTold ==
    ASSUME IInv, Told, NEW c \in Callers, Call(c)
    PROVE  Told'
<1>0. TypeOK
  BY DEF IInv
<1>1. /\ Elsewhere(c) /\ pc[c] = "idle" /\ pc'[c] \in {"modify", "take"}
      /\ pc'[c] = "modify" => why'[c] = "waiting"
      /\ runSeq \in Nat /\ runSeq < MaxRuns /\ runSeq' = runSeq + 1
      /\ run'[c] = runSeq + 1 /\ \A d \in Callers \ {c} : run'[d] = run[d]
      /\ UNCHANGED <<kind, facts, faults, ends, cancels>>
  BY <1>0 DEF TypeOK, Call, Goto, Publish, Elsewhere
<1>2. \A d \in Callers : run[d] \in 0..runSeq
  BY <1>0 DEF TypeOK
<1>3. ~Ended(c)' /\ ~Ended(c)
  BY <1>1 DEF Ended, Endings
<1>4. \A d \in Callers \ {c} : /\ Ended(d)' <=> Ended(d)
                               /\ Unended(d)' <=> Unended(d)
                               /\ pc'[d] = pc[d] /\ why'[d] = why[d]
  BY <1>1 DEF Elsewhere, Ended, Unended
<1>5. RunsNumbered'
  <2>1. runSeq' <= MaxRuns /\ faults' <= MaxFaults /\ run'[c] # 0
    BY <1>1, GateAssumption DEF Told, RunsNumbered
  <2>2. \A d \in Callers \ {c} : run'[d] # run'[c]
    BY <1>1, <1>2
  <2>3. DOMAIN ends' \subseteq 1..runSeq'
    BY <1>1 DEF Told, RunsNumbered
  <2> QED
    BY <1>1, <1>4, <2>1, <2>2, <2>3 DEF Told, RunsNumbered
<1>6. run'[c] \notin DOMAIN ends
  BY <1>1 DEF Told, RunsNumbered
<1>7. FactsTrue'
  BY <1>1, <1>3, <1>4, <1>6 DEF Told, FactsTrue
<1>8. FactsThere'
  <2>1. \A r \in DOMAIN ends : \A d \in Callers :
           run[d] = r /\ Ended(d) => run'[d] = r /\ Ended(d)'
    BY <1>1, <1>3, <1>4
  <2> QED
    BY <1>1, <1>4, <2>1 DEF Told, FactsThere, Clean
<1> QED
  BY <1>5, <1>7, <1>8 DEF Told

(* What a write does to the facts.                                          *)
LEMMA Written ==
    ASSUME TypeOK, faults <= MaxFaults, NEW id, Write(id),
           \A x \in DOMAIN facts : facts[x] \in Nat
    PROVE  /\ DOMAIN facts \subseteq DOMAIN facts'
           /\ DOMAIN facts' \subseteq DOMAIN facts \cup {id}
           /\ \A x \in DOMAIN facts' : facts'[x] \in Nat
           /\ faults' <= MaxFaults
           /\ faults' = MaxFaults => faults = MaxFaults /\ id \in DOMAIN facts'
<1>1. faults \in Nat /\ MaxFaults \in Nat /\ life \in Nat
  BY GateAssumption DEF TypeOK
<1> QED
  BY <1>1 DEF Write

LEMMA NoteStartTold ==
    ASSUME IInv, Told, NEW c \in Callers, NoteStart(c)
    PROVE  Told'
<1>0. TypeOK
  BY DEF IInv
<1>1. /\ Elsewhere(c) /\ pc[c] = "noteStart" /\ pc'[c] = "effect" /\ why'[c] = why[c]
      /\ UNCHANGED <<kind, run, runSeq, ends, cancels>>
  BY <1>0 DEF TypeOK, NoteStart, Goto, Elsewhere
<1>2. PICK id : id = <<run[c], "started">> /\ Write(id)
  BY DEF NoteStart
<1>3. /\ DOMAIN facts \subseteq DOMAIN facts' /\ DOMAIN facts' \subseteq DOMAIN facts \cup {id}
      /\ \A x \in DOMAIN facts' : facts'[x] \in Nat
      /\ faults' <= MaxFaults
      /\ faults' = MaxFaults => faults = MaxFaults /\ id \in DOMAIN facts'
  BY <1>0, <1>2, Written DEF Told, RunsNumbered, FactsTrue
<1>4. \A d \in Callers : /\ Ended(d)' <=> Ended(d)
                         /\ Unended(d)' <=> Unended(d)
                         /\ d # c => pc'[d] = pc[d]
                         /\ Ended(d)' => why'[d] = why[d]
  BY <1>1 DEF Elsewhere, Ended, Unended
<1>5. RunsNumbered'
  BY <1>1, <1>3, <1>4 DEF Told, RunsNumbered
<1>6. FactsTrue'
  <2>1. \A r \in Nat, t \in {"completed", "failed"} :
           <<r, t>> \in DOMAIN facts' => <<r, t>> \in DOMAIN facts
    BY <1>2, <1>3
  <2> QED
    BY <1>1, <1>3, <1>4, <2>1 DEF Told, FactsTrue
<1>7. FactsThere'
  <2> SUFFICES ASSUME Clean'
               PROVE  FactsThere'
    BY DEF FactsThere
  <2>1. Clean /\ id \in DOMAIN facts'
    BY <1>1, <1>3 DEF Clean
  <2> QED
    BY <1>1, <1>2, <1>3, <1>4, <2>1 DEF Told, FactsThere
<1> QED
  BY <1>5, <1>6, <1>7 DEF Told

(* The end that is noted is the one the effect had.                           *)
LEMMA NoteEndTold ==
    ASSUME IInv, Told, NEW c \in Callers, NoteEnd(c)
    PROVE  Told'
<1>0. TypeOK
  BY DEF IInv
<1>1. /\ Elsewhere(c) /\ pc[c] = "noteEnd" /\ pc'[c] = "release" /\ why'[c] = why[c]
      /\ UNCHANGED <<kind, run, runSeq, ends, cancels>>
  BY <1>0 DEF TypeOK, NoteEnd, Goto, Elsewhere
<1>2. Ended(c) /\ ~Ended(c)' /\ ~Unended(c)'
  BY <1>1 DEF Ended, Unended
<1>3. PICK n, t : n = run[c] /\ t = EndFact(why[c])
  OBVIOUS
<1>4. n \in DOMAIN ends /\ EndFact(ends[n]) = t
  BY <1>2, <1>3 DEF Told, FactsTrue
<1>5. Write(<<n, t>>)
  BY <1>3 DEF NoteEnd
<1>6. /\ DOMAIN facts \subseteq DOMAIN facts'
      /\ DOMAIN facts' \subseteq DOMAIN facts \cup {<<n, t>>}
      /\ \A x \in DOMAIN facts' : facts'[x] \in Nat
      /\ faults' <= MaxFaults
      /\ faults' = MaxFaults => faults = MaxFaults /\ <<n, t>> \in DOMAIN facts'
  BY <1>0, <1>5, Written DEF Told, RunsNumbered, FactsTrue
<1>7. \A d \in Callers \ {c} : /\ Ended(d)' <=> Ended(d)
                               /\ Unended(d)' <=> Unended(d)
                               /\ pc'[d] = pc[d] /\ why'[d] = why[d]
  BY <1>1 DEF Elsewhere, Ended, Unended
<1>8. RunsNumbered'
  BY <1>1, <1>6, <1>7 DEF Told, RunsNumbered
<1>9. FactsTrue'
  BY <1>1, <1>2, <1>4, <1>6, <1>7 DEF Told, FactsTrue
<1>10. FactsThere'
  <2> SUFFICES ASSUME Clean'
               PROVE  FactsThere'
    BY DEF FactsThere
  <2>1. Clean /\ <<n, t>> \in DOMAIN facts'
    BY <1>1, <1>6 DEF Clean
  <2>2. ASSUME NEW r \in DOMAIN ends
        PROVE  /\ <<r, "started">> \in DOMAIN facts'
               /\ \/ <<r, EndFact(ends[r])>> \in DOMAIN facts'
                  \/ \E d \in Callers : run[d] = r /\ Ended(d)'
    <3>1. CASE r = n
      BY <1>4, <1>6, <2>1, <3>1 DEF Told, FactsThere
    <3>2. CASE r # n
      BY <1>3, <1>6, <1>7, <2>1, <3>2 DEF Told, FactsThere
    <3> QED
      BY <3>1, <3>2
  <2> QED
    BY <1>1, <1>6, <1>7, <2>1, <2>2 DEF Told, FactsThere
<1> QED
  BY <1>8, <1>9, <1>10 DEF Told

LEMMA EffectEndsTold ==
    ASSUME IInv, Told, NEW c \in Callers, EffectEnds(c)
    PROVE  Told'
<1>0. TypeOK
  BY DEF IInv
<1>1. /\ Elsewhere(c) /\ pc[c] = "effect"
      /\ UNCHANGED <<kind, run, runSeq, facts, faults, cancels>>
  BY <1>0 DEF TypeOK, EffectEnds, Goto, Publish, Elsewhere
<1>2. CASE kind = "runner"
  <2>1. pc'[c] = "release" /\ why'[c] = why[c] /\ UNCHANGED ends
    BY <1>0, <1>2 DEF TypeOK, EffectEnds, Goto
  <2> QED
    BY <1>1, <2>1, WritelessTold DEF Writeless, Ended, Unended, Clean
<1>3. CASE kind = "gate"
  <2>1. PICK ending, n :
           /\ ending \in Endings /\ n = run[c] /\ Publish(c, ending)
           /\ ends' = [r \in DOMAIN ends \cup {n} |-> IF r = n THEN ending ELSE ends[r]]
    BY <1>3 DEF EffectEnds
  <2>2. pc'[c] = "modify" /\ why'[c] = ending
    BY <1>0, <2>1 DEF TypeOK, Publish, Goto
  <2>3. Ended(c)' /\ ~Unended(c)'
    BY <2>1, <2>2 DEF Ended, Unended
  <2>4. n \notin DOMAIN ends
    BY <1>1, <2>1 DEF Told, FactsTrue, Unended
  <2>5. /\ DOMAIN ends' = DOMAIN ends \cup {n} /\ ends'[n] = ending
        /\ \A r \in DOMAIN ends : ends'[r] = ends[r]
    BY <2>1, <2>4
  <2>6. n \in 1..runSeq /\ \A d \in Callers \ {c} : run[d] # n
    <3>1. n \in 0..runSeq /\ n # 0 /\ runSeq \in Nat
      BY <1>0, <1>1, <2>1 DEF TypeOK, Told, RunsNumbered
    <3> QED
      BY <2>1, <3>1 DEF Told, RunsNumbered
  <2>7. \A d \in Callers \ {c} : /\ Ended(d)' <=> Ended(d)
                                 /\ Unended(d)' <=> Unended(d)
                                 /\ pc'[d] = pc[d] /\ why'[d] = why[d]
    BY <1>1 DEF Elsewhere, Ended, Unended
  <2>8. RunsNumbered'
    BY <1>1, <2>5, <2>6, <2>7 DEF Told, RunsNumbered
  <2>9. FactsTrue'
    <3>1. \A d \in Callers : Ended(d)' => run'[d] \in DOMAIN ends' /\ ends'[run'[d]] = why'[d]
      BY <1>1, <2>1, <2>2, <2>5, <2>7 DEF Told, FactsTrue
    <3>2. \A d \in Callers : Unended(d)' => run'[d] \notin DOMAIN ends'
      BY <1>1, <2>3, <2>5, <2>6, <2>7 DEF Told, FactsTrue
    <3>3. \A r \in Nat, t \in {"completed", "failed"} :
             <<r, t>> \in DOMAIN facts' => r \in DOMAIN ends' /\ t = EndFact(ends'[r])
      BY <1>1, <2>5 DEF Told, FactsTrue
    <3> QED
      BY <1>1, <3>1, <3>2, <3>3 DEF Told, FactsTrue
  <2>10. FactsThere'
    <3> SUFFICES ASSUME Clean'
                 PROVE  FactsThere'
      BY DEF FactsThere
    <3>1. Clean
      BY <1>1 DEF Clean
    <3>2. <<n, "started">> \in DOMAIN facts
      BY <1>1, <1>3, <2>1, <3>1 DEF Told, FactsThere
    <3>3. ~Ended(c)
      BY <1>1 DEF Ended
    <3>4. \A r \in DOMAIN ends' : r # n => r \in DOMAIN ends /\ ends'[r] = ends[r]
      BY <2>5
    <3>5. \A r \in DOMAIN ends' :
              /\ <<r, "started">> \in DOMAIN facts'
              /\ \/ <<r, EndFact(ends'[r])>> \in DOMAIN facts'
                 \/ \E d \in Callers : run'[d] = r /\ Ended(d)'
      BY <1>1, <2>1, <2>3, <2>7, <3>1, <3>2, <3>3, <3>4 DEF Told, FactsThere
    <3>6. \A d \in Callers : kind = "gate" /\ pc'[d] = "effect" => pc[d] = "effect"
      BY <2>2, <2>7
    <3> QED
      BY <1>1, <3>1, <3>5, <3>6 DEF Told, FactsThere
  <2> QED
    BY <2>8, <2>9, <2>10 DEF Told
<1> QED
  BY <1>0, <1>2, <1>3 DEF TypeOK

(* A life that begins has no facts.                                         *)
LEMMA NewLifeTold ==
    ASSUME runSeq = 0, faults \in Nat, faults <= MaxFaults, ends = <<>>, facts = <<>>,
           pc = [c \in Callers |-> "idle"], why = [c \in Callers |-> "waiting"],
           run = [c \in Callers |-> 0]
    PROVE  Told
<1>1. DOMAIN ends = {} /\ DOMAIN facts = {}
  OBVIOUS
<1>2. \A c \in Callers : ~Ended(c) /\ ~Unended(c)
  BY DEF Ended, Unended
<1> QED
  BY <1>1, <1>2, GateAssumption DEF Told, RunsNumbered, FactsTrue, FactsThere

LEMMA RestartTold ==
    ASSUME IInv, Told, ~Durable, Restart
    PROVE  Told'
<1>1. /\ runSeq' = 0 /\ faults' \in Nat /\ faults' <= MaxFaults /\ ends' = <<>> /\ facts' = <<>>
      /\ pc' = [c \in Callers |-> "idle"] /\ why' = [c \in Callers |-> "waiting"]
      /\ run' = [c \in Callers |-> 0]
  BY DEF IInv, TypeOK, Told, RunsNumbered, Restart
<1>2. DOMAIN ends' = {} /\ DOMAIN facts' = {}
  BY <1>1
<1>3. \A c \in Callers : ~Ended(c)' /\ ~Unended(c)'
  BY <1>1 DEF Ended, Unended
<1> QED
  BY <1>1, <1>2, <1>3, GateAssumption DEF Told, RunsNumbered, FactsTrue, FactsThere

LEMMA NextTold ==
    ASSUME IInv, Told, ~Durable, [Next]_vars
    PROVE  Told'
<1>1. CASE AtRest \/ UNCHANGED vars
  BY <1>1 DEF AtRest, vars, Told, RunsNumbered, FactsTrue, FactsThere, Ended, Unended, Clean
<1>2. CASE \E c \in Callers : Call(c) \/ Step(c) \/ Interrupt(c)
  BY <1>2, QuietTold, CallTold, NoteStartTold, NoteEndTold, EffectEndsTold DEF Step
<1> QED
  BY <1>1, <1>2, RestartTold DEF Next

(* The history that runs() pairs of this process is true: no run is told to    *)
(* have ended that did not end so, and one whose facts could be written is     *)
(* told (RunResource.ts, noteStart and noteEnd; store/runResource.ts). A store *)
(* that outlives the process mixes the numbers of two lives, and is excluded.  *)
THEOREM SpecHistoryTold == ~Durable /\ Spec => []HistoryTold
<1> SUFFICES ASSUME ~Durable
             PROVE  Spec => []HistoryTold
  OBVIOUS
<1>1. Init => Told
  BY NewLifeTold, GateAssumption DEF Init
<1>2. ASSUME Told, IInv
      PROVE  HistoryTold
  <2>1. \A r \in Started : EndFacts(r) # {} => r \in DOMAIN ends
                              /\ EndFacts(r) = {<<r, EndFact(ends[r])>>}
    <3> SUFFICES ASSUME NEW r \in Started, EndFacts(r) # {}
                 PROVE  r \in DOMAIN ends /\ EndFacts(r) = {<<r, EndFact(ends[r])>>}
      OBVIOUS
    <3>1. r \in Nat
      BY GateAssumption DEF Started
    <3>2. \A id \in EndFacts(r) : r \in DOMAIN ends /\ id = <<r, EndFact(ends[r])>>
      <4> SUFFICES ASSUME NEW t \in {"completed", "failed"}, <<r, t>> \in DOMAIN facts
                   PROVE  r \in DOMAIN ends /\ t = EndFact(ends[r])
        BY DEF EndFacts
      <4> QED
        BY <1>2, <3>1 DEF Told, FactsTrue
    <3> QED
      BY <3>2
  <2>2. \A r \in Started : Outcome(r) # "in-flight" =>
           r \in DOMAIN ends /\ Outcome(r) = EndFact(ends[r])
    <3> SUFFICES ASSUME NEW r \in Started, EndFacts(r) # {}
                 PROVE  r \in DOMAIN ends /\ Outcome(r) = EndFact(ends[r])
      BY DEF Outcome
    <3>1. PICK id : EndFacts(r) = {id} /\ id = <<r, EndFact(ends[r])>>
      BY <2>1
    <3>2. facts[id] \in Nat
      BY <1>2, <3>1 DEF EndFacts, Told, FactsTrue
    <3>3. LastEnd(r) = id
      BY <3>1, <3>2 DEF LastEnd
    <3> QED
      BY <2>1, <3>1, <3>3 DEF Outcome
  <2>3. ASSUME cancels = MaxCancels, faults = MaxFaults, NEW r \in Finished
        PROVE  r \in Started /\ Outcome(r) = EndFact(ends[r])
    <3>1. r \in DOMAIN ends /\ ~\E c \in Callers : run[c] = r /\ Ended(c)
      BY DEF Finished, Ended
    <3>2. <<r, "started">> \in DOMAIN facts /\ <<r, EndFact(ends[r])>> \in DOMAIN facts
      BY <1>2, <2>3, <3>1 DEF Told, FactsThere, Clean
    <3>3. r \in 1..MaxRuns
      BY <1>2, <3>1, GateAssumption DEF Told, RunsNumbered, IInv, TypeOK
    <3>4. r \in Started
      BY <3>2, <3>3 DEF Started
    <3>5. <<r, EndFact(ends[r])>> \in EndFacts(r)
      BY <3>2 DEF EndFacts, EndFact
    <3>6. PICK id : EndFacts(r) = {id} /\ id = <<r, EndFact(ends[r])>>
      BY <2>1, <3>4, <3>5
    <3>7. facts[id] \in Nat
      BY <1>2, <3>6 DEF EndFacts, Told, FactsTrue
    <3>8. LastEnd(r) = id
      BY <3>6, <3>7 DEF LastEnd
    <3> QED
      BY <3>4, <3>6, <3>8 DEF Outcome
  <2> QED
    BY <2>2, <2>3 DEF HistoryTold
<1> QED
  BY <1>1, <1>2, InitIInv, NextIInv, NextTold, PTL DEF Spec
=============================================================================
