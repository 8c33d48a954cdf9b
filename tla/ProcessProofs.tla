---------------------------- MODULE ProcessProofs ----------------------------
(* A process: what its supervisor keeps to (the count of its instances, what a  *)
(* stop leaves, how often a key runs, which sleepers stay), then what its runs   *)
(* do (a reset of the cadence is heard, every run leaves its row).             *)
EXTENDS ProcessSupervisor, ProcessRuns, FiniteSetTheorems, FunctionTheorems,
        SequenceTheorems, TLAPS

----------------------------------------------------------------------------
(* The schedule. In a strict total order each index has a rank of its own,   *)
(* so every rank is some index's and the arranged sequence is one of windows. *)

LEMMA Indices ==
    ASSUME NEW T, NEW s \in Seq(T)
    PROVE  /\ DOMAIN s = 1 .. Len(s) /\ Len(s) \in Nat
           /\ IsFiniteSet(DOMAIN s) /\ Cardinality(DOMAIN s) = Len(s)
           /\ \A i \in DOMAIN s : i \in Nat /\ s[i] \in T
<1>1. DOMAIN s = 1 .. Len(s) /\ Len(s) \in Nat
  OBVIOUS
<1>2. IsFiniteSet(1 .. Len(s)) /\ Cardinality(1 .. Len(s)) = Len(s)
  BY <1>1, FS_Interval
<1> QED
  BY <1>1, <1>2

LEMMA ArrangedType ==
    ASSUME NEW T, NEW s \in Seq(T), NEW I, I \subseteq DOMAIN s, NEW R,
           \A i \in I : <<i, i>> \notin R,
           \A i, j, k \in I : <<i, j>> \in R /\ <<j, k>> \in R => <<i, k>> \in R,
           \A i, j \in I : i = j \/ <<i, j>> \in R \/ <<j, i>> \in R
    PROVE  /\ Arranged(s, I, R) \in Seq(T)
           /\ Len(Arranged(s, I, R)) = Cardinality(I) /\ Cardinality(I) <= Len(s)
<1> DEFINE Ahead(i) == {j \in I : <<j, i>> \in R}
           Rank(i) == Cardinality(Ahead(i))
           n == Cardinality(I)
           r == [i \in I |-> Rank(i)]
<1>1. IsFiniteSet(I) /\ n \in Nat /\ n <= Len(s)
  BY Indices, FS_Subset, FS_CardinalityType
<1>2. ASSUME NEW i \in I
      PROVE  IsFiniteSet(Ahead(i)) /\ Rank(i) \in 0 .. (n - 1)
  <2>1. IsFiniteSet(I \ {i}) /\ Cardinality(I \ {i}) = n - 1
    BY <1>1, FS_RemoveElement
  <2>2. Ahead(i) \in SUBSET (I \ {i})
    OBVIOUS
  <2> HIDE DEF Ahead
  <2>3. IsFiniteSet(Ahead(i)) /\ Cardinality(Ahead(i)) <= Cardinality(I \ {i})
    BY <2>1, <2>2, FS_Subset
  <2>4. Rank(i) \in Nat
    BY <2>3, FS_CardinalityType
  <2> QED
    BY <1>1, <2>1, <2>3, <2>4
<1>3. ASSUME NEW i \in I, NEW j \in I, <<i, j>> \in R
      PROVE  Rank(i) # Rank(j)
  <2>1. Ahead(i) \subseteq Ahead(j)
    BY <1>3
  <2>2. i \in Ahead(j) /\ i \notin Ahead(i)
    BY <1>3
  <2>3. IsFiniteSet(Ahead(j))
    BY <1>2
  <2> HIDE DEF Ahead
  <2> QED
    BY <2>1, <2>2, <2>3, FS_Subset
<1>4. r \in Injection(I, 0 .. (n - 1))
  <2>1. r \in [I -> 0 .. (n - 1)]
    BY <1>2
  <2>2. ASSUME NEW i \in I, NEW j \in I, r[i] = r[j]
        PROVE  i = j
    BY <1>3, <2>2
  <2> QED
    BY <2>1, <2>2, Fun_IsInj
<1>5. IsFiniteSet(0 .. (n - 1)) /\ Cardinality(0 .. (n - 1)) = n
  <2> HIDE DEF n
  <2>1. n - 1 \in Int /\ 0 \in Int
    BY <1>1
  <2>2. IsFiniteSet(0 .. (n - 1)) /\ Cardinality(0 .. (n - 1)) = IF 0 > n - 1 THEN 0 ELSE n - 1 - 0 + 1
    BY <2>1, FS_Interval
  <2> QED
    BY <1>1, <2>2
<1>6. r \in Surjection(I, 0 .. (n - 1))
  BY <1>4, <1>5, FS_Injection
<1>7. \A m \in 0 .. (n - 1) : \E i \in I : Rank(i) = m
  BY <1>6 DEF Surjection
<1>8. \A k \in 1 .. n : (CHOOSE i \in I : Rank(i) = k - 1) \in I
  <2>1. ASSUME NEW k \in 1 .. n
        PROVE  (CHOOSE i \in I : Rank(i) = k - 1) \in I
    <3>1. k - 1 \in 0 .. (n - 1)
      BY <1>1
    <3>2. \E i \in I : Rank(i) = k - 1
      BY <1>7, <3>1
    <3> QED
      BY <3>2
  <2> QED
    BY <2>1
<1>9. Arranged(s, I, R) = [k \in 1 .. n |-> s[CHOOSE i \in I : Rank(i) = k - 1]]
  BY DEF Arranged
<1> DEFINE picked(k) == CHOOSE i \in I : Rank(i) = k - 1
<1>a. \A k \in 1 .. n : picked(k) \in I
  BY <1>8
<1> HIDE DEF n, picked
<1>b. \A k \in 1 .. n : s[picked(k)] \in T
  BY <1>a, Indices
<1>c. Arranged(s, I, R) = [k \in 1 .. n |-> s[picked(k)]]
  BY <1>9 DEF picked
<1>10. Arranged(s, I, R) \in [1 .. n -> T]
  BY <1>b, <1>c
<1>11. Arranged(s, I, R) \in Seq(T) /\ Len(Arranged(s, I, R)) = n
  BY <1>1, <1>10
<1> QED
  BY <1>1, <1>11 DEF n

LEMMA NeverNumber == Never \in Nat /\ MaxTime \in Nat /\ MaxEntries \in Nat
BY ScheduleAssumption

LEMMA WindowFields ==
    ASSUME NEW w \in Window
    PROVE  w.start \in Int /\ w.stop \in Int
BY NeverNumber DEF Window

LEMMA SortType ==
    ASSUME NEW s \in Seq(Window)
    PROVE  SortEntries(s) \in Seq(Window) /\ Len(SortEntries(s)) = Len(s)
<1> DEFINE Sooner(i, j) == \/ Before(s[i], s[j])
                           \/ ~Before(s[j], s[i]) /\ i < j
           R == {p \in (DOMAIN s) \X (DOMAIN s) : Sooner(p[1], p[2])}
<1>1. \A i \in DOMAIN s : i \in Nat /\ s[i].start \in Int /\ s[i].stop \in Int
  BY Indices, WindowFields
<1>2. \A i, j \in DOMAIN s : <<i, j>> \in R <=> Sooner(i, j)
  OBVIOUS
<1> HIDE DEF R
<1>3. \A i \in DOMAIN s : <<i, i>> \notin R
  BY <1>1, <1>2 DEF Before
<1>4. \A i, j \in DOMAIN s : i = j \/ <<i, j>> \in R \/ <<j, i>> \in R
  <2> SUFFICES ASSUME NEW i \in DOMAIN s, NEW j \in DOMAIN s, i # j
               PROVE  Sooner(i, j) \/ Sooner(j, i)
    BY <1>2
  <2>1. i < j \/ j < i
    BY <1>1
  <2> QED
    BY <1>1, <2>1 DEF Before
<1>5. \A i, j, k \in DOMAIN s : Sooner(i, j) /\ Sooner(j, k) => Sooner(i, k)
  <2> SUFFICES ASSUME NEW i \in DOMAIN s, NEW j \in DOMAIN s, NEW k \in DOMAIN s,
                      Sooner(i, j), Sooner(j, k)
               PROVE  Sooner(i, k)
    OBVIOUS
  <2> QED
    BY <1>1 DEF Before
<1> HIDE DEF Sooner
<1>6. \A i, j, k \in DOMAIN s : <<i, j>> \in R /\ <<j, k>> \in R => <<i, k>> \in R
  BY <1>2, <1>5
<1>7. SortEntries(s) = Arranged(s, DOMAIN s, R)
  BY DEF SortEntries, R, Sooner
<1>8. Arranged(s, DOMAIN s, R) \in Seq(Window)
      /\ Len(Arranged(s, DOMAIN s, R)) = Cardinality(DOMAIN s)
  BY <1>3, <1>4, <1>6, ArrangedType
<1> QED
  BY <1>7, <1>8, Indices

LEMMA WithoutType ==
    ASSUME entries \in Seq(Window), NEW S
    PROVE  Without(S) \in Seq(Window)
<1> DEFINE kept == {i \in DOMAIN entries : entries[i].id \notin S}
           R == {p \in kept \X kept : p[1] < p[2]}
<1>1. \A i \in kept : i \in Nat
  BY Indices
<1>2. kept \subseteq DOMAIN entries
  OBVIOUS
<1>3. \A i, j \in kept : <<i, j>> \in R <=> i < j
  OBVIOUS
<1>4. Without(S) = Arranged(entries, kept, R)
  BY DEF Without
<1> HIDE DEF kept, R
<1>5. /\ \A i \in kept : <<i, i>> \notin R
      /\ \A i, j, k \in kept : <<i, j>> \in R /\ <<j, k>> \in R => <<i, k>> \in R
      /\ \A i, j \in kept : i = j \/ <<i, j>> \in R \/ <<j, i>> \in R
  BY <1>1, <1>3
<1>6. Arranged(entries, kept, R) \in Seq(Window)
  BY <1>2, <1>5, ArrangedType
<1> QED
  BY <1>4, <1>6

LEMMA MutationsType ==
    ASSUME entries \in Seq(Window)
    PROVE  Mutations \subseteq Seq(Window)
<1>1. Plans \subseteq Seq(Window) /\ Additions \subseteq Window
  BY ScheduleAssumption
<1>2. \A w \in Additions : Append(entries, w) \in Seq(Window)
  BY <1>1
<1>3. \A w \in Additions : Append(Without({w.id}), w) \in Seq(Window)
  <2>1. \A w \in Additions : Without({w.id}) \in Seq(Window)
    BY WithoutType
  <2> QED
    BY <1>1, <2>1
<1>4. \A S : Without(S) \in Seq(Window)
  BY WithoutType
<1>5. <<>> \in Seq(Window)
  OBVIOUS
<1> QED
  BY <1>1, <1>2, <1>3, <1>4, <1>5 DEF Mutations


----------------------------------------------------------------------------
(* Types.                                                                    *)

Schedules == {s \in Seq(Window) : Len(s) <= MaxEntries}
DriverSteps == {"read", "sweep", "swept", "each", "wait", "ending", "dead"}
SleeperSteps == {"forked", "sleep", "ending", "dead"}
InstanceSteps == {"forked", "check", "tick", "running", "over", "ending", "dead"}
Ordinals == Nat \ {0}
FiberRec ==
    [kind : {"driver", "sleeper", "instance"}, parent : Nat, key : Keys,
     pc : DriverSteps \cup SleeperSteps \cup InstanceSteps, intr : BOOLEAN,
     snap : Schedules, idx : Ordinals, at : Nat,
     stale : SUBSET Nat, other : Nat, watch : Nat]
CallRec == [pc : {"idle", "fork", "ending", "write", "notify"}, next : Schedules, target : Nat]

TypeOK ==
    /\ entries \in Schedules
    /\ signal \in Nat /\ fired \subseteq Nat /\ now \in Nat /\ polling \in BOOLEAN
    /\ fiber \in Seq(FiberRec)
    /\ pendingStarts \in [Keys -> Nat] /\ runningByEntry \in [Keys -> Nat]
    /\ completedEntries \subseteq Keys
    /\ activeInstances \in Nat /\ aborted \in Nat /\ fiberRef \in Nat
    /\ begun \in [Keys -> Nat]
    /\ call \in [Clients -> CallRec]

LEMMA OrdinalsGo == 1 \in Ordinals /\ \A n \in Ordinals : n + 1 \in Ordinals /\ n \in Nat /\ n > 0
BY DEF Ordinals

LEMMA SomeKeyType == SomeKey \in Keys
BY NeverNumber, ScheduleAssumption DEF SomeKey, Keys

LEMMA KeyAtType ==
    ASSUME NEW s \in Schedules, NEW i \in DOMAIN s
    PROVE  KeyAt(s, i) \in Keys /\ KeyAt(s, i) \in KeysIn(s) /\ KeysIn(s) \subseteq Keys
<1>1. s \in Seq(Window) /\ Len(s) <= MaxEntries
  BY DEF Schedules
<1>2. \A j \in DOMAIN s : s[j].start \in 0 .. Never /\ s[j].stop \in 0 .. Never /\ j \in 1 .. MaxEntries
  <2> SUFFICES ASSUME NEW j \in DOMAIN s
               PROVE  s[j].start \in 0 .. Never /\ s[j].stop \in 0 .. Never /\ j \in 1 .. MaxEntries
    OBVIOUS
  <2>1. s[j] \in Window /\ j \in 1 .. Len(s) /\ Len(s) \in Nat
    BY <1>1, Indices
  <2>2. j \in 1 .. MaxEntries
    BY <1>1, <2>1, NeverNumber
  <2> QED
    BY <2>1, <2>2 DEF Window
<1>3. \A j \in DOMAIN s : KeyAt(s, j) \in Keys
  BY <1>2 DEF KeyAt, Keys
<1> QED
  BY <1>3 DEF KeysIn

(* Fibers one by one.                                                        *)
LEMMA FibersType ==
    ASSUME fiber \in Seq(FiberRec)
    PROVE  /\ FiberIds = 1 .. Len(fiber) /\ Len(fiber) \in Nat
           /\ \A f \in FiberIds : f \in Nat /\ f > 0 /\ f <= Len(fiber) /\ fiber[f] \in FiberRec
BY DEF FiberIds

(* One fiber goes on.                                                        *)
LEMMA OneChanges ==
    ASSUME fiber \in Seq(FiberRec), NEW d \in FiberIds, NEW r \in FiberRec,
           fiber' = [fiber EXCEPT ![d] = r]
    PROVE  /\ fiber' \in Seq(FiberRec) /\ Len(fiber') = Len(fiber)
           /\ FiberIds' = FiberIds
           /\ fiber'[d] = r /\ \A g \in FiberIds \ {d} : fiber'[g] = fiber[g]
<1>1. fiber' \in Seq(FiberRec) /\ Len(fiber') = Len(fiber) /\ DOMAIN fiber' = DOMAIN fiber
  BY FibersType DEF FiberIds
<1> QED
  BY <1>1 DEF FiberIds

LEMMA OneMore ==
    ASSUME NEW b \in Seq(FiberRec), NEW r \in FiberRec, fiber' = Append(b, r)
    PROVE  /\ fiber' \in Seq(FiberRec) /\ Len(fiber') = Len(b) + 1
           /\ FiberIds' = (DOMAIN b) \cup {Len(b) + 1} /\ (Len(b) + 1) \notin DOMAIN b
           /\ fiber'[Len(b) + 1] = r /\ \A g \in DOMAIN b : fiber'[g] = b[g]
BY DEF FiberIds

LEMMA NewFiberType ==
    ASSUME NEW k \in Keys, NEW p \in Nat, NEW kind \in {"driver", "sleeper", "instance"}
    PROVE  NewFiber(kind, p, k) \in FiberRec
<1>1. <<>> \in Schedules
  BY NeverNumber DEF Schedules
<1> QED
  BY <1>1, OrdinalsGo DEF NewFiber, FiberRec, DriverSteps, SleeperSteps, InstanceSteps

----------------------------------------------------------------------------
(* What each step does to the fibers.                                        *)

(* d goes on; it is no other fiber's business.                               *)
Moved(d) ==
    /\ fiber' \in Seq(FiberRec) /\ Len(fiber') = Len(fiber) /\ FiberIds' = FiberIds
    /\ \A g \in FiberIds \ {d} : fiber'[g] = fiber[g]
    /\ fiber'[d].kind = fiber[d].kind /\ fiber'[d].parent = fiber[d].parent
    /\ fiber'[d].key = fiber[d].key /\ fiber'[d].intr = fiber[d].intr

LEMMA MovesBy ==
    ASSUME fiber \in Seq(FiberRec), NEW d \in FiberIds, NEW r \in FiberRec,
           fiber' = [fiber EXCEPT ![d] = r],
           r.kind = fiber[d].kind, r.parent = fiber[d].parent,
           r.key = fiber[d].key, r.intr = fiber[d].intr
    PROVE  Moved(d) /\ fiber'[d] = r
BY OneChanges DEF Moved

LEMMA BeginMoves ==
    ASSUME TypeOK, NEW f \in FiberIds, Begin(f)
    PROVE  /\ Moved(f) /\ fiber[f].pc = "forked" /\ ~fiber[f].intr
           /\ fiber'[f].pc = IF fiber[f].kind = "sleeper" THEN "sleep" ELSE "check"
<1>1. fiber \in Seq(FiberRec) /\ fiber[f] \in FiberRec
  BY FibersType DEF TypeOK
<1> DEFINE to == IF fiber[f].kind = "sleeper" THEN "sleep" ELSE "check"
<1>2. PICK r : r = [fiber[f] EXCEPT !.pc = to]
  OBVIOUS
<1>3. r \in FiberRec
  BY <1>1, <1>2 DEF FiberRec, SleeperSteps, InstanceSteps
<1>4. fiber' = [fiber EXCEPT ![f] = r]
  BY <1>1, <1>2 DEF Begin, GoTo
<1>5. r.kind = fiber[f].kind /\ r.parent = fiber[f].parent
      /\ r.key = fiber[f].key /\ r.intr = fiber[f].intr /\ r.pc = to
  BY <1>1, <1>2 DEF FiberRec
<1>6. Moved(f) /\ fiber'[f] = r
  BY <1>1, <1>3, <1>4, <1>5, MovesBy
<1> QED
  BY <1>5, <1>6 DEF Begin, At

LEMMA PruneMoves ==
    ASSUME TypeOK, NEW d \in FiberIds, PruneKeys(d)
    PROVE  /\ Moved(d) /\ fiber[d].pc = "read" /\ fiber'[d].pc = "sweep"
           /\ fiber'[d].snap = entries
           /\ fiber'[d].stale = {pendingStarts[k] : k \in Keys \ KeysIn(entries)} \ {0}
<1>1. fiber \in Seq(FiberRec) /\ fiber[d] \in FiberRec
  BY FibersType DEF TypeOK
<1>2. PICK S : S = {pendingStarts[k] : k \in Keys \ KeysIn(entries)} \ {0}
  OBVIOUS
<1>3. S \subseteq Nat /\ entries \in Schedules
  BY <1>2 DEF TypeOK
<1>4. PICK r : r = [fiber[d] EXCEPT !.pc = "sweep", !.snap = entries, !.stale = S]
  OBVIOUS
<1>5. r \in FiberRec
  BY <1>1, <1>3, <1>4 DEF FiberRec, DriverSteps
<1>6. fiber' = [fiber EXCEPT ![d] = r]
  BY <1>1, <1>2, <1>4 DEF PruneKeys
<1>7. r.kind = fiber[d].kind /\ r.parent = fiber[d].parent /\ r.key = fiber[d].key
      /\ r.intr = fiber[d].intr /\ r.pc = "sweep" /\ r.snap = entries /\ r.stale = S
  BY <1>1, <1>4 DEF FiberRec
<1>8. Moved(d) /\ fiber'[d] = r
  BY <1>1, <1>5, <1>6, <1>7, MovesBy
<1> QED
  BY <1>2, <1>7, <1>8 DEF PruneKeys, At

LEMMA ClockMoves ==
    ASSUME TypeOK, NEW d \in FiberIds, ReadClock(d)
    PROVE  /\ Moved(d) /\ fiber[d].pc = "sweep" /\ fiber[d].stale = {} /\ fiber'[d].pc = "each"
           /\ fiber'[d].snap = fiber[d].snap
<1>1. fiber \in Seq(FiberRec) /\ fiber[d] \in FiberRec /\ now \in Nat
  BY FibersType DEF TypeOK
<1>4. PICK r : r = [fiber[d] EXCEPT !.pc = "each", !.at = now, !.idx = 1]
  OBVIOUS
<1>5. r \in FiberRec
  BY <1>1, <1>4, OrdinalsGo DEF FiberRec, DriverSteps
<1>6. fiber' = [fiber EXCEPT ![d] = r]
  BY <1>1, <1>4 DEF ReadClock
<1>7. r.kind = fiber[d].kind /\ r.parent = fiber[d].parent /\ r.key = fiber[d].key
      /\ r.intr = fiber[d].intr /\ r.pc = "each" /\ r.snap = fiber[d].snap
  BY <1>1, <1>4 DEF FiberRec
<1>8. Moved(d) /\ fiber'[d] = r
  BY <1>1, <1>5, <1>6, <1>7, MovesBy
<1> QED
  BY <1>7, <1>8 DEF ReadClock, At

LEMMA AwaitMoves ==
    ASSUME TypeOK, NEW d \in FiberIds, AwaitChange(d)
    PROVE  /\ Moved(d) /\ fiber'[d].snap = fiber[d].snap
           /\ \/ fiber[d].pc = "each" /\ fiber'[d].pc = "wait"
              \/ fiber[d].pc = "wait" /\ fiber'[d].pc = "read"
<1>1. fiber \in Seq(FiberRec) /\ fiber[d] \in FiberRec /\ signal \in Nat
  BY FibersType DEF TypeOK
<1>2. CASE At(d, "each")
  <2>4. PICK r : r = [fiber[d] EXCEPT !.pc = "wait", !.watch = signal, !.at = 0, !.idx = 1]
    OBVIOUS
  <2>5. r \in FiberRec
    BY <1>1, <2>4, OrdinalsGo DEF FiberRec, DriverSteps
  <2>6. fiber' = [fiber EXCEPT ![d] = r]
    BY <1>1, <1>2, <2>4 DEF AwaitChange, At
  <2>7. r.kind = fiber[d].kind /\ r.parent = fiber[d].parent /\ r.key = fiber[d].key
        /\ r.intr = fiber[d].intr /\ r.pc = "wait" /\ r.snap = fiber[d].snap
    BY <1>1, <2>4 DEF FiberRec
  <2>8. Moved(d) /\ fiber'[d] = r
    BY <1>1, <2>5, <2>6, <2>7, MovesBy
  <2> QED
    BY <1>2, <2>7, <2>8 DEF At
<1>3. CASE ~At(d, "each")
  <2>4. PICK r : r = [fiber[d] EXCEPT !.pc = "read", !.watch = 0]
    OBVIOUS
  <2>5. r \in FiberRec
    BY <1>1, <2>4 DEF FiberRec, DriverSteps
  <2>6. fiber' = [fiber EXCEPT ![d] = r] /\ fiber[d].pc = "wait"
    BY <1>1, <1>3, <2>4 DEF AwaitChange, At
  <2>7. r.kind = fiber[d].kind /\ r.parent = fiber[d].parent /\ r.key = fiber[d].key
        /\ r.intr = fiber[d].intr /\ r.pc = "read" /\ r.snap = fiber[d].snap
    BY <1>1, <2>4 DEF FiberRec
  <2>8. Moved(d) /\ fiber'[d] = r
    BY <1>1, <2>5, <2>6, <2>7, MovesBy
  <2> QED
    BY <2>6, <2>7, <2>8
<1> QED
  BY <1>2, <1>3

(* The steps of an instance.                                                 *)
InstanceStep(i) == AwaitNextTick(i) \/ FindsClosed(i) \/ BeginRun(i) \/ EndRun(i)
LEMMA InstanceMoves ==
    ASSUME TypeOK, NEW i \in FiberIds, InstanceStep(i)
    PROVE  /\ Moved(i) /\ ~fiber[i].intr
           /\ \/ fiber[i].pc = "check" /\ fiber'[i].pc = "tick" /\ polling
              \/ fiber[i].pc \in {"check", "tick"} /\ fiber'[i].pc \in {"over", "running"}
              \/ fiber[i].pc = "running" /\ fiber'[i].pc = (IF polling THEN "check" ELSE "over")
<1>1. fiber \in Seq(FiberRec) /\ fiber[i] \in FiberRec
  BY FibersType DEF TypeOK
<1>2. PICK to \in InstanceSteps :
        /\ fiber' = [fiber EXCEPT ![i].pc = to]
        /\ ~fiber[i].intr
        /\ \/ fiber[i].pc = "check" /\ to = "tick" /\ polling
           \/ fiber[i].pc \in {"check", "tick"} /\ to \in {"over", "running"}
           \/ fiber[i].pc = "running" /\ to = (IF polling THEN "check" ELSE "over")
  <2>1. CASE AwaitNextTick(i)
    BY <2>1 DEF AwaitNextTick, GoTo, At, InstanceSteps
  <2>2. CASE FindsClosed(i)
    BY <2>2 DEF FindsClosed, GoTo, At, InstanceSteps
  <2>3. CASE BeginRun(i)
    BY <2>3 DEF BeginRun, GoTo, At, InstanceSteps
  <2>4. CASE EndRun(i)
    BY <2>4 DEF EndRun, GoTo, At, InstanceSteps
  <2> QED
    BY <2>1, <2>2, <2>3, <2>4 DEF InstanceStep
<1>3. PICK r : r = [fiber[i] EXCEPT !.pc = to]
  OBVIOUS
<1>4. r \in FiberRec
  BY <1>1, <1>2, <1>3 DEF FiberRec
<1>5. fiber' = [fiber EXCEPT ![i] = r]
  BY <1>1, <1>2, <1>3
<1>6. r.kind = fiber[i].kind /\ r.parent = fiber[i].parent
      /\ r.key = fiber[i].key /\ r.intr = fiber[i].intr /\ r.pc = to
  BY <1>1, <1>3 DEF FiberRec
<1>7. Moved(i) /\ fiber'[i] = r
  BY <1>1, <1>4, <1>5, <1>6, MovesBy
<1> QED
  BY <1>2, <1>6, <1>7

(* An interrupt: it is told, and does nothing about it yet.                  *)
Told(g) ==
    /\ fiber'[g].kind = fiber[g].kind /\ fiber'[g].parent = fiber[g].parent
    /\ fiber'[g].key = fiber[g].key /\ fiber'[g].pc = fiber[g].pc
    /\ fiber'[g].snap = fiber[g].snap /\ fiber'[g].stale = fiber[g].stale
    /\ Live(g) /\ fiber[g].intr => fiber'[g].intr
SameFibers == fiber' \in Seq(FiberRec) /\ Len(fiber') = Len(fiber) /\ FiberIds' = FiberIds

LEMMA UnchangedFibers ==
    ASSUME fiber \in Seq(FiberRec), fiber' = fiber
    PROVE  SameFibers /\ \A g \in FiberIds : Told(g)
BY DEF SameFibers, Told, FiberIds

LEMMA StopTells ==
    ASSUME TypeOK, NEW c \in Clients, CallStop(c)
    PROVE  SameFibers /\ \A g \in FiberIds : Told(g)
<1>1. fiber \in Seq(FiberRec) /\ \A g \in FiberIds : fiber[g] \in FiberRec
  BY FibersType DEF TypeOK
<1>2. CASE fiber' = fiber
  BY <1>1, <1>2, UnchangedFibers
<1>3. CASE fiber' = [fiber EXCEPT ![fiberRef].intr = Live(fiberRef)]
  <2>1. CASE fiberRef \in FiberIds
    <3>1. PICK r : r = [fiber[fiberRef] EXCEPT !.intr = Live(fiberRef)]
      OBVIOUS
    <3>2. r \in FiberRec /\ r.intr = Live(fiberRef)
          /\ r.kind = fiber[fiberRef].kind /\ r.parent = fiber[fiberRef].parent
          /\ r.key = fiber[fiberRef].key /\ r.pc = fiber[fiberRef].pc
          /\ r.snap = fiber[fiberRef].snap /\ r.stale = fiber[fiberRef].stale
      BY <1>1, <2>1, <3>1 DEF FiberRec, Live
    <3>3. fiber' = [fiber EXCEPT ![fiberRef] = r]
      BY <1>1, <1>3, <2>1, <3>1
    <3>4. /\ fiber' \in Seq(FiberRec) /\ Len(fiber') = Len(fiber) /\ FiberIds' = FiberIds
          /\ fiber'[fiberRef] = r /\ \A g \in FiberIds \ {fiberRef} : fiber'[g] = fiber[g]
      BY <1>1, <2>1, <3>2, <3>3, OneChanges
    <3>5. \A g \in FiberIds : Told(g)
      BY <3>2, <3>4 DEF Told
    <3> QED
      BY <3>4, <3>5 DEF SameFibers
  <2>2. CASE fiberRef \notin FiberIds
    <3>1. fiber' = fiber
      BY <1>1, <1>3, <2>2 DEF FiberIds
    <3> QED
      BY <1>1, <3>1, UnchangedFibers
  <2> QED
    BY <2>1, <2>2
<1> QED
  BY <1>2, <1>3 DEF CallStop

LEMMA SweepTells ==
    ASSUME TypeOK, NEW d \in FiberIds, InterruptStale(d)
    PROVE  /\ SameFibers /\ \A g \in FiberIds \ {d} : Told(g)
           /\ fiber'[d].kind = fiber[d].kind /\ fiber'[d].parent = fiber[d].parent
           /\ fiber'[d].key = fiber[d].key /\ fiber'[d].snap = fiber[d].snap
           /\ Live(d) /\ fiber[d].intr => fiber'[d].intr
           /\ \/ /\ fiber[d].pc = "sweep" /\ fiber'[d].pc = "swept"
                 /\ fiber'[d].stale = fiber[d].stale
              \/ /\ fiber[d].pc = "swept" /\ fiber'[d].pc = "sweep"
                 /\ fiber'[d].stale = fiber[d].stale \ {fiber[d].other}
                 /\ ~Live(fiber[d].other)
<1>1. fiber \in Seq(FiberRec) /\ \A g \in FiberIds : fiber[g] \in FiberRec
  BY FibersType DEF TypeOK
<1>2. CASE At(d, "sweep")
  <2>1. PICK s \in fiber[d].stale :
          fiber' = [fiber EXCEPT ![d].pc = "swept", ![d].other = s, ![s].intr = Live(s)]
    BY <1>2 DEF InterruptStale, SweepStale, At
  <2>2. PICK q : q = [fiber[d] EXCEPT !.pc = "swept", !.other = s]
    OBVIOUS
  <2>3. q \in FiberRec /\ q.pc = "swept" /\ q.kind = fiber[d].kind /\ q.parent = fiber[d].parent
        /\ q.key = fiber[d].key /\ q.snap = fiber[d].snap /\ q.stale = fiber[d].stale
        /\ q.intr = fiber[d].intr
    BY <1>1, <2>1, <2>2 DEF FiberRec, DriverSteps
  <2>4. PICK b : b = [fiber EXCEPT ![d] = q]
    OBVIOUS
  <2>5. b \in Seq(FiberRec) /\ Len(b) = Len(fiber) /\ DOMAIN b = FiberIds
        /\ b[d] = q /\ \A g \in FiberIds \ {d} : b[g] = fiber[g]
    BY <1>1, <2>3, <2>4 DEF FiberIds
  <2>6. fiber' = [b EXCEPT ![s].intr = Live(s)]
    BY <1>1, <2>1, <2>2, <2>4
  <2>7. CASE s \in FiberIds
    <3>1. PICK r : r = [b[s] EXCEPT !.intr = Live(s)]
      OBVIOUS
    <3>a. b[s] \in FiberRec /\ Live(s) \in BOOLEAN
      BY <2>5, <2>7 DEF Live
    <3>2. r \in FiberRec /\ r.intr = Live(s) /\ r.kind = b[s].kind /\ r.parent = b[s].parent
          /\ r.key = b[s].key /\ r.pc = b[s].pc /\ r.snap = b[s].snap /\ r.stale = b[s].stale
      BY <3>1, <3>a DEF FiberRec
    <3>3. fiber' = [b EXCEPT ![s] = r]
      BY <2>5, <2>6, <2>7, <3>1
    <3>4. fiber' \in Seq(FiberRec) /\ Len(fiber') = Len(fiber) /\ FiberIds' = FiberIds
          /\ fiber'[s] = r /\ \A g \in FiberIds \ {s} : fiber'[g] = b[g]
      BY <2>5, <2>7, <3>2, <3>3 DEF FiberIds
    <3>5. \A g \in FiberIds \ {d} : Told(g)
      BY <2>5, <3>2, <3>4 DEF Told
    <3>6. fiber'[d].kind = q.kind /\ fiber'[d].parent = q.parent /\ fiber'[d].key = q.key
          /\ fiber'[d].pc = q.pc /\ fiber'[d].snap = q.snap /\ fiber'[d].stale = q.stale
          /\ (q.intr => fiber'[d].intr \/ s = d)
      BY <2>5, <3>2, <3>4
    <3>7. s = d => fiber'[d].intr
      BY <1>2, <3>2, <3>4 DEF At, Live
    <3> QED
      BY <1>2, <2>3, <3>4, <3>5, <3>6, <3>7 DEF SameFibers, At
  <2>8. CASE s \notin FiberIds
    <3>1. fiber' = b
      BY <2>5, <2>6, <2>8
    <3>2. \A g \in FiberIds \ {d} : Told(g)
      BY <2>5, <3>1 DEF Told
    <3> QED
      BY <1>2, <2>3, <2>5, <3>1, <3>2 DEF SameFibers, At, FiberIds
  <2> QED
    BY <2>7, <2>8
<1>3. CASE ~At(d, "sweep")
  <2>1. /\ At(d, "swept") /\ ~Live(fiber[d].other)
        /\ fiber' = [fiber EXCEPT ![d].pc = "sweep", ![d].other = 0,
                                  ![d].stale = @ \ {fiber[d].other}]
    BY <1>3 DEF InterruptStale, SweepStale
  <2>2. PICK r : r = [fiber[d] EXCEPT !.pc = "sweep", !.other = 0,
                                      !.stale = fiber[d].stale \ {fiber[d].other}]
    OBVIOUS
  <2>3. r \in FiberRec /\ r.pc = "sweep" /\ r.kind = fiber[d].kind /\ r.parent = fiber[d].parent
        /\ r.key = fiber[d].key /\ r.snap = fiber[d].snap /\ r.intr = fiber[d].intr
        /\ r.stale = fiber[d].stale \ {fiber[d].other}
    BY <1>1, <2>2 DEF FiberRec, DriverSteps
  <2>4. fiber' = [fiber EXCEPT ![d] = r]
    BY <1>1, <2>1, <2>2
  <2>5. Moved(d) /\ fiber'[d] = r
    BY <1>1, <2>3, <2>4, MovesBy
  <2>6. \A g \in FiberIds \ {d} : Told(g)
    BY <2>5 DEF Moved, Told
  <2> QED
    BY <2>1, <2>3, <2>5, <2>6 DEF SameFibers, Moved, At
<1> QED
  BY <1>2, <1>3

(* A fiber ends, or waits for its children.                                  *)
Gone(f) == fiber'[f].kind = fiber[f].kind /\ fiber'[f].pc = "dead" /\ fiber'[f].parent = 0
Waits(f) ==
    /\ fiber'[f].kind = fiber[f].kind /\ fiber'[f].pc = "ending"
    /\ fiber'[f].parent = fiber[f].parent /\ fiber'[f].key = fiber[f].key

LEMMA DeadType ==
    ASSUME TypeOK, NEW f \in FiberIds
    PROVE  Dead(f) \in FiberRec /\ Dead(f).kind = fiber[f].kind /\ Dead(f).pc = "dead"
           /\ Dead(f).parent = 0
<1>1. fiber[f].kind \in {"driver", "sleeper", "instance"} /\ fiber[f] \in FiberRec
  BY FibersType DEF TypeOK, FiberRec
<1>2. PICK r : r = NewFiber(fiber[f].kind, 0, SomeKey)
  OBVIOUS
<1>3. r \in FiberRec
  BY <1>1, <1>2, NewFiberType, SomeKeyType
<1>4. r.kind = fiber[f].kind /\ r.parent = 0
  BY <1>2 DEF NewFiber
<1>5. Dead(f) = [r EXCEPT !.pc = "dead"]
  BY <1>2 DEF Dead
<1> QED
  BY <1>3, <1>4, <1>5 DEF FiberRec, DriverSteps

LEMMA ExitTells ==
    ASSUME TypeOK, NEW f \in FiberIds, Exit(f)
    PROVE  /\ SameFibers /\ \A g \in FiberIds \ {f} : Told(g)
           /\ \A g \in Children(f) \ {f} : fiber'[g].intr
           /\ fiber[f].pc \notin {"ending", "dead"}
           /\ \/ Children(f) = {} /\ Gone(f)
              \/ Children(f) # {} /\ Waits(f)
<1>1. fiber \in Seq(FiberRec) /\ \A g \in FiberIds : fiber[g] \in FiberRec
      /\ FiberIds = 1 .. Len(fiber) /\ Len(fiber) \in Nat
  BY FibersType DEF TypeOK
<1>2. fiber' = [g \in FiberIds |->
                  IF g = f THEN Ended(f)
                  ELSE IF g \in Children(f) THEN [fiber[g] EXCEPT !.intr = TRUE]
                  ELSE fiber[g]]
  BY DEF Exit, InterruptChildren
<1>3. PICK e : e = Ended(f)
  OBVIOUS
<1>4. e \in FiberRec /\ e.kind = fiber[f].kind
      /\ (Children(f) = {} => e.pc = "dead" /\ e.parent = 0)
      /\ (Children(f) # {} => e.pc = "ending" /\ e.parent = fiber[f].parent /\ e.key = fiber[f].key)
  <2>1. CASE Children(f) = {}
    BY <1>3, <2>1, DeadType DEF Ended
  <2>2. CASE Children(f) # {}
    <3>1. e = [fiber[f] EXCEPT !.pc = "ending"]
      BY <1>3, <2>2 DEF Ended
    <3> QED
      BY <1>1, <2>2, <3>1 DEF FiberRec, DriverSteps
  <2> QED
    BY <2>1, <2>2
<1>5. fiber'[f] = e
  BY <1>2, <1>3
<1>6. \A g \in FiberIds \ {f} :
        fiber'[g] = IF g \in Children(f) THEN [fiber[g] EXCEPT !.intr = TRUE] ELSE fiber[g]
  BY <1>2
<1>7. \A g \in FiberIds : fiber'[g] \in FiberRec
  <2>1. \A g \in FiberIds : [fiber[g] EXCEPT !.intr = TRUE] \in FiberRec
    BY <1>1 DEF FiberRec
  <2> QED
    BY <1>1, <1>4, <1>5, <1>6, <2>1
<1>8. fiber' \in Seq(FiberRec) /\ DOMAIN fiber' = 1 .. Len(fiber)
  <2>1. fiber' \in [1 .. Len(fiber) -> FiberRec]
    BY <1>1, <1>2, <1>7
  <2> QED
    BY <1>1, <2>1
<1>9. SameFibers
  BY <1>1, <1>8 DEF SameFibers, FiberIds
<1>10. \A g \in FiberIds \ {f} : Told(g)
  BY <1>1, <1>6 DEF Told, FiberRec
<1>11. \A g \in Children(f) \ {f} : fiber'[g].intr
  BY <1>1, <1>6 DEF Children, FiberRec
<1> QED
  BY <1>4, <1>5, <1>9, <1>10, <1>11 DEF Exit, Gone, Waits

LEMMA DieTells ==
    ASSUME TypeOK, NEW f \in FiberIds, Die(f)
    PROVE  /\ SameFibers /\ \A g \in FiberIds \ {f} : Told(g)
           /\ fiber[f].pc = "ending" /\ Children(f) = {} /\ Gone(f)
<1>1. fiber \in Seq(FiberRec)
  BY DEF TypeOK
<1>2. fiber' = [fiber EXCEPT ![f] = Dead(f)]
  BY DEF Die
<1>3. Dead(f) \in FiberRec /\ Dead(f).kind = fiber[f].kind /\ Dead(f).pc = "dead"
      /\ Dead(f).parent = 0
  BY DeadType
<1>4. PICK r \in FiberRec : r = Dead(f)
  BY <1>3
<1>5. SameFibers /\ fiber'[f] = r /\ \A g \in FiberIds \ {f} : fiber'[g] = fiber[g]
  BY <1>1, <1>2, <1>4, OneChanges DEF SameFibers
<1> QED
  BY <1>3, <1>4, <1>5 DEF Die, Told, Gone

----------------------------------------------------------------------------
(* Forks: fiber n is new, a child of f (0: of nobody) with key k.              *)
Forks(n, f, kind, k, i) ==
    /\ fiber' \in Seq(FiberRec) /\ n = Len(fiber) + 1
    /\ FiberIds' = FiberIds \cup {n} /\ n \notin FiberIds
    /\ fiber'[n].kind = kind /\ fiber'[n].parent = f /\ fiber'[n].key = k
    /\ fiber'[n].pc = (IF kind = "driver" THEN "read" ELSE "forked")
    /\ fiber'[n].intr = i

LEMMA ForkOne ==
    ASSUME TypeOK, NEW b \in Seq(FiberRec), Len(b) = Len(fiber),
           NEW f \in Nat, NEW k \in Keys, NEW kind \in {"driver", "sleeper", "instance"},
           NEW i \in BOOLEAN, NEW r, r = [NewFiber(kind, f, k) EXCEPT !.intr = i],
           fiber' = Append(b, r)
    PROVE  /\ Forks(Len(fiber) + 1, f, kind, k, i) /\ Len(fiber') = Len(fiber) + 1
           /\ \A g \in FiberIds : fiber'[g] = b[g]
<1>1. PICK q : q = NewFiber(kind, f, k)
  OBVIOUS
<1>2. q \in FiberRec /\ q.kind = kind /\ q.parent = f /\ q.key = k
      /\ q.pc = (IF kind = "driver" THEN "read" ELSE "forked")
  BY <1>1, NewFiberType DEF NewFiber
<1>3. r = [q EXCEPT !.intr = i]
  BY <1>1
<1>4. r \in FiberRec /\ r.kind = kind /\ r.parent = f /\ r.key = k /\ r.pc = q.pc /\ r.intr = i
  BY <1>2, <1>3 DEF FiberRec
<1>5. fiber \in Seq(FiberRec) /\ DOMAIN b = FiberIds
  BY DEF TypeOK, FiberIds
<1>6. /\ fiber' \in Seq(FiberRec) /\ Len(fiber') = Len(b) + 1
      /\ FiberIds' = (DOMAIN b) \cup {Len(b) + 1} /\ (Len(b) + 1) \notin DOMAIN b
      /\ fiber'[Len(b) + 1] = r /\ \A g \in DOMAIN b : fiber'[g] = b[g]
  BY <1>4, OneMore
<1> QED
  BY <1>2, <1>4, <1>5, <1>6 DEF Forks

LEMMA NewFiberQuiet ==
    ASSUME NEW k \in Keys, NEW p \in Nat, NEW kind \in {"driver", "sleeper", "instance"}
    PROVE  NewFiber(kind, p, k) = [NewFiber(kind, p, k) EXCEPT !.intr = FALSE]
<1>1. PICK r : r = NewFiber(kind, p, k)
  OBVIOUS
<1>2. r \in FiberRec /\ r.intr = FALSE
  BY <1>1, NewFiberType DEF NewFiber
<1>3. r = [r EXCEPT !.intr = FALSE]
  BY <1>2 DEF FiberRec
<1> QED
  BY <1>1, <1>3

LEMMA SpawnForks ==
    ASSUME TypeOK, NEW f \in FiberIds, NEW k \in Keys, NEW b \in Seq(FiberRec),
           Len(b) = Len(fiber), NEW i \in BOOLEAN, SpawnInstance(f, k, b, i)
    PROVE  \/ /\ runningByEntry[k] # 0 /\ fiber' = b
              /\ UNCHANGED <<activeInstances, runningByEntry>>
           \/ /\ runningByEntry[k] = 0 /\ activeInstances' = activeInstances + 1
              /\ Forks(Len(fiber) + 1, f, "instance", k, i)
              /\ \A g \in FiberIds : fiber'[g] = b[g]
              /\ runningByEntry' = [runningByEntry EXCEPT ![k] = Len(fiber) + 1]
<1>1. CASE AlreadyRuns(k)
  BY <1>1 DEF SpawnInstance, AlreadyRuns
<1>2. CASE ~AlreadyRuns(k)
  <2>1. PICK r : r = [NewFiber("instance", f, k) EXCEPT !.intr = i]
    OBVIOUS
  <2>2. fiber' = Append(b, r)
    BY <1>2, <2>1 DEF SpawnInstance
  <2>3. f \in Nat
    BY FibersType DEF TypeOK
  <2>4. /\ Forks(Len(fiber) + 1, f, "instance", k, i) /\ Len(fiber') = Len(fiber) + 1
        /\ \A g \in FiberIds : fiber'[g] = b[g]
    BY <2>1, <2>2, <2>3, ForkOne
  <2> QED
    BY <1>2, <2>4 DEF SpawnInstance, AlreadyRuns
<1> QED
  BY <1>1, <1>2

LEMMA DriverForks ==
    ASSUME TypeOK, NEW c \in Clients, ForkDriver(c)
    PROVE  /\ Forks(Len(fiber) + 1, 0, "driver", SomeKey, FALSE)
           /\ fiberRef' = Len(fiber) + 1
           /\ \A g \in FiberIds : Told(g)
<1>1. fiber \in Seq(FiberRec)
  BY DEF TypeOK
<1>2. PICK r : r = NewFiber("driver", 0, SomeKey)
  OBVIOUS
<1>3. r = [NewFiber("driver", 0, SomeKey) EXCEPT !.intr = FALSE]
  BY <1>2, SomeKeyType, NewFiberQuiet
<1>4. fiber' = Append(fiber, r)
  BY <1>2 DEF ForkDriver
<1>5. /\ Forks(Len(fiber) + 1, 0, "driver", SomeKey, FALSE) /\ Len(fiber') = Len(fiber) + 1
      /\ \A g \in FiberIds : fiber'[g] = fiber[g]
  BY <1>1, <1>3, <1>4, SomeKeyType, ForkOne
<1> QED
  BY <1>5 DEF ForkDriver, Told

(* A driver at a window; a sleeper that wakes.                               *)
Spawns(f, k, i) ==
    /\ Forks(Len(fiber) + 1, f, "instance", k, i)
    /\ runningByEntry[k] = 0
    /\ runningByEntry' = [runningByEntry EXCEPT ![k] = Len(fiber) + 1]
    /\ activeInstances' = activeInstances + 1
Postpones(d, k) ==
    /\ Forks(Len(fiber) + 1, d, "sleeper", k, FALSE)
    /\ pendingStarts[k] = 0
    /\ pendingStarts' = [pendingStarts EXCEPT ![k] = Len(fiber) + 1]

LEMMA ReconcileForks ==
    ASSUME TypeOK, NEW d \in FiberIds, ReconcileEntry(d)
    PROVE  /\ fiber[d].pc = "each" /\ ~fiber[d].intr
           /\ \A g \in FiberIds : Told(g)
           /\ \E k \in Keys :
                /\ k \in KeysIn(fiber[d].snap)
                /\ \/ /\ SameFibers
                      /\ UNCHANGED <<pendingStarts, runningByEntry, activeInstances>>
                      /\ completedEntries' \in {completedEntries, completedEntries \cup {k}}
                   \/ /\ Spawns(d, k, FALSE) /\ k \notin completedEntries
                      /\ UNCHANGED <<pendingStarts, completedEntries>>
                   \/ /\ Postpones(d, k)
                      /\ UNCHANGED <<runningByEntry, completedEntries, activeInstances>>
<1>1. fiber \in Seq(FiberRec) /\ fiber[d] \in FiberRec /\ d \in Nat
  BY FibersType DEF TypeOK
<1>2. fiber[d].pc = "each" /\ ~fiber[d].intr /\ fiber[d].idx <= Len(fiber[d].snap)
  BY DEF ReconcileEntry, At
<1>3. PICK k : k = KeyAt(fiber[d].snap, fiber[d].idx)
  OBVIOUS
<1>4. k \in Keys /\ k \in KeysIn(fiber[d].snap)
  <2>1. fiber[d].snap \in Schedules /\ fiber[d].idx \in Ordinals
    BY <1>1 DEF FiberRec
  <2>2. fiber[d].idx \in DOMAIN fiber[d].snap
    BY <1>2, <2>1 DEF Schedules, Ordinals
  <2> QED
    BY <1>3, <2>1, <2>2, KeyAtType
<1>5. PICK q : q = [fiber[d] EXCEPT !.idx = @ + 1]
  OBVIOUS
<1>6. q \in FiberRec /\ q.kind = fiber[d].kind /\ q.parent = fiber[d].parent
      /\ q.key = fiber[d].key /\ q.pc = fiber[d].pc /\ q.intr = fiber[d].intr
      /\ q.snap = fiber[d].snap /\ q.stale = fiber[d].stale
  BY <1>1, <1>5, OrdinalsGo DEF FiberRec
<1>7. PICK b : b = [fiber EXCEPT ![d] = q]
  OBVIOUS
<1>8. b = NextEntry(d)
  BY <1>1, <1>5, <1>7 DEF NextEntry
<1>9. b \in Seq(FiberRec) /\ Len(b) = Len(fiber) /\ DOMAIN b = FiberIds /\ b[d] = q
      /\ \A g \in FiberIds \ {d} : b[g] = fiber[g]
  BY <1>1, <1>6, <1>7 DEF FiberIds
<1>10. ASSUME \A g \in FiberIds : fiber'[g] = b[g]
       PROVE  \A g \in FiberIds : Told(g)
  BY <1>6, <1>9, <1>10 DEF Told
<1>11. ASSUME fiber' = b
       PROVE  SameFibers /\ \A g \in FiberIds : Told(g)
  BY <1>9, <1>10, <1>11 DEF SameFibers, FiberIds
<1>12. ASSUME SpawnInstance(d, k, b, FALSE), UNCHANGED pendingStarts, UNCHANGED completedEntries,
              k \notin completedEntries
       PROVE  /\ \A g \in FiberIds : Told(g)
              /\ \/ /\ SameFibers
                    /\ UNCHANGED <<pendingStarts, runningByEntry, activeInstances>>
                    /\ completedEntries' \in {completedEntries, completedEntries \cup {k}}
                 \/ /\ Spawns(d, k, FALSE) /\ k \notin completedEntries
                    /\ UNCHANGED <<pendingStarts, completedEntries>>
  <2>1. \/ /\ runningByEntry[k] # 0 /\ fiber' = b
           /\ UNCHANGED <<activeInstances, runningByEntry>>
        \/ /\ runningByEntry[k] = 0 /\ activeInstances' = activeInstances + 1
           /\ Forks(Len(fiber) + 1, d, "instance", k, FALSE)
           /\ \A g \in FiberIds : fiber'[g] = b[g]
           /\ runningByEntry' = [runningByEntry EXCEPT ![k] = Len(fiber) + 1]
    BY <1>4, <1>9, <1>12, SpawnForks
  <2>2. CASE fiber' = b
    BY <1>11, <1>12, <2>1, <2>2 DEF Spawns
  <2>3. CASE fiber' # b
    BY <1>10, <1>12, <2>1, <2>3 DEF Spawns
  <2> QED
    BY <2>2, <2>3
<1>13. ASSUME fiber' = Append(b, NewFiber("sleeper", d, k)), pendingStarts[k] = 0,
              pendingStarts' = [pendingStarts EXCEPT ![k] = Len(fiber')]
       PROVE  Postpones(d, k) /\ \A g \in FiberIds : Told(g)
  <2>1. PICK r : r = NewFiber("sleeper", d, k)
    OBVIOUS
  <2>2. r = [NewFiber("sleeper", d, k) EXCEPT !.intr = FALSE] /\ fiber' = Append(b, r)
    BY <1>1, <1>4, <1>13, <2>1, NewFiberQuiet
  <2>3. /\ Forks(Len(fiber) + 1, d, "sleeper", k, FALSE) /\ Len(fiber') = Len(fiber) + 1
        /\ \A g \in FiberIds : fiber'[g] = b[g]
    BY <1>1, <1>4, <1>9, <2>2, ForkOne
  <2> QED
    BY <1>10, <1>13, <2>3 DEF Postpones
<1> DEFINE opened == k.start <= fiber[d].at
           closed == k.stop <= fiber[d].at
           known == k \in completedEntries \/ AlreadyRuns(k) \/ (~opened /\ pendingStarts[k] # 0)
<1>14. \/ known /\ fiber' = b /\ UNCHANGED <<maps, activeInstances>>
       \/ /\ completedEntries' = completedEntries \cup {k} /\ fiber' = b
          /\ UNCHANGED <<pendingStarts, runningByEntry, activeInstances>>
       \/ ~known /\ SpawnInstance(d, k, b, FALSE) /\ UNCHANGED <<pendingStarts, completedEntries>>
       \/ ~known /\ ~opened /\ ScheduleFuture(d, k) /\ UNCHANGED completedEntries
  BY <1>3, <1>8 DEF ReconcileEntry
<1>15. CASE fiber' = b /\ UNCHANGED <<pendingStarts, runningByEntry, activeInstances>>
            /\ completedEntries' \in {completedEntries, completedEntries \cup {k}}
  BY <1>2, <1>4, <1>11, <1>15
<1>16. CASE ~known /\ SpawnInstance(d, k, b, FALSE) /\ UNCHANGED <<pendingStarts, completedEntries>>
  BY <1>2, <1>4, <1>12, <1>16
<1>17. CASE ~known /\ ~opened /\ ScheduleFuture(d, k) /\ UNCHANGED completedEntries
  <2>1. \/ SpawnInstance(d, k, b, FALSE) /\ UNCHANGED pendingStarts
        \/ /\ fiber' = Append(b, NewFiber("sleeper", d, k))
           /\ pendingStarts' = [pendingStarts EXCEPT ![k] = Len(fiber')]
           /\ UNCHANGED <<activeInstances, runningByEntry>>
    BY <1>8, <1>17 DEF ScheduleFuture
  <2>2. pendingStarts[k] = 0 /\ k \notin completedEntries
    BY <1>17
  <2>3. CASE SpawnInstance(d, k, b, FALSE) /\ UNCHANGED pendingStarts
    BY <1>2, <1>4, <1>12, <1>17, <2>2, <2>3
  <2>4. CASE /\ fiber' = Append(b, NewFiber("sleeper", d, k))
             /\ pendingStarts' = [pendingStarts EXCEPT ![k] = Len(fiber')]
             /\ UNCHANGED <<activeInstances, runningByEntry>>
    <3>1. Postpones(d, k) /\ \A g \in FiberIds : Told(g)
      BY <1>13, <2>2, <2>4
    <3> QED
      BY <1>2, <1>4, <1>17, <2>4, <3>1
  <2> QED
    BY <2>1, <2>3, <2>4
<1> QED
  BY <1>14, <1>15, <1>16, <1>17 DEF maps

LEMMA WakeForks ==
    ASSUME TypeOK, NEW s \in FiberIds, Wake(s)
    PROVE  /\ fiber[s].pc = "sleep" /\ ~fiber[s].intr /\ fiber[s].key \in Keys
           /\ \A g \in FiberIds \ {s} : Told(g)
           /\ Waits(s)
           /\ pendingStarts' = [pendingStarts EXCEPT ![fiber[s].key] = 0]
           /\ UNCHANGED completedEntries
           /\ \/ SameFibers /\ UNCHANGED <<activeInstances, runningByEntry>>
              \/ Spawns(s, fiber[s].key, TRUE)
<1>1. fiber \in Seq(FiberRec) /\ fiber[s] \in FiberRec
  BY FibersType DEF TypeOK
<1>2. PICK k : k = fiber[s].key
  OBVIOUS
<1>3. k \in Keys
  BY <1>1, <1>2 DEF FiberRec
<1>4. PICK q : q = [fiber[s] EXCEPT !.pc = "ending"]
  OBVIOUS
<1>5. q \in FiberRec /\ q.kind = fiber[s].kind /\ q.parent = fiber[s].parent
      /\ q.key = fiber[s].key /\ q.pc = "ending"
  BY <1>1, <1>4 DEF FiberRec, DriverSteps
<1>6. PICK b : b = [fiber EXCEPT ![s] = q]
  OBVIOUS
<1>7. b = [fiber EXCEPT ![s].pc = "ending"]
  BY <1>1, <1>4, <1>6
<1>8. b \in Seq(FiberRec) /\ Len(b) = Len(fiber) /\ DOMAIN b = FiberIds /\ b[s] = q
      /\ \A g \in FiberIds \ {s} : b[g] = fiber[g]
  BY <1>1, <1>5, <1>6 DEF FiberIds
<1>9. SpawnInstance(s, k, b, TRUE) /\ pendingStarts' = [pendingStarts EXCEPT ![k] = 0]
      /\ fiber[s].pc = "sleep" /\ ~fiber[s].intr /\ UNCHANGED completedEntries
  BY <1>2, <1>7 DEF Wake, At
<1>10. \/ /\ runningByEntry[k] # 0 /\ fiber' = b
          /\ UNCHANGED <<activeInstances, runningByEntry>>
       \/ /\ runningByEntry[k] = 0 /\ activeInstances' = activeInstances + 1
          /\ Forks(Len(fiber) + 1, s, "instance", k, TRUE)
          /\ \A g \in FiberIds : fiber'[g] = b[g]
          /\ runningByEntry' = [runningByEntry EXCEPT ![k] = Len(fiber) + 1]
  BY <1>3, <1>8, <1>9, SpawnForks
<1>11. ASSUME \A g \in FiberIds : fiber'[g] = b[g]
       PROVE  (\A g \in FiberIds \ {s} : Told(g)) /\ Waits(s)
  BY <1>5, <1>8, <1>11 DEF Told, Waits
<1>12. CASE fiber' = b
  BY <1>2, <1>3, <1>8, <1>9, <1>10, <1>11, <1>12 DEF SameFibers, FiberIds, Spawns
<1>13. CASE fiber' # b
  BY <1>2, <1>3, <1>9, <1>10, <1>11, <1>13 DEF Spawns
<1> QED
  BY <1>12, <1>13

----------------------------------------------------------------------------
(* Every step keeps the types.                                               *)

(* What a client or the clock does leaves the fibers where they are.          *)
Still ==
    /\ SameFibers /\ \A g \in FiberIds : Told(g)
    /\ UNCHANGED <<maps, activeInstances, aborted, begun, polling>>
QuietClient(c) ==
    CallStart(c) \/ CallStop(c) \/ CallMutate(c) \/ WriteEntries(c) \/ Notify(c) \/ AwaitDriver(c)
FiberActs(f) ==
    \/ Begin(f) \/ PruneKeys(f) \/ InterruptStale(f) \/ ReadClock(f) \/ ReconcileEntry(f)
    \/ AwaitChange(f) \/ Wake(f) \/ InstanceStep(f) \/ Exit(f) \/ Die(f)

LEMMA Steps ==
    ASSUME TypeOK, [Next]_vars
    PROVE  \/ Still
           \/ \E c \in Clients : ForkDriver(c)
           \/ \E f \in FiberIds : FiberActs(f)
<1>1. fiber \in Seq(FiberRec)
  BY DEF TypeOK
<1>2. ASSUME NEW c \in Clients, QuietClient(c)
      PROVE  Still
  <2>1. CASE CallStop(c)
    BY <2>1, StopTells DEF CallStop, Still
  <2>2. CASE ~CallStop(c)
    <3>1. fiber' = fiber /\ UNCHANGED <<maps, activeInstances, aborted, begun, polling>>
      BY <1>2, <2>2 DEF QuietClient, CallStart, CallMutate, WriteEntries, Notify, AwaitDriver
    <3> QED
      BY <1>1, <3>1, UnchangedFibers DEF Still
  <2> QED
    BY <2>1, <2>2
<1>3. ASSUME Tick \/ UNCHANGED vars
      PROVE  Still
  <2>1. fiber' = fiber /\ UNCHANGED <<maps, activeInstances, aborted, begun, polling>>
    BY <1>3 DEF Tick, vars, maps
  <2> QED
    BY <1>1, <2>1, UnchangedFibers DEF Still
<1>4. ASSUME NEW f \in FiberIds, FiberStep(f)
      PROVE  FiberActs(f)
  BY <1>4 DEF FiberStep, FiberActs, InstanceStep
<1>5. ASSUME NEW c \in Clients, ClientCall(c) \/ ClientStep(c)
      PROVE  QuietClient(c) \/ ForkDriver(c)
  BY <1>5 DEF ClientCall, ClientStep, QuietClient
<1> QED
  BY <1>2, <1>3, <1>4, <1>5 DEF Next

LEMMA FinalizerType ==
    ASSUME TypeOK, NEW f \in FiberIds, Finalizer(f)
    PROVE  /\ pendingStarts' \in [Keys -> Nat] /\ runningByEntry' \in [Keys -> Nat]
           /\ completedEntries' \subseteq Keys /\ activeInstances' \in Nat
<1>1. fiber[f].key \in Keys
  BY FibersType DEF TypeOK, FiberRec
<1>2. CASE fiber[f].kind = "instance"
  <2>1. /\ activeInstances' = IF activeInstances > 0 THEN activeInstances - 1 ELSE 0
        /\ runningByEntry' = [runningByEntry EXCEPT ![fiber[f].key] = 0]
        /\ completedEntries' = completedEntries \cup {fiber[f].key}
        /\ UNCHANGED pendingStarts
    BY <1>2 DEF Finalizer
  <2>2. activeInstances' \in Nat
    BY <2>1 DEF TypeOK
  <2> QED
    BY <1>1, <2>1, <2>2 DEF TypeOK
<1>3. CASE fiber[f].kind = "sleeper"
  <2>1. /\ pendingStarts' = [pendingStarts EXCEPT ![fiber[f].key] = 0]
        /\ UNCHANGED <<runningByEntry, completedEntries, activeInstances>>
    BY <1>3 DEF Finalizer
  <2> QED
    BY <1>1, <2>1 DEF TypeOK
<1>4. CASE fiber[f].kind \notin {"sleeper", "instance"}
  <2>1. UNCHANGED <<maps, activeInstances>>
    BY <1>4 DEF Finalizer
  <2> QED
    BY <2>1 DEF TypeOK, maps
<1> QED
  BY <1>2, <1>3, <1>4

FiberTypes ==
    /\ fiber \in Seq(FiberRec)
    /\ pendingStarts \in [Keys -> Nat] /\ runningByEntry \in [Keys -> Nat]
    /\ completedEntries \subseteq Keys
    /\ activeInstances \in Nat /\ aborted \in Nat
    /\ begun \in [Keys -> Nat] /\ polling \in BOOLEAN

LEMMA FiberTypesNext ==
    ASSUME TypeOK, [Next]_vars
    PROVE  FiberTypes'
<1>1. FiberTypes /\ Len(fiber) + 1 \in Nat
  BY FibersType DEF TypeOK, FiberTypes
<1>2. CASE Still
  BY <1>1, <1>2 DEF Still, SameFibers, FiberTypes, maps
<1>3. ASSUME NEW c \in Clients, ForkDriver(c)
      PROVE  FiberTypes'
  <2>1. fiber' \in Seq(FiberRec)
    BY <1>3, DriverForks DEF Forks
  <2> QED
    BY <1>1, <1>3, <2>1 DEF ForkDriver, FiberTypes, maps
<1>4. ASSUME NEW f \in FiberIds, FiberActs(f)
      PROVE  FiberTypes'
  <2>1. CASE Begin(f)
    BY <1>1, <2>1, BeginMoves DEF Begin, Moved, FiberTypes, maps
  <2>2. CASE PruneKeys(f)
    <3>1. fiber' \in Seq(FiberRec)
      BY <2>2, PruneMoves DEF Moved
    <3>2. begun' \in [Keys -> Nat]
      BY <1>1, <2>2 DEF PruneKeys, FiberTypes
    <3> QED
      BY <1>1, <2>2, <3>1, <3>2 DEF PruneKeys, StillListed, FiberTypes
  <2>3. CASE InterruptStale(f)
    BY <1>1, <2>3, SweepTells DEF InterruptStale, SameFibers, FiberTypes, maps
  <2>4. CASE ReadClock(f)
    BY <1>1, <2>4, ClockMoves DEF ReadClock, Moved, FiberTypes, maps
  <2>5. CASE ReconcileEntry(f)
    <3>1. UNCHANGED <<aborted, begun, polling>>
      BY <2>5 DEF ReconcileEntry
    <3>2. PICK k \in Keys :
            \/ /\ SameFibers
               /\ UNCHANGED <<pendingStarts, runningByEntry, activeInstances>>
               /\ completedEntries' \in {completedEntries, completedEntries \cup {k}}
            \/ /\ Spawns(f, k, FALSE)
               /\ UNCHANGED <<pendingStarts, completedEntries>>
            \/ /\ Postpones(f, k)
               /\ UNCHANGED <<runningByEntry, completedEntries, activeInstances>>
      BY <2>5, ReconcileForks
    <3>3. fiber' \in Seq(FiberRec)
      BY <3>2 DEF SameFibers, Spawns, Postpones, Forks
    <3>6. activeInstances' \in {activeInstances, activeInstances + 1}
      BY <3>2 DEF Spawns
    <3>4. completedEntries' \subseteq Keys /\ activeInstances' \in Nat
      <4>1. activeInstances \in Nat
        BY <1>1 DEF FiberTypes
      <4>2. completedEntries' \subseteq Keys
        BY <1>1, <3>2 DEF FiberTypes
      <4> QED
        BY <3>6, <4>1, <4>2
    <3>5. pendingStarts' \in [Keys -> Nat] /\ runningByEntry' \in [Keys -> Nat]
      BY <1>1, <3>2 DEF Spawns, Postpones, FiberTypes
    <3> QED
      BY <1>1, <3>1, <3>3, <3>4, <3>5 DEF FiberTypes
  <2>6. CASE AwaitChange(f)
    BY <1>1, <2>6, AwaitMoves DEF AwaitChange, Moved, FiberTypes, maps
  <2>7. CASE Wake(f)
    <3>1. UNCHANGED <<aborted, begun, polling>>
      BY <2>7 DEF Wake
    <3>2. /\ pendingStarts' = [pendingStarts EXCEPT ![fiber[f].key] = 0]
          /\ UNCHANGED completedEntries
          /\ \/ SameFibers /\ UNCHANGED <<activeInstances, runningByEntry>>
             \/ Spawns(f, fiber[f].key, TRUE)
      BY <2>7, WakeForks
    <3>3. fiber' \in Seq(FiberRec)
      BY <3>2 DEF SameFibers, Spawns, Forks
    <3>6. activeInstances' \in {activeInstances, activeInstances + 1}
      BY <3>2 DEF Spawns
    <3>4. completedEntries' \subseteq Keys /\ activeInstances' \in Nat
      <4>1. activeInstances \in Nat
        BY <1>1 DEF FiberTypes
      <4>2. completedEntries' \subseteq Keys
        BY <1>1, <3>2 DEF FiberTypes
      <4> QED
        BY <3>6, <4>1, <4>2
    <3>5. pendingStarts' \in [Keys -> Nat] /\ runningByEntry' \in [Keys -> Nat]
      BY <1>1, <3>2 DEF Spawns, FiberTypes
    <3> QED
      BY <1>1, <3>1, <3>3, <3>4, <3>5 DEF FiberTypes
  <2>8. CASE InstanceStep(f)
    <3>1. fiber' \in Seq(FiberRec)
      BY <2>8, InstanceMoves DEF Moved
    <3>2. UNCHANGED <<maps, activeInstances, aborted, polling>>
      BY <2>8 DEF InstanceStep, AwaitNextTick, FindsClosed, BeginRun, EndRun
    <3>3. begun' \in [Keys -> Nat]
      <4>1. begun' = begun \/ begun' = [begun EXCEPT ![fiber[f].key] = IF polling THEN 1 ELSE @ + 1]
        BY <2>8 DEF InstanceStep, AwaitNextTick, FindsClosed, BeginRun, EndRun
      <4>2. fiber[f].key \in Keys
        BY FibersType DEF TypeOK, FiberRec
      <4>3. begun \in [Keys -> Nat] /\ begun[fiber[f].key] + 1 \in Nat
        BY <1>1, <4>2 DEF FiberTypes
      <4>4. PICK v : v = IF polling THEN 1 ELSE begun[fiber[f].key] + 1
        OBVIOUS
      <4>5. v \in Nat
        BY <4>3, <4>4
      <4>6. begun' = begun \/ begun' = [begun EXCEPT ![fiber[f].key] = v]
        BY <4>1, <4>2, <4>3, <4>4
      <4> QED
        BY <4>2, <4>3, <4>5, <4>6
    <3> QED
      BY <1>1, <3>1, <3>2, <3>3 DEF FiberTypes, maps
  <2>9. CASE Exit(f)
    <3>1. fiber' \in Seq(FiberRec) /\ UNCHANGED <<begun, polling>>
      BY <2>9, ExitTells DEF SameFibers, Exit
    <3>2. CASE fiber[f].pc = "forked"
      <4>1. aborted' = aborted + (IF fiber[f].kind = "instance" THEN 1 ELSE 0)
            /\ UNCHANGED <<maps, activeInstances>>
        BY <2>9, <3>2 DEF Exit
      <4>2. aborted' \in Nat
        BY <1>1, <4>1 DEF FiberTypes
      <4> QED
        BY <1>1, <3>1, <4>1, <4>2 DEF FiberTypes, maps
    <3>3. CASE fiber[f].pc # "forked"
      BY <1>1, <2>9, <3>1, <3>3, FinalizerType DEF Exit, FiberTypes
    <3> QED
      BY <3>2, <3>3
  <2>10. CASE Die(f)
    BY <1>1, <2>10, DieTells DEF Die, SameFibers, FiberTypes, maps
  <2> QED
    BY <1>4, <2>1, <2>2, <2>3, <2>4, <2>5, <2>6, <2>7, <2>8, <2>9, <2>10 DEF FiberActs
<1> QED
  BY <1>2, <1>3, <1>4, Steps

LEMMA TypeInit == Init => TypeOK
<1> SUFFICES ASSUME Init PROVE TypeOK
  OBVIOUS
<1>1. Initial \in Seq(Window) /\ Len(Initial) <= MaxEntries /\ Cadences \subseteq BOOLEAN
  BY ScheduleAssumption
<1>2. entries \in Schedules
  BY <1>1, SortType DEF Init, Schedules
<1>3. NewFiber("driver", 0, SomeKey) \in FiberRec
  BY SomeKeyType, NewFiberType
<1>4. fiber \in Seq(FiberRec)
  BY <1>3 DEF Init
<1>5. Idle \in CallRec
  <2>1. <<>> \in Schedules
    BY NeverNumber DEF Schedules
  <2> QED
    BY <2>1 DEF Idle, CallRec
<1>6. /\ signal \in Nat /\ fired \subseteq Nat /\ now \in Nat /\ polling \in BOOLEAN
      /\ pendingStarts \in [Keys -> Nat] /\ runningByEntry \in [Keys -> Nat]
      /\ completedEntries \subseteq Keys /\ begun \in [Keys -> Nat]
      /\ activeInstances \in Nat /\ aborted \in Nat /\ fiberRef \in Nat
  BY <1>1 DEF Init
<1>7. call \in [Clients -> CallRec]
  BY <1>5 DEF Init
<1> QED
  BY <1>2, <1>4, <1>6, <1>7 DEF TypeOK

LEMMA CallsType ==
    ASSUME TypeOK, [Next]_vars
    PROVE  call' \in [Clients -> CallRec]
<1>1. call \in [Clients -> CallRec] /\ <<>> \in Schedules /\ fiberRef \in Nat
  BY NeverNumber DEF TypeOK, Schedules
<1>2. ASSUME NEW c \in Clients, NEW r \in CallRec, call' = [call EXCEPT ![c] = r]
      PROVE  call' \in [Clients -> CallRec]
  BY <1>1, <1>2
<1>3. \A c \in Clients : call[c] \in CallRec
  BY <1>1
<1>4. ASSUME NEW c \in Clients, NEW p \in {"idle", "fork", "ending", "write", "notify"},
             call' = [call EXCEPT ![c].pc = p]
      PROVE  call' \in [Clients -> CallRec]
  <2>1. [call[c] EXCEPT !.pc = p] \in CallRec
    BY <1>3 DEF CallRec
  <2>2. call' = [call EXCEPT ![c] = [call[c] EXCEPT !.pc = p]]
    BY <1>1, <1>4
  <2> QED
    BY <1>2, <2>1, <2>2
<1>5. CASE UNCHANGED call
  BY <1>1, <1>5
<1>6. ASSUME NEW c \in Clients, ClientCall(c) \/ ClientStep(c)
      PROVE  call' \in [Clients -> CallRec]
  <2>1. CASE CallStart(c)
    BY <1>4, <2>1 DEF CallStart, Does
  <2>2. CASE CallStop(c)
    <3>1. CASE fiberRef = 0
      BY <1>5, <2>2, <3>1 DEF CallStop
    <3>2. CASE fiberRef # 0
      <4>1. call' = [call EXCEPT ![c].pc = "ending", ![c].target = fiberRef]
        BY <2>2, <3>2 DEF CallStop
      <4>2. call' = [call EXCEPT ![c] = [call[c] EXCEPT !.pc = "ending", !.target = fiberRef]]
        BY <1>1, <4>1
      <4>3. [call[c] EXCEPT !.pc = "ending", !.target = fiberRef] \in CallRec
        BY <1>1, <1>3 DEF CallRec
      <4> QED
        BY <1>2, <4>2, <4>3
    <3> QED
      BY <3>1, <3>2
  <2>3. CASE CallMutate(c)
    <3>1. PICK next \in Mutations :
            /\ Len(next) <= MaxEntries
            /\ call' = [call EXCEPT ![c] = [Idle EXCEPT !.pc = "write", !.next = next]]
      BY <2>3 DEF CallMutate
    <3>2. next \in Schedules
      <4>1. entries \in Seq(Window)
        BY DEF TypeOK, Schedules
      <4> QED
        BY <3>1, <4>1, MutationsType DEF Schedules
    <3>3. PICK r : r = [Idle EXCEPT !.pc = "write", !.next = next]
      OBVIOUS
    <3>4. r \in CallRec
      BY <3>2, <3>3 DEF Idle, CallRec
    <3> QED
      BY <1>2, <3>1, <3>3, <3>4
  <2>4. CASE WriteEntries(c)
    <3>1. PICK r : r = [Idle EXCEPT !.pc = "notify"]
      OBVIOUS
    <3>2. r \in CallRec
      BY <1>1, <3>1 DEF Idle, CallRec
    <3> QED
      BY <1>2, <2>4, <3>1, <3>2 DEF WriteEntries
  <2>5. CASE Notify(c)
    BY <1>4, <2>5 DEF Notify, Does
  <2>6. CASE ForkDriver(c)
    BY <1>4, <2>6 DEF ForkDriver, Does
  <2>7. CASE AwaitDriver(c)
    <3>1. PICK r : r = Idle
      OBVIOUS
    <3>2. r \in CallRec
      BY <1>1, <3>1 DEF Idle, CallRec
    <3> QED
      BY <1>2, <2>7, <3>1, <3>2 DEF AwaitDriver
  <2> QED
    BY <1>6, <2>1, <2>2, <2>3, <2>4, <2>5, <2>6, <2>7 DEF ClientCall, ClientStep
<1>7. ASSUME NEW f \in FiberIds, FiberStep(f)
      PROVE  UNCHANGED call
  BY <1>7 DEF FiberStep, Begin, PruneKeys, InterruptStale, ReadClock, ReconcileEntry,
     AwaitChange, Wake, AwaitNextTick, FindsClosed, BeginRun, EndRun, Exit, Die
<1> QED
  BY <1>5, <1>6, <1>7 DEF Next, Tick, vars

LEMMA TypeNext == TypeOK /\ [Next]_vars => TypeOK'
<1> SUFFICES ASSUME TypeOK, [Next]_vars PROVE TypeOK'
  OBVIOUS
<1>1. FiberTypes' /\ call' \in [Clients -> CallRec]
  BY FiberTypesNext, CallsType
<1>2. /\ entries' \in Schedules
      /\ signal' \in Nat /\ fired' \subseteq Nat /\ now' \in Nat /\ fiberRef' \in Nat
  <2>1. /\ entries \in Schedules /\ signal \in Nat /\ fired \subseteq Nat /\ now \in Nat
        /\ fiberRef \in Nat /\ fiber \in Seq(FiberRec)
    BY DEF TypeOK
  <2>2. ASSUME NEW c \in Clients, ClientCall(c) \/ ClientStep(c)
        PROVE  /\ entries' \in Schedules
               /\ signal' \in Nat /\ fired' \subseteq Nat /\ now' \in Nat /\ fiberRef' \in Nat
    <3>1. CASE WriteEntries(c)
      <4>1. call[c].next \in Schedules
        BY DEF TypeOK, CallRec
      <4>2. SortEntries(call[c].next) \in Schedules
        BY <4>1, SortType DEF Schedules
      <4> QED
        BY <2>1, <3>1, <4>2 DEF WriteEntries
    <3>2. CASE ForkDriver(c)
      <4>1. fiberRef' \in Nat
        <5>1. Len(fiber) \in Nat
          BY <2>1
        <5>2. fiberRef' = Len(fiber) + 1
          BY <3>2, DriverForks
        <5> QED
          BY <5>1, <5>2
      <4> QED
        BY <2>1, <3>2, <4>1 DEF ForkDriver, store
    <3>3. CASE Notify(c)
      BY <2>1, <3>3 DEF Notify
    <3>4. CASE CallStart(c) \/ CallStop(c) \/ CallMutate(c)
      <4>1. UNCHANGED <<entries, signal, fired, now, fiberRef>>
        BY <3>4 DEF CallStart, CallStop, CallMutate, store
      <4> QED
        BY <2>1, <4>1
    <3>5. CASE AwaitDriver(c)
      BY <2>1, <3>5 DEF AwaitDriver, store
    <3> QED
      BY <2>2, <3>1, <3>2, <3>3, <3>4, <3>5 DEF ClientCall, ClientStep
  <2>3. ASSUME NEW f \in FiberIds, FiberStep(f)
        PROVE  UNCHANGED <<entries, signal, fired, now, fiberRef>>
    BY <2>3 DEF FiberStep, Begin, PruneKeys, InterruptStale, ReadClock, ReconcileEntry,
       AwaitChange, Wake, AwaitNextTick, FindsClosed, BeginRun, EndRun, Exit, Die, store
  <2>4. CASE Tick
    BY <2>1, <2>4 DEF Tick, store
  <2>5. CASE UNCHANGED vars
    BY <2>1, <2>5 DEF vars
  <2> QED
    BY <2>1, <2>2, <2>3, <2>4, <2>5 DEF Next
<1> QED
  BY <1>1, <1>2 DEF TypeOK, FiberTypes

----------------------------------------------------------------------------
(* Who is whose child.                                                       *)

Role(r) ==
    r.pc \in (IF r.kind = "driver" THEN DriverSteps
              ELSE IF r.kind = "sleeper" THEN SleeperSteps ELSE InstanceSteps)
Roles == \A f \in FiberIds : Role(fiber[f])

LEMMA RolesNext ==
    ASSUME TypeOK, Roles, [Next]_vars
    PROVE  Roles'
<1>1. \A g \in FiberIds : Told(g) => Role(fiber'[g])
  BY DEF Roles, Role, Told
<1>2. ASSUME NEW n, NEW f, NEW kind \in {"driver", "sleeper", "instance"}, NEW k, NEW i,
             Forks(n, f, kind, k, i), \A g \in FiberIds : Role(fiber'[g])
      PROVE  Roles'
  <2>1. Role(fiber'[n])
    BY <1>2 DEF Forks, Role, DriverSteps, SleeperSteps, InstanceSteps
  <2> QED
    BY <1>2, <2>1 DEF Roles, Forks
<1>3. ASSUME SameFibers, \A g \in FiberIds : Role(fiber'[g])
      PROVE  Roles'
  BY <1>3 DEF Roles, SameFibers
<1>4. CASE Still
  BY <1>1, <1>3, <1>4 DEF Still
<1>5. ASSUME NEW c \in Clients, ForkDriver(c)
      PROVE  Roles'
  BY <1>1, <1>2, <1>5, DriverForks
<1>6. ASSUME NEW f \in FiberIds, FiberActs(f)
      PROVE  Roles'
  <2>0. Role(fiber[f]) /\ fiber[f].kind \in {"driver", "sleeper", "instance"}
    BY FibersType DEF Roles, TypeOK, FiberRec
  <2>1. CASE Begin(f) \/ PruneKeys(f) \/ ReadClock(f) \/ AwaitChange(f) \/ InstanceStep(f)
    <3>1. Moved(f)
      BY <2>1, BeginMoves, PruneMoves, ClockMoves, AwaitMoves, InstanceMoves
    <3>2. \A g \in FiberIds \ {f} : Role(fiber'[g])
      BY <3>1 DEF Moved, Roles
    <3>3. fiber'[f].kind = fiber[f].kind
      BY <3>1 DEF Moved
    <3>4. Begin(f) => Role(fiber'[f])
      BY <2>0, <3>3, BeginMoves DEF Role, DriverSteps, SleeperSteps, InstanceSteps
    <3>5. ASSUME PruneKeys(f) \/ ReadClock(f) \/ AwaitChange(f)
          PROVE  Role(fiber'[f])
      <4>1. /\ fiber[f].pc \in {"read", "sweep", "each", "wait"}
            /\ fiber'[f].pc \in {"read", "sweep", "each", "wait"}
        BY <3>5, PruneMoves, ClockMoves, AwaitMoves
      <4> QED
        BY <2>0, <3>3, <4>1 DEF Role, DriverSteps, SleeperSteps, InstanceSteps
    <3>6. ASSUME InstanceStep(f)
          PROVE  Role(fiber'[f])
      <4>1. /\ fiber[f].pc \in {"check", "tick", "running"}
            /\ fiber'[f].pc \in {"check", "tick", "running", "over"}
        BY <3>6, InstanceMoves
      <4> QED
        BY <2>0, <3>3, <4>1 DEF Role, DriverSteps, SleeperSteps, InstanceSteps
    <3>7. SameFibers
      BY <3>1 DEF Moved, SameFibers
    <3> QED
      BY <1>3, <2>1, <3>2, <3>4, <3>5, <3>6, <3>7
  <2>2. CASE InterruptStale(f)
    <3>1. SameFibers /\ (\A g \in FiberIds \ {f} : Told(g)) /\ fiber'[f].kind = fiber[f].kind
          /\ fiber[f].pc \in {"sweep", "swept"} /\ fiber'[f].pc \in {"sweep", "swept"}
      BY <2>2, SweepTells
    <3>2. Role(fiber'[f])
      BY <2>0, <3>1 DEF Role, DriverSteps, SleeperSteps, InstanceSteps
    <3> QED
      BY <1>1, <1>3, <3>1, <3>2
  <2>3. CASE ReconcileEntry(f)
    <3>1. (\A g \in FiberIds : Role(fiber'[g]))
          /\ \E k \in Keys : SameFibers \/ Spawns(f, k, FALSE) \/ Postpones(f, k)
      BY <1>1, <2>3, ReconcileForks
    <3> QED
      BY <1>2, <1>3, <3>1 DEF Spawns, Postpones
  <2>4. CASE Wake(f)
    <3>1. /\ \A g \in FiberIds \ {f} : Told(g)
          /\ Waits(f)
          /\ \/ SameFibers
             \/ Spawns(f, fiber[f].key, TRUE)
      BY <2>4, WakeForks
    <3>2. Role(fiber'[f])
      BY <2>0, <3>1 DEF Waits, Role, DriverSteps, SleeperSteps, InstanceSteps
    <3>3. \A g \in FiberIds : Role(fiber'[g])
      BY <1>1, <3>1, <3>2
    <3> QED
      BY <1>2, <1>3, <3>1, <3>3 DEF Spawns
  <2>5. CASE Exit(f) \/ Die(f)
    <3>1. SameFibers /\ (\A g \in FiberIds \ {f} : Told(g)) /\ (Gone(f) \/ Waits(f))
      BY <2>5, ExitTells, DieTells
    <3>2. Role(fiber'[f])
      BY <2>0, <3>1 DEF Gone, Waits, Role, DriverSteps, SleeperSteps, InstanceSteps
    <3> QED
      BY <1>1, <1>3, <3>1, <3>2
  <2> QED
    BY <1>6, <2>1, <2>2, <2>3, <2>4, <2>5 DEF FiberActs
<1> QED
  BY <1>4, <1>5, <1>6, Steps

(* A fiber that lives, other than a driver, has a parent that lives: a driver, *)
(* or, for an instance, a sleeper.                                           *)
Parents(kind, above) == above = "driver" \/ (kind = "instance" /\ above = "sleeper")
Family ==
    \A f \in FiberIds : fiber[f].pc # "dead" /\ fiber[f].kind # "driver" =>
        /\ fiber[f].parent \in FiberIds /\ fiber[fiber[f].parent].pc # "dead"
        /\ Parents(fiber[f].kind, fiber[fiber[f].parent].kind)

Kin(g) ==
    /\ fiber'[g].kind = fiber[g].kind /\ fiber'[g].parent = fiber[g].parent
    /\ fiber'[g].pc = "dead" <=> fiber[g].pc = "dead"

LEMMA KinSteps ==
    ASSUME TypeOK, Roles, NEW f \in FiberIds, FiberActs(f)
    PROVE  \/ SameFibers /\ \A g \in FiberIds : Kin(g)
           \/ /\ \E kind \in {"sleeper", "instance"}, k \in Keys, i \in BOOLEAN :
                   Forks(Len(fiber) + 1, f, kind, k, i) /\ Parents(kind, fiber[f].kind)
              /\ fiber[f].pc # "dead" /\ \A g \in FiberIds : Kin(g)
           \/ SameFibers /\ Children(f) = {} /\ Gone(f) /\ \A g \in FiberIds \ {f} : Kin(g)
<1>1. \A g \in FiberIds : Told(g) => Kin(g)
  BY DEF Told, Kin
<1>2. Role(fiber[f]) /\ fiber[f].kind \in {"driver", "sleeper", "instance"}
  BY FibersType DEF Roles, TypeOK, FiberRec
<1>3. CASE Begin(f) \/ PruneKeys(f) \/ ReadClock(f) \/ AwaitChange(f) \/ InstanceStep(f)
  <2>1. Moved(f)
    BY <1>3, BeginMoves, PruneMoves, ClockMoves, AwaitMoves, InstanceMoves
  <2>2. \A g \in FiberIds \ {f} : Kin(g)
    BY <2>1 DEF Moved, Kin
  <2>3. fiber[f].pc # "dead" /\ fiber'[f].pc # "dead"
    BY <1>3, BeginMoves, PruneMoves, ClockMoves, AwaitMoves, InstanceMoves
  <2>4. Kin(f)
    BY <2>1, <2>3 DEF Moved, Kin
  <2> QED
    BY <2>1, <2>2, <2>4 DEF Moved, SameFibers
<1>4. CASE InterruptStale(f)
  <2>1. SameFibers /\ (\A g \in FiberIds \ {f} : Told(g)) /\ fiber'[f].kind = fiber[f].kind
        /\ fiber'[f].parent = fiber[f].parent
        /\ fiber[f].pc # "dead" /\ fiber'[f].pc # "dead"
    BY <1>4, SweepTells
  <2> QED
    BY <1>1, <2>1 DEF Kin
<1>5. CASE ReconcileEntry(f)
  <2>1. fiber[f].pc = "each" /\ (\A g \in FiberIds : Kin(g))
        /\ \E k \in Keys : SameFibers \/ Spawns(f, k, FALSE) \/ Postpones(f, k)
    BY <1>1, <1>5, ReconcileForks
  <2>2. fiber[f].kind = "driver"
    BY <1>2, <2>1 DEF Role, SleeperSteps, InstanceSteps
  <2>3. \A kind : Parents(kind, fiber[f].kind)
    BY <2>2 DEF Parents
  <2> QED
    BY <2>1, <2>3 DEF Spawns, Postpones
<1>6. CASE Wake(f)
  <2>1. /\ fiber[f].pc = "sleep" /\ fiber[f].key \in Keys
        /\ \A g \in FiberIds \ {f} : Told(g)
        /\ Waits(f)
        /\ SameFibers \/ Spawns(f, fiber[f].key, TRUE)
    BY <1>6, WakeForks
  <2>2. Parents("instance", fiber[f].kind)
    BY <1>2, <2>1 DEF Role, DriverSteps, InstanceSteps, Parents
  <2>3. Kin(f)
    BY <2>1 DEF Waits, Kin
  <2>4. \A g \in FiberIds : Kin(g)
    BY <1>1, <2>1, <2>3
  <2> QED
    BY <2>1, <2>2, <2>4 DEF Spawns
<1>7. CASE Exit(f) \/ Die(f)
  <2>1. SameFibers /\ (\A g \in FiberIds \ {f} : Told(g)) /\ fiber[f].pc # "dead"
        /\ ((Children(f) = {} /\ Gone(f)) \/ Waits(f))
    BY <1>7, ExitTells, DieTells
  <2>2. CASE Waits(f)
    BY <1>1, <2>1, <2>2 DEF Kin, Waits
  <2> QED
    BY <1>1, <2>1, <2>2
<1> QED
  BY <1>3, <1>4, <1>5, <1>6, <1>7 DEF FiberActs

LEMMA FamilyNext ==
    ASSUME TypeOK, Roles, Family, [Next]_vars
    PROVE  Family'
<1>1. ASSUME FiberIds \subseteq FiberIds', NEW g \in FiberIds, NEW S \in SUBSET FiberIds,
             \A h \in S : Kin(h), g \in S, fiber[g].parent \in FiberIds => fiber[g].parent \in S,
             fiber'[g].pc # "dead", fiber'[g].kind # "driver"
      PROVE  /\ fiber'[g].parent \in FiberIds' /\ fiber'[fiber'[g].parent].pc # "dead"
             /\ Parents(fiber'[g].kind, fiber'[fiber'[g].parent].kind)
  BY <1>1 DEF Family, Kin
<1>2. ASSUME SameFibers, \A g \in FiberIds : Kin(g)
      PROVE  Family'
  BY <1>1, <1>2 DEF Family, SameFibers
<1>3. ASSUME NEW n, NEW f, NEW kind, NEW k, NEW i, Forks(n, f, kind, k, i),
             \A g \in FiberIds : Kin(g),
             kind = "driver" \/ (f \in FiberIds /\ fiber[f].pc # "dead" /\ Parents(kind, fiber[f].kind))
      PROVE  Family'
  <2>1. FiberIds \subseteq FiberIds' /\ FiberIds' = FiberIds \cup {n}
    BY <1>3 DEF Forks
  <2>2. \A g \in FiberIds : fiber'[g].pc # "dead" /\ fiber'[g].kind # "driver" =>
          /\ fiber'[g].parent \in FiberIds' /\ fiber'[fiber'[g].parent].pc # "dead"
          /\ Parents(fiber'[g].kind, fiber'[fiber'[g].parent].kind)
    BY <1>1, <1>3, <2>1
  <2>3. fiber'[n].kind # "driver" =>
          /\ fiber'[n].parent \in FiberIds' /\ fiber'[fiber'[n].parent].pc # "dead"
          /\ Parents(fiber'[n].kind, fiber'[fiber'[n].parent].kind)
    BY <1>3, <2>1 DEF Forks, Kin
  <2> QED
    BY <2>1, <2>2, <2>3 DEF Family
<1>4. ASSUME NEW f \in FiberIds, SameFibers, Children(f) = {}, Gone(f),
             \A g \in FiberIds \ {f} : Kin(g)
      PROVE  Family'
  <2>1. \A g \in FiberIds \ {f} : fiber[g].parent # f
    BY <1>4 DEF Children
  <2>2. fiber'[f].pc = "dead"
    BY <1>4 DEF Gone
  <2>3. FiberIds' = FiberIds
    BY <1>4 DEF SameFibers
  <2>4. \A g \in FiberIds \ {f} : fiber'[g].pc # "dead" /\ fiber'[g].kind # "driver" =>
          /\ fiber'[g].parent \in FiberIds' /\ fiber'[fiber'[g].parent].pc # "dead"
          /\ Parents(fiber'[g].kind, fiber'[fiber'[g].parent].kind)
    BY <1>1, <1>4, <2>1, <2>3
  <2> QED
    BY <2>2, <2>3, <2>4 DEF Family
<1>5. CASE Still
  BY <1>2, <1>5 DEF Still, Told, Kin
<1>6. ASSUME NEW c \in Clients, ForkDriver(c)
      PROVE  Family'
  <2>1. Forks(Len(fiber) + 1, 0, "driver", SomeKey, FALSE) /\ \A g \in FiberIds : Kin(g)
    BY <1>6, DriverForks DEF Told, Kin
  <2> QED
    BY <1>3, <2>1
<1>7. ASSUME NEW f \in FiberIds, FiberActs(f)
      PROVE  Family'
  <2>1. CASE SameFibers /\ \A g \in FiberIds : Kin(g)
    BY <1>2, <2>1
  <2>2. CASE /\ \E kind \in {"sleeper", "instance"}, k \in Keys, i \in BOOLEAN :
                  Forks(Len(fiber) + 1, f, kind, k, i) /\ Parents(kind, fiber[f].kind)
             /\ fiber[f].pc # "dead" /\ \A g \in FiberIds : Kin(g)
    BY <1>3, <2>2
  <2>3. CASE SameFibers /\ Children(f) = {} /\ Gone(f) /\ \A g \in FiberIds \ {f} : Kin(g)
    BY <1>4, <2>3
  <2> QED
    BY <1>7, <2>1, <2>2, <2>3, KinSteps
<1> QED
  BY <1>5, <1>6, <1>7, Steps

(* With one controller: the driver that lives is the one the handle knows, and *)
(* a stop under way is for that one.                                          *)
OneDriver ==
    /\ \A d \in FiberIds : fiber[d].pc # "dead" /\ fiber[d].kind = "driver" => fiberRef = d
    /\ \A c \in Clients : call[c].pc \in {"fork", "ending"} => c \in Controllers
    /\ \A c \in Controllers : /\ call[c].pc = "fork" => fiberRef = 0
                              /\ call[c].pc = "ending" => call[c].target = fiberRef

LEMMA OneDriverNext ==
    ASSUME TypeOK, Roles, OneDriver, [Next]_vars, NEW c \in Controllers, Controllers = {c}
    PROVE  OneDriver'
<1>0. call \in [Clients -> CallRec] /\ c \in Clients
  BY DEF TypeOK, Clients
<1>1. ASSUME NEW e \in Clients, ForkDriver(e)
      PROVE  OneDriver'
  <2>1. e = c /\ call[c].pc = "fork" /\ call' = [call EXCEPT ![e].pc = "idle"]
    BY <1>1 DEF ForkDriver, Doing, Does, OneDriver
  <2>2. Forks(Len(fiber) + 1, 0, "driver", SomeKey, FALSE) /\ fiberRef' = Len(fiber) + 1
        /\ \A g \in FiberIds : Told(g)
    BY <1>1, DriverForks
  <2>3. \A d \in FiberIds : fiber[d].kind = "driver" => fiber[d].pc = "dead"
    <3>1. \A d \in FiberIds : d # 0
      BY FibersType DEF TypeOK
    <3> QED
      BY <2>1, <3>1 DEF OneDriver
  <2>4. \A d \in FiberIds' : fiber'[d].pc # "dead" /\ fiber'[d].kind = "driver" => fiberRef' = d
    BY <2>2, <2>3 DEF Forks, Told
  <2>5. \A x \in Clients : call'[x].pc = IF x = e THEN "idle" ELSE call[x].pc
    BY <1>0, <2>1 DEF CallRec
  <2> QED
    BY <1>0, <2>1, <2>4, <2>5 DEF OneDriver
<1>2. ASSUME SameFibers \/ FiberIds' = FiberIds \cup {Len(fiber) + 1},
             \A g \in FiberIds' : fiber'[g].pc # "dead" /\ fiber'[g].kind = "driver"
                 => g \in FiberIds /\ fiber[g].pc # "dead" /\ fiber[g].kind = "driver",
             UNCHANGED <<fiberRef, call>>
      PROVE  OneDriver'
  BY <1>2 DEF OneDriver
<1>3. ASSUME NEW f \in FiberIds, FiberActs(f)
      PROVE  OneDriver'
  <2>1. UNCHANGED <<fiberRef, call>>
    BY <1>3 DEF FiberActs, Begin, PruneKeys, InterruptStale, ReadClock, ReconcileEntry,
     AwaitChange, Wake, InstanceStep, AwaitNextTick, FindsClosed, BeginRun, EndRun, Exit, Die
  <2>2. CASE SameFibers /\ \A g \in FiberIds : Kin(g)
    BY <1>2, <2>1, <2>2 DEF SameFibers, Kin
  <2>3. CASE /\ \E kind \in {"sleeper", "instance"}, k \in Keys, i \in BOOLEAN :
                  Forks(Len(fiber) + 1, f, kind, k, i) /\ Parents(kind, fiber[f].kind)
             /\ fiber[f].pc # "dead" /\ \A g \in FiberIds : Kin(g)
    BY <1>2, <2>1, <2>3 DEF Forks, Kin
  <2>4. CASE SameFibers /\ Children(f) = {} /\ Gone(f) /\ \A g \in FiberIds \ {f} : Kin(g)
    BY <1>2, <2>1, <2>4 DEF SameFibers, Gone, Kin
  <2> QED
    BY <1>3, <2>2, <2>3, <2>4, KinSteps
<1>4. ASSUME Still, \A e \in Clients : ~ForkDriver(e), ~(\E f \in FiberIds : FiberStep(f))
      PROVE  OneDriver'
  <2>1. \A d \in FiberIds' : fiber'[d].pc # "dead" /\ fiber'[d].kind = "driver"
          => d \in FiberIds /\ fiber[d].pc # "dead" /\ fiber[d].kind = "driver"
    BY <1>4 DEF Still, SameFibers, Told
  <2>2. CASE UNCHANGED <<fiberRef, call>>
    BY <2>1, <2>2 DEF OneDriver
  <2>3. ASSUME NEW e \in Clients, QuietClient(e)
        PROVE  OneDriver'
    <3>1. CASE CallStart(e)
      <4>1. e = c /\ UNCHANGED fiberRef
            /\ call' = [call EXCEPT ![e].pc = IF fiberRef # 0 THEN "idle" ELSE "fork"]
        BY <3>1 DEF CallStart, Does
      <4>2. \A x \in Clients : x # e => call'[x] = call[x]
        BY <1>0, <4>1
      <4>3. call'[e].pc = IF fiberRef # 0 THEN "idle" ELSE "fork"
        BY <1>0, <4>1 DEF CallRec
      <4> QED
        BY <1>0, <2>1, <4>1, <4>2, <4>3 DEF OneDriver
    <3>2. CASE CallStop(e)
      <4>1. e = c /\ UNCHANGED fiberRef
            /\ call' \in {call, [call EXCEPT ![e].pc = "ending", ![e].target = fiberRef]}
        BY <3>2 DEF CallStop
      <4>2. \A x \in Clients : x # e => call'[x] = call[x]
        BY <1>0, <4>1
      <4>3. CASE call' = call
        BY <2>2, <4>1, <4>3
      <4>5. CASE call' = [call EXCEPT ![e].pc = "ending", ![e].target = fiberRef]
        <5>1. call'[e] = [call[e] EXCEPT !.pc = "ending", !.target = fiberRef]
          BY <1>0, <4>5
        <5>2. call'[e].pc = "ending" /\ call'[e].target = fiberRef
          BY <1>0, <5>1 DEF CallRec
        <5> QED
          BY <1>0, <2>1, <4>1, <4>2, <5>2 DEF OneDriver
      <4> QED
        BY <4>1, <4>3, <4>5
    <3>3. CASE CallMutate(e) \/ WriteEntries(e) \/ Notify(e)
      <4>1. UNCHANGED fiberRef /\ call[e].pc \in {"idle", "write", "notify"}
            /\ \/ \E r \in CallRec : call' = [call EXCEPT ![e] = r] /\ r.pc \in {"write", "notify"}
               \/ call' = [call EXCEPT ![e].pc = "idle"]
        <5>1. CASE CallMutate(e)
          <6>1. PICK next \in Mutations :
                  /\ Len(next) <= MaxEntries
                  /\ call' = [call EXCEPT ![e] = [Idle EXCEPT !.pc = "write", !.next = next]]
            BY <5>1 DEF CallMutate
          <6>2. next \in Schedules
            <7>1. entries \in Seq(Window)
              BY DEF TypeOK, Schedules
            <7> QED
              BY <6>1, <7>1, MutationsType DEF Schedules
          <6>3. PICK r : r = [Idle EXCEPT !.pc = "write", !.next = next]
            OBVIOUS
          <6>4. r \in CallRec /\ r.pc = "write"
            BY <6>2, <6>3 DEF Idle, CallRec
          <6> QED
            BY <5>1, <6>1, <6>3, <6>4 DEF CallMutate, Doing
        <5>2. CASE WriteEntries(e)
          <6>1. PICK r : r = [Idle EXCEPT !.pc = "notify"]
            OBVIOUS
          <6>2. <<>> \in Schedules
            BY NeverNumber DEF Schedules
          <6>3. r \in CallRec /\ r.pc = "notify"
            BY <6>1, <6>2 DEF Idle, CallRec
          <6> QED
            BY <5>2, <6>1, <6>3 DEF WriteEntries, Doing
        <5>3. CASE Notify(e)
          BY <5>3 DEF Notify, Doing, Does
        <5> QED
          BY <3>3, <5>1, <5>2, <5>3
      <4>2. \A x \in Clients : x # e => call'[x] = call[x]
        BY <1>0, <4>1
      <4>3. call'[e].pc \in {"write", "notify", "idle"}
        BY <1>0, <4>1 DEF CallRec
      <4> QED
        BY <1>0, <2>1, <4>1, <4>2, <4>3 DEF OneDriver
    <3>4. CASE AwaitDriver(e)
      <4>1. e = c /\ call[c].pc = "ending" /\ call' = [call EXCEPT ![e] = Idle] /\ fiberRef' = 0
            /\ fiber[call[c].target].pc = "dead"
        BY <3>4 DEF AwaitDriver, Doing, Live, OneDriver
      <4>2. call[c].target = fiberRef
        BY <4>1 DEF OneDriver
      <4>3. \A d \in FiberIds : fiber[d].kind = "driver" => fiber[d].pc = "dead"
        BY <4>1, <4>2 DEF OneDriver
      <4>4. \A x \in Clients : x # e => call'[x] = call[x]
        BY <1>0, <4>1
      <4>5. call'[e].pc = "idle"
        BY <1>0, <4>1 DEF Idle
      <4> QED
        BY <1>0, <2>1, <4>1, <4>3, <4>4, <4>5 DEF OneDriver
    <3> QED
      BY <2>3, <3>1, <3>2, <3>3, <3>4 DEF QuietClient
  <2>4. CASE Next
    <3>1. CASE Tick
      BY <2>2, <3>1 DEF Tick
    <3>2. ASSUME NEW e \in Clients, ClientCall(e) \/ ClientStep(e)
          PROVE  QuietClient(e)
      BY <1>4, <3>2 DEF ClientCall, ClientStep, QuietClient
    <3> QED
      BY <1>4, <2>3, <2>4, <3>1, <3>2 DEF Next
  <2>5. CASE UNCHANGED vars
    BY <2>2, <2>5 DEF vars
  <2> QED
    BY <2>4, <2>5
<1>5. ASSUME NEW f \in FiberIds, FiberStep(f)
      PROVE  FiberActs(f)
  BY <1>5 DEF FiberStep, FiberActs, InstanceStep
<1> QED
  BY <1>1, <1>3, <1>4, <1>5, Steps

----------------------------------------------------------------------------
(* What the maps and the counter know of the fibers.                          *)

Going(f) == fiber[f].pc \notin {"ending", "dead"}

InstancesKnown ==
    \A i \in FiberIds : fiber[i].kind = "instance" /\ Going(i) => runningByEntry[fiber[i].key] = i
SleepersKnown ==
    \A s \in FiberIds : fiber[s].kind = "sleeper" /\ Going(s) => pendingStarts[fiber[s].key] = s

(* A fiber that goes on went on, with what it had.                            *)
Stays(g) ==
    fiber'[g].pc \notin {"ending", "dead"} =>
        /\ Going(g)
        /\ fiber'[g].kind = fiber[g].kind /\ fiber'[g].parent = fiber[g].parent
        /\ fiber'[g].key = fiber[g].key

LEMMA ToldStays ==
    ASSUME NEW g, Told(g)
    PROVE  Stays(g)
BY DEF Told, Stays, Going

LEMMA AllStay ==
    ASSUME TypeOK, [Next]_vars
    PROVE  \A g \in FiberIds : Stays(g)
<1>1. CASE Still
  BY <1>1, ToldStays DEF Still
<1>2. ASSUME NEW c \in Clients, ForkDriver(c)
      PROVE  \A g \in FiberIds : Stays(g)
  BY <1>2, DriverForks, ToldStays
<1>3. ASSUME NEW f \in FiberIds, FiberActs(f)
      PROVE  \A g \in FiberIds : Stays(g)
  <2>1. CASE Begin(f) \/ PruneKeys(f) \/ ReadClock(f) \/ AwaitChange(f) \/ InstanceStep(f)
    <3>1. Moved(f) /\ fiber[f].pc \notin {"ending", "dead"}
      BY <2>1, BeginMoves, PruneMoves, ClockMoves, AwaitMoves, InstanceMoves
    <3> QED
      BY <3>1 DEF Moved, Stays, Going
  <2>2. CASE InterruptStale(f)
    <3>1. (\A g \in FiberIds \ {f} : Told(g)) /\ fiber'[f].kind = fiber[f].kind
          /\ fiber'[f].parent = fiber[f].parent /\ fiber'[f].key = fiber[f].key
          /\ fiber[f].pc \notin {"ending", "dead"}
      BY <2>2, SweepTells
    <3> QED
      BY <3>1, ToldStays DEF Stays, Going
  <2>3. CASE ReconcileEntry(f)
    BY <2>3, ReconcileForks, ToldStays
  <2>4. CASE Wake(f)
    <3>1. Waits(f) /\ \A g \in FiberIds \ {f} : Told(g)
      BY <2>4, WakeForks
    <3> QED
      BY <3>1, ToldStays DEF Stays, Waits
  <2>5. CASE Exit(f) \/ Die(f)
    <3>1. (\A g \in FiberIds \ {f} : Told(g)) /\ (Gone(f) \/ Waits(f))
      BY <2>5, ExitTells, DieTells
    <3> QED
      BY <3>1, ToldStays DEF Stays, Gone, Waits
  <2> QED
    BY <1>3, <2>1, <2>2, <2>3, <2>4, <2>5 DEF FiberActs
<1> QED
  BY <1>1, <1>2, <1>3, Steps

(* What a step does to runningByEntry and to pendingStarts.                   *)
LEMMA InstancesNext ==
    ASSUME TypeOK, InstancesKnown, [Next]_vars
    PROVE  InstancesKnown'
<1>0. runningByEntry \in [Keys -> Nat] /\ \A g \in FiberIds : Stays(g) /\ fiber[g].key \in Keys
  BY AllStay, FibersType DEF TypeOK, FiberRec
<1>1. ASSUME SameFibers, UNCHANGED runningByEntry
      PROVE  InstancesKnown'
  BY <1>0, <1>1 DEF InstancesKnown, SameFibers, Stays, Going
<1>a. ASSUME NEW n, NEW f, NEW kind, NEW k, NEW i, Forks(n, f, kind, k, i), kind # "instance",
             UNCHANGED runningByEntry
      PROVE  InstancesKnown'
  BY <1>0, <1>a DEF InstancesKnown, Forks, Stays, Going
<1>2. ASSUME NEW f, NEW k \in Keys, NEW i, Spawns(f, k, i)
      PROVE  InstancesKnown'
  <2>1. PICK n : n = Len(fiber) + 1
    OBVIOUS
  <2>2. /\ FiberIds' = FiberIds \cup {n} /\ n \notin FiberIds
        /\ fiber'[n].key = k /\ runningByEntry[k] = 0
        /\ runningByEntry' = [runningByEntry EXCEPT ![k] = n]
    BY <1>2, <2>1 DEF Spawns, Forks
  <2>3. \A g \in FiberIds : g # 0
    BY FibersType DEF TypeOK
  <2>4. runningByEntry'[k] = n
    BY <1>0, <2>2
  <2>5. ASSUME NEW g \in FiberIds, fiber'[g].kind = "instance", fiber'[g].pc \notin {"ending", "dead"}
        PROVE  runningByEntry'[fiber'[g].key] = g
    <3>1. runningByEntry[fiber[g].key] = g /\ fiber'[g].key = fiber[g].key
      BY <1>0, <2>5 DEF Stays, InstancesKnown
    <3>2. fiber[g].key # k
      BY <2>2, <2>3, <3>1
    <3> QED
      BY <1>0, <2>2, <3>1, <3>2
  <2> QED
    BY <2>2, <2>4, <2>5 DEF InstancesKnown, Going
<1>3. CASE Still
  BY <1>1, <1>3 DEF Still, maps
<1>4. ASSUME NEW c \in Clients, ForkDriver(c)
      PROVE  InstancesKnown'
  <2>1. Forks(Len(fiber) + 1, 0, "driver", SomeKey, FALSE) /\ UNCHANGED runningByEntry
    BY <1>4, DriverForks DEF ForkDriver, maps
  <2> QED
    BY <1>a, <2>1
<1>5. ASSUME NEW f \in FiberIds, FiberActs(f)
      PROVE  InstancesKnown'
  <2>1. CASE Begin(f) \/ PruneKeys(f) \/ ReadClock(f) \/ AwaitChange(f) \/ InstanceStep(f)
    <3>1. Moved(f)
      BY <2>1, BeginMoves, PruneMoves, ClockMoves, AwaitMoves, InstanceMoves
    <3>2. UNCHANGED runningByEntry
      BY <2>1 DEF Begin, PruneKeys, ReadClock, AwaitChange, InstanceStep, AwaitNextTick,
         FindsClosed, BeginRun, EndRun, maps
    <3> QED
      BY <1>1, <3>1, <3>2 DEF Moved, SameFibers
  <2>2. CASE InterruptStale(f) \/ Die(f)
    <3>1. SameFibers
      BY <2>2, SweepTells, DieTells
    <3>2. UNCHANGED runningByEntry
      BY <2>2 DEF InterruptStale, Die, maps
    <3> QED
      BY <1>1, <3>1, <3>2
  <2>3. CASE ReconcileEntry(f)
    <3>1. PICK k \in Keys :
            \/ SameFibers /\ UNCHANGED runningByEntry
            \/ Spawns(f, k, FALSE)
            \/ Postpones(f, k) /\ UNCHANGED runningByEntry
      BY <2>3, ReconcileForks
    <3>2. CASE Postpones(f, k) /\ UNCHANGED runningByEntry
      BY <1>a, <3>2 DEF Postpones
    <3> QED
      BY <1>1, <1>2, <3>1, <3>2
  <2>4. CASE Wake(f)
    <3>1. \/ SameFibers /\ UNCHANGED runningByEntry
          \/ Spawns(f, fiber[f].key, TRUE)
      BY <2>4, WakeForks
    <3> QED
      BY <1>0, <1>1, <1>2, <3>1
  <2>5. CASE Exit(f)
    <3>1. SameFibers /\ (Gone(f) \/ Waits(f)) /\ Going(f)
      BY <2>5, ExitTells DEF Going
    <3>2. CASE UNCHANGED runningByEntry
      BY <1>1, <3>1, <3>2
    <3>3. CASE ~UNCHANGED runningByEntry
      <4>1. fiber[f].kind = "instance"
            /\ runningByEntry' = [runningByEntry EXCEPT ![fiber[f].key] = 0]
        BY <2>5, <3>3 DEF Exit, Finalizer, maps
      <4>2. ASSUME NEW g \in FiberIds, fiber'[g].kind = "instance", fiber'[g].pc \notin {"ending", "dead"}
            PROVE  runningByEntry'[fiber'[g].key] = g
        <5>1. g # f
          BY <3>1, <4>2 DEF Gone, Waits
        <5>2. runningByEntry[fiber[g].key] = g /\ fiber'[g].key = fiber[g].key
              /\ runningByEntry[fiber[f].key] = f
          BY <1>0, <3>1, <4>1, <4>2 DEF Stays, InstancesKnown
        <5> QED
          BY <1>0, <4>1, <5>1, <5>2
      <4> QED
        BY <3>1, <4>2 DEF InstancesKnown, Going, SameFibers
    <3> QED
      BY <3>2, <3>3
  <2> QED
    BY <1>5, <2>1, <2>2, <2>3, <2>4, <2>5 DEF FiberActs
<1> QED
  BY <1>3, <1>4, <1>5, Steps

LEMMA SleepersNext ==
    ASSUME TypeOK, Roles, SleepersKnown, [Next]_vars
    PROVE  SleepersKnown'
<1>0. pendingStarts \in [Keys -> Nat] /\ \A g \in FiberIds : Stays(g) /\ fiber[g].key \in Keys
  BY AllStay, FibersType DEF TypeOK, FiberRec
<1>1. ASSUME SameFibers, UNCHANGED pendingStarts
      PROVE  SleepersKnown'
  BY <1>0, <1>1 DEF SleepersKnown, SameFibers, Stays, Going
<1>a. ASSUME NEW n, NEW f, NEW kind, NEW k, NEW i, Forks(n, f, kind, k, i), kind # "sleeper",
             UNCHANGED pendingStarts
      PROVE  SleepersKnown'
  BY <1>0, <1>a DEF SleepersKnown, Forks, Stays, Going
<1>2. ASSUME NEW f, NEW k \in Keys, Postpones(f, k)
      PROVE  SleepersKnown'
  <2>1. PICK n : n = Len(fiber) + 1
    OBVIOUS
  <2>2. /\ FiberIds' = FiberIds \cup {n} /\ n \notin FiberIds
        /\ fiber'[n].key = k /\ pendingStarts[k] = 0
        /\ pendingStarts' = [pendingStarts EXCEPT ![k] = n]
    BY <1>2, <2>1 DEF Postpones, Forks
  <2>3. \A g \in FiberIds : g # 0
    BY FibersType DEF TypeOK
  <2>4. pendingStarts'[k] = n
    BY <1>0, <2>2
  <2>5. ASSUME NEW g \in FiberIds, fiber'[g].kind = "sleeper", fiber'[g].pc \notin {"ending", "dead"}
        PROVE  pendingStarts'[fiber'[g].key] = g
    <3>1. pendingStarts[fiber[g].key] = g /\ fiber'[g].key = fiber[g].key
      BY <1>0, <2>5 DEF Stays, SleepersKnown
    <3>2. fiber[g].key # k
      BY <2>2, <2>3, <3>1
    <3> QED
      BY <1>0, <2>2, <3>1, <3>2
  <2> QED
    BY <2>2, <2>4, <2>5 DEF SleepersKnown, Going
(* A sleeper that stops going takes its own key off.                          *)
<1>3. ASSUME NEW f \in FiberIds, fiber[f].kind = "sleeper", Going(f), Waits(f) \/ Gone(f),
             pendingStarts' = [pendingStarts EXCEPT ![fiber[f].key] = 0],
             SameFibers \/ Spawns(f, fiber[f].key, TRUE)
      PROVE  SleepersKnown'
  <2>1. ASSUME NEW g \in FiberIds, fiber'[g].kind = "sleeper", fiber'[g].pc \notin {"ending", "dead"}
        PROVE  pendingStarts'[fiber'[g].key] = g
    <3>1. g # f
      BY <1>3, <2>1 DEF Gone, Waits
    <3>2. pendingStarts[fiber[g].key] = g /\ fiber'[g].key = fiber[g].key
          /\ pendingStarts[fiber[f].key] = f
      BY <1>0, <1>3, <2>1 DEF Stays, SleepersKnown
    <3> QED
      BY <1>0, <1>3, <3>1, <3>2
  <2>2. CASE SameFibers
    BY <2>1, <2>2 DEF SleepersKnown, Going, SameFibers
  <2>3. CASE Spawns(f, fiber[f].key, TRUE)
    <3>1. PICK n : n = Len(fiber) + 1
      OBVIOUS
    <3>2. FiberIds' = FiberIds \cup {n} /\ fiber'[n].kind = "instance"
      BY <2>3, <3>1 DEF Spawns, Forks
    <3> QED
      BY <2>1, <3>2 DEF SleepersKnown, Going
  <2> QED
    BY <1>3, <2>2, <2>3
<1>4. CASE Still
  BY <1>1, <1>4 DEF Still, maps
<1>5. ASSUME NEW c \in Clients, ForkDriver(c)
      PROVE  SleepersKnown'
  <2>1. Forks(Len(fiber) + 1, 0, "driver", SomeKey, FALSE) /\ UNCHANGED pendingStarts
    BY <1>5, DriverForks DEF ForkDriver, maps
  <2> QED
    BY <1>a, <2>1
<1>6. ASSUME NEW f \in FiberIds, FiberActs(f)
      PROVE  SleepersKnown'
  <2>1. CASE Begin(f) \/ PruneKeys(f) \/ ReadClock(f) \/ AwaitChange(f) \/ InstanceStep(f)
    <3>1. Moved(f)
      BY <2>1, BeginMoves, PruneMoves, ClockMoves, AwaitMoves, InstanceMoves
    <3>2. UNCHANGED pendingStarts
      BY <2>1 DEF Begin, PruneKeys, ReadClock, AwaitChange, InstanceStep, AwaitNextTick,
         FindsClosed, BeginRun, EndRun, maps
    <3> QED
      BY <1>1, <3>1, <3>2 DEF Moved, SameFibers
  <2>2. CASE InterruptStale(f) \/ Die(f)
    <3>1. SameFibers
      BY <2>2, SweepTells, DieTells
    <3>2. UNCHANGED pendingStarts
      BY <2>2 DEF InterruptStale, Die, maps
    <3> QED
      BY <1>1, <3>1, <3>2
  <2>3. CASE ReconcileEntry(f)
    <3>1. PICK k \in Keys :
            \/ SameFibers /\ UNCHANGED pendingStarts
            \/ Spawns(f, k, FALSE) /\ UNCHANGED pendingStarts
            \/ Postpones(f, k)
      BY <2>3, ReconcileForks
    <3>2. CASE Spawns(f, k, FALSE) /\ UNCHANGED pendingStarts
      BY <1>a, <3>2 DEF Spawns
    <3> QED
      BY <1>1, <1>2, <3>1, <3>2
  <2>4. CASE Wake(f)
    <3>1. /\ fiber[f].pc = "sleep" /\ Waits(f)
          /\ pendingStarts' = [pendingStarts EXCEPT ![fiber[f].key] = 0]
          /\ SameFibers \/ Spawns(f, fiber[f].key, TRUE)
      BY <2>4, WakeForks
    <3>2. fiber[f].kind = "sleeper" /\ Going(f)
      <4>1. Role(fiber[f])
        BY DEF Roles
      <4> QED
        BY <3>1, <4>1 DEF Role, DriverSteps, InstanceSteps, Going
    <3> QED
      BY <1>3, <3>1, <3>2
  <2>5. CASE Exit(f)
    <3>1. SameFibers /\ (Gone(f) \/ Waits(f)) /\ Going(f)
      BY <2>5, ExitTells DEF Going
    <3>2. CASE UNCHANGED pendingStarts
      BY <1>1, <3>1, <3>2
    <3>3. CASE ~UNCHANGED pendingStarts
      <4>1. fiber[f].kind = "sleeper"
            /\ pendingStarts' = [pendingStarts EXCEPT ![fiber[f].key] = 0]
        BY <2>5, <3>3 DEF Exit, Finalizer, maps
      <4> QED
        BY <1>3, <3>1, <4>1
    <3> QED
      BY <3>2, <3>3
  <2> QED
    BY <1>6, <2>1, <2>2, <2>3, <2>4, <2>5 DEF FiberActs
<1> QED
  BY <1>4, <1>5, <1>6, Steps

----------------------------------------------------------------------------
(* What a driver still has to sweep: while it sweeps, a sleeper of its own    *)
(* whose window is gone is on its list; afterwards there is none.              *)
Swept(d, s) ==
    fiber[s].parent = d /\ fiber[s].kind = "sleeper" /\ Going(s) =>
        /\ fiber[d].pc \in {"sweep", "swept"} =>
             fiber[s].key \in KeysIn(fiber[d].snap) \/ s \in fiber[d].stale
        /\ fiber[d].pc \in {"each", "wait"} => fiber[s].key \in KeysIn(fiber[d].snap)
SweepKnows == \A d, s \in FiberIds : Swept(d, s)

LEMMA SweepNext ==
    ASSUME TypeOK, Roles, SleepersKnown, SweepKnows, [Next]_vars
    PROVE  SweepKnows'
<1> DEFINE Same(d) ==
      fiber'[d].pc \in {"sweep", "swept", "each", "wait"} =>
        /\ fiber'[d].pc = fiber[d].pc /\ fiber'[d].snap = fiber[d].snap
        /\ fiber'[d].stale = fiber[d].stale
<1>0. \A g \in FiberIds : Stays(g)
  BY AllStay
<1>1. \A d, s \in FiberIds : Same(d) => Swept(d, s)'
  BY <1>0 DEF SweepKnows, Swept, Stays, Going
<1>2. \A g \in FiberIds : Told(g) => Same(g)
  BY DEF Told
<1> HIDE DEF Same
<1>3. ASSUME NEW n, NEW f, NEW kind \in {"driver", "sleeper", "instance"}, NEW k, NEW i,
             Forks(n, f, kind, k, i),
             \A g \in FiberIds : Same(g),
             kind = "sleeper" => \A d \in FiberIds' : Swept(d, n)'
      PROVE  SweepKnows'
  <2>1. FiberIds' = FiberIds \cup {n} /\ fiber'[n].pc \in {"read", "forked"}
        /\ fiber'[n].kind = kind
    BY <1>3 DEF Forks
  <2>2. \A s \in FiberIds' : Swept(n, s)'
    BY <2>1 DEF Swept
  <2>3. \A d \in FiberIds' : Swept(d, n)'
    BY <1>3, <2>1 DEF Swept
  <2>4. \A d, s \in FiberIds : Swept(d, s)'
    BY <1>1, <1>3
  <2> QED
    BY <2>1, <2>2, <2>3, <2>4 DEF SweepKnows
<1>4. ASSUME SameFibers, \A d, s \in FiberIds : Swept(d, s)'
      PROVE  SweepKnows'
  BY <1>4 DEF SweepKnows, SameFibers
<1>5. ASSUME SameFibers, \A g \in FiberIds : Same(g)
      PROVE  SweepKnows'
  BY <1>1, <1>4, <1>5
<1>6. CASE Still
  BY <1>2, <1>5, <1>6 DEF Still
<1>7. ASSUME NEW c \in Clients, ForkDriver(c)
      PROVE  SweepKnows'
  BY <1>2, <1>3, <1>7, DriverForks
<1>8. ASSUME NEW f \in FiberIds, FiberActs(f)
      PROVE  SweepKnows'
  (* f goes on; its own sleepers are to be looked at.                        *)
  <2>0. ASSUME SameFibers, \A g \in FiberIds \ {f} : Same(g), \A s \in FiberIds : Swept(f, s)'
        PROVE  SweepKnows'
    BY <1>1, <1>4, <2>0
  <2>1. CASE Begin(f) \/ InstanceStep(f)
    <3>1. Moved(f) /\ fiber'[f].pc \notin {"sweep", "swept", "each", "wait"}
      BY <2>1, BeginMoves, InstanceMoves
    <3>2. Same(f)
      BY <3>1 DEF Same
    <3>3. \A g \in FiberIds \ {f} : Same(g)
      BY <3>1 DEF Same, Moved
    <3> QED
      BY <1>5, <3>1, <3>2, <3>3 DEF Moved, SameFibers
  <2>2. CASE PruneKeys(f)
    <3>1. PICK S : S = {pendingStarts[k] : k \in Keys \ KeysIn(entries)} \ {0}
      OBVIOUS
    <3>2. /\ Moved(f) /\ fiber'[f].pc = "sweep" /\ fiber'[f].snap = entries
          /\ fiber'[f].stale = S
      BY <2>2, <3>1, PruneMoves
    <3>3. ASSUME NEW s \in FiberIds, fiber'[s].parent = f, fiber'[s].kind = "sleeper",
                 fiber'[s].pc \notin {"ending", "dead"}
          PROVE  fiber'[s].key \in KeysIn(entries) \/ s \in S
      <4>1. fiber'[s].key = fiber[s].key /\ pendingStarts[fiber[s].key] = s
        BY <1>0, <3>3 DEF Stays, SleepersKnown
      <4>2. fiber[s].key \in Keys /\ s # 0
        <5>1. fiber[s] \in FiberRec /\ s \in Nat /\ s > 0
          BY FibersType DEF TypeOK
        <5> QED
          BY <5>1 DEF FiberRec
      <4> QED
        BY <3>1, <4>1, <4>2
    <3>4. \A s \in FiberIds : Swept(f, s)'
      BY <3>2, <3>3 DEF Swept, Going
    <3>5. \A g \in FiberIds \ {f} : Same(g)
      BY <3>2 DEF Same, Moved
    <3> QED
      BY <2>0, <3>2, <3>4, <3>5 DEF Moved, SameFibers
  <2>3. CASE InterruptStale(f)
    <3>1. /\ SameFibers /\ \A g \in FiberIds \ {f} : Told(g)
          /\ fiber'[f].snap = fiber[f].snap
          /\ fiber[f].pc \in {"sweep", "swept"} /\ fiber'[f].pc \in {"sweep", "swept"}
          /\ \/ fiber'[f].stale = fiber[f].stale
             \/ fiber'[f].stale = fiber[f].stale \ {fiber[f].other} /\ ~Live(fiber[f].other)
      BY <2>3, SweepTells
    <3>2. ASSUME NEW s \in FiberIds, fiber'[s].parent = f, fiber'[s].kind = "sleeper",
                 fiber'[s].pc \notin {"ending", "dead"}
          PROVE  fiber'[s].key \in KeysIn(fiber'[f].snap) \/ s \in fiber'[f].stale
      <4>1. fiber'[s].key = fiber[s].key /\ fiber[s].parent = f /\ fiber[s].kind = "sleeper"
            /\ Going(s)
        BY <1>0, <3>2 DEF Stays
      <4>2. fiber[s].key \in KeysIn(fiber[f].snap) \/ s \in fiber[f].stale
        BY <3>1, <4>1 DEF SweepKnows, Swept
      <4>3. ~Live(fiber[f].other) => s # fiber[f].other
        BY <4>1 DEF Live, Going
      <4> QED
        BY <3>1, <4>1, <4>2, <4>3
    <3>3. \A s \in FiberIds : Swept(f, s)'
      BY <3>1, <3>2 DEF Swept, Going
    <3> QED
      BY <1>2, <2>0, <3>1, <3>3
  <2>4. CASE ReadClock(f)
    <3>1. /\ Moved(f) /\ fiber[f].pc = "sweep" /\ fiber[f].stale = {} /\ fiber'[f].pc = "each"
          /\ fiber'[f].snap = fiber[f].snap
      BY <2>4, ClockMoves
    <3>2. \A s \in FiberIds : Swept(f, s)'
      BY <1>0, <3>1 DEF SweepKnows, Swept, Stays, Going
    <3>3. \A g \in FiberIds \ {f} : Same(g)
      BY <3>1 DEF Same, Moved
    <3> QED
      BY <2>0, <3>1, <3>2, <3>3 DEF Moved, SameFibers
  <2>5. CASE AwaitChange(f)
    <3>1. /\ Moved(f) /\ fiber'[f].snap = fiber[f].snap
          /\ \/ fiber[f].pc = "each" /\ fiber'[f].pc = "wait"
             \/ fiber[f].pc = "wait" /\ fiber'[f].pc = "read"
      BY <2>5, AwaitMoves
    <3>2. \A s \in FiberIds : Swept(f, s)'
      BY <1>0, <3>1 DEF SweepKnows, Swept, Stays, Going
    <3>3. \A g \in FiberIds \ {f} : Same(g)
      BY <3>1 DEF Same, Moved
    <3> QED
      BY <2>0, <3>1, <3>2, <3>3 DEF Moved, SameFibers
  <2>6. CASE ReconcileEntry(f)
    <3>1. fiber[f].pc = "each" /\ \A g \in FiberIds : Told(g)
      BY <2>6, ReconcileForks
    <3>2. PICK k \in Keys :
            /\ k \in KeysIn(fiber[f].snap)
            /\ SameFibers \/ Spawns(f, k, FALSE) \/ Postpones(f, k)
      BY <2>6, ReconcileForks
    <3>3. CASE SameFibers
      BY <1>2, <1>5, <3>1, <3>3
    <3>4. CASE Spawns(f, k, FALSE)
      <4>1. Forks(Len(fiber) + 1, f, "instance", k, FALSE)
        BY <3>4 DEF Spawns
      <4> QED
        BY <1>2, <1>3, <3>1, <4>1
    <3>5. CASE Postpones(f, k)
      <4>1. PICK n : n = Len(fiber) + 1
        OBVIOUS
      <4>2. Forks(n, f, "sleeper", k, FALSE)
        BY <3>5, <4>1 DEF Postpones
      <4>3. fiber'[n].parent = f /\ fiber'[n].key = k
        BY <4>2 DEF Forks
      <4>4. fiber'[f].pc = "each" /\ fiber'[f].snap = fiber[f].snap
        BY <3>1 DEF Told
      <4>5. \A d \in FiberIds' : Swept(d, n)'
        BY <3>2, <4>3, <4>4 DEF Swept
      <4> QED
        BY <1>2, <1>3, <3>1, <4>2, <4>5
    <3> QED
      BY <3>2, <3>3, <3>4, <3>5
  <2>7. CASE Wake(f)
    <3>1. /\ \A g \in FiberIds \ {f} : Told(g)
          /\ Waits(f)
          /\ SameFibers \/ Spawns(f, fiber[f].key, TRUE)
      BY <2>7, WakeForks
    <3>2. Same(f)
      BY <3>1 DEF Same, Waits
    <3>3. CASE SameFibers
      BY <1>2, <1>5, <3>1, <3>2, <3>3
    <3>4. CASE Spawns(f, fiber[f].key, TRUE)
      <4>1. Forks(Len(fiber) + 1, f, "instance", fiber[f].key, TRUE)
        BY <3>4 DEF Spawns
      <4> QED
        BY <1>2, <1>3, <3>1, <3>2, <4>1
    <3> QED
      BY <3>1, <3>3, <3>4
  <2>8. CASE Exit(f) \/ Die(f)
    <3>1. SameFibers /\ (\A g \in FiberIds \ {f} : Told(g)) /\ (Gone(f) \/ Waits(f))
      BY <2>8, ExitTells, DieTells
    <3>2. Same(f)
      BY <3>1 DEF Same, Gone, Waits
    <3> QED
      BY <1>2, <1>5, <3>1, <3>2
  <2> QED
    BY <1>8, <2>1, <2>2, <2>3, <2>4, <2>5, <2>6, <2>7, <2>8 DEF FiberActs
<1> QED
  BY <1>6, <1>7, <1>8, Steps

----------------------------------------------------------------------------
(* A key whose effect has run is completed or has an instance on record, and   *)
(* an instance that is still to run it has not.                               *)
MayRun(i) ==
    fiber[i].kind = "instance"
    /\ (fiber[i].pc = "check" \/ (fiber[i].pc = "forked" /\ ~fiber[i].intr))
BegunOnce == \A k \in Keys : begun[k] <= 1
BegunKnown ==
    /\ \A k \in Keys : begun[k] > 0 => k \in completedEntries \/ runningByEntry[k] # 0
    /\ \A i \in FiberIds : MayRun(i) => begun[fiber[i].key] = 0
    /\ \A i \in FiberIds : fiber[i].pc # "tick"
RunsOnce == ~polling => BegunOnce /\ BegunKnown

LEMMA RunsOnceNext ==
    ASSUME TypeOK, Roles, InstancesKnown, RunsOnce, [Next]_vars
    PROVE  RunsOnce'
<1>0. /\ runningByEntry \in [Keys -> Nat] /\ begun \in [Keys -> Nat]
      /\ \A g \in FiberIds : fiber[g] \in FiberRec /\ fiber[g].key \in Keys /\ g # 0
  <2>1. \A g \in FiberIds : fiber[g] \in FiberRec /\ g # 0
    BY FibersType DEF TypeOK
  <2> QED
    BY <2>1 DEF TypeOK, FiberRec
<1>1. UNCHANGED polling
  BY DEF Next, ClientCall, ClientStep, FiberStep, Tick, vars, CallStart, CallStop, CallMutate,
     WriteEntries, Notify, ForkDriver, AwaitDriver, Begin, PruneKeys, InterruptStale, ReadClock,
     ReconcileEntry, AwaitChange, Wake, AwaitNextTick, FindsClosed, BeginRun, EndRun, Exit, Die
<1> SUFFICES ASSUME ~polling, BegunOnce, BegunKnown PROVE BegunOnce' /\ BegunKnown'
  BY <1>1 DEF RunsOnce
(* g is no nearer to a run than it was.                                       *)
<1> DEFINE Calm(g) ==
      /\ fiber'[g].kind = "instance" /\ (fiber'[g].pc = "check" \/ (fiber'[g].pc = "forked" /\ ~fiber'[g].intr))
           => MayRun(g) /\ fiber'[g].key = fiber[g].key
      /\ fiber'[g].pc # "tick"
<1>2. \A g \in FiberIds : Told(g) => Calm(g)
  BY DEF Told, MayRun, Live, BegunKnown
<1>3. ASSUME SameFibers, \A g \in FiberIds : Calm(g), UNCHANGED begun,
             \A k \in Keys : k \in completedEntries \/ runningByEntry[k] # 0
                 => k \in completedEntries' \/ runningByEntry'[k] # 0
      PROVE  BegunOnce' /\ BegunKnown'
  BY <1>3 DEF BegunOnce, BegunKnown, MayRun, SameFibers
<1>4. ASSUME NEW n, NEW f, NEW kind, NEW k \in Keys, NEW i, Forks(n, f, kind, k, i),
             kind # "instance" \/ i = TRUE \/ begun[k] = 0,
             \A g \in FiberIds : Calm(g), UNCHANGED begun,
             \A j \in Keys : j \in completedEntries \/ runningByEntry[j] # 0
                 => j \in completedEntries' \/ runningByEntry'[j] # 0
      PROVE  BegunOnce' /\ BegunKnown'
  <2>1. /\ FiberIds' = FiberIds \cup {n}
        /\ fiber'[n].kind = kind /\ fiber'[n].key = k /\ fiber'[n].intr = i
        /\ fiber'[n].pc \in {"read", "forked"}
    BY <1>4 DEF Forks
  <2>2. MayRun(n)' => begun'[fiber'[n].key] = 0
    BY <1>4, <2>1 DEF MayRun
  <2>3. \A g \in FiberIds : MayRun(g)' => begun'[fiber'[g].key] = 0
    BY <1>4 DEF MayRun, BegunKnown
  <2>4. \A g \in FiberIds' : fiber'[g].pc # "tick"
    BY <1>4, <2>1
  <2>5. BegunOnce'
    BY <1>4 DEF BegunOnce
  <2>6. \A j \in Keys : begun'[j] > 0 => j \in completedEntries' \/ runningByEntry'[j] # 0
    BY <1>4 DEF BegunKnown
  <2> QED
    BY <2>1, <2>2, <2>3, <2>4, <2>5, <2>6 DEF BegunKnown
<1> HIDE DEF Calm
<1>5. CASE Still
  BY <1>2, <1>3, <1>5 DEF Still, maps
<1>6. ASSUME NEW c \in Clients, ForkDriver(c)
      PROVE  BegunOnce' /\ BegunKnown'
  <2>1. /\ Forks(Len(fiber) + 1, 0, "driver", SomeKey, FALSE)
        /\ \A g \in FiberIds : Told(g)
    BY <1>6, DriverForks
  <2>2. UNCHANGED <<maps, begun>>
    BY <1>6 DEF ForkDriver
  <2> QED
    BY <1>2, <1>4, <2>1, <2>2, SomeKeyType DEF maps
<1>7. ASSUME NEW f \in FiberIds, FiberActs(f)
      PROVE  BegunOnce' /\ BegunKnown'
  <2>a. Role(fiber[f])
    BY DEF Roles
  <2>1. CASE Begin(f)
    <3>1. /\ Moved(f) /\ fiber[f].pc = "forked" /\ ~fiber[f].intr
          /\ fiber'[f].pc = IF fiber[f].kind = "sleeper" THEN "sleep" ELSE "check"
      BY <2>1, BeginMoves
    <3>2. Calm(f)
      BY <3>1 DEF Moved, Calm, MayRun
    <3>3. \A g \in FiberIds \ {f} : Calm(g)
      BY <3>1 DEF Moved, Calm, MayRun, BegunKnown
    <3> QED
      BY <1>3, <2>1, <3>1, <3>2, <3>3 DEF Begin, Moved, SameFibers, maps
  <2>2. CASE PruneKeys(f)
    <3>1. Moved(f) /\ fiber'[f].pc = "sweep"
      BY <2>2, PruneMoves
    <3>2. /\ completedEntries' = completedEntries \cap KeysIn(entries)
          /\ begun' = [k \in Keys |-> IF k \in KeysIn(entries) THEN begun[k] ELSE 0]
          /\ UNCHANGED runningByEntry
      BY <2>2 DEF PruneKeys, StillListed
    <3>3. BegunOnce'
      BY <1>0, <3>2 DEF BegunOnce
    <3>4. \A k \in Keys : begun'[k] > 0 => k \in completedEntries' \/ runningByEntry'[k] # 0
      BY <1>0, <3>2 DEF BegunKnown
    <3>5. \A g \in FiberIds : Calm(g)
      BY <3>1 DEF Moved, Calm, MayRun, BegunKnown
    <3>6. \A g \in FiberIds' : MayRun(g)' => begun'[fiber'[g].key] = 0
      BY <1>0, <3>1, <3>2, <3>5 DEF Moved, Calm, MayRun, BegunKnown
    <3> QED
      BY <3>1, <3>3, <3>4, <3>5, <3>6 DEF BegunKnown, Moved, Calm
  <2>3. CASE ReadClock(f) \/ AwaitChange(f)
    <3>1. Moved(f) /\ fiber'[f].pc \in {"each", "wait", "read"}
      BY <2>3, ClockMoves, AwaitMoves
    <3>2. \A g \in FiberIds : Calm(g)
      BY <3>1 DEF Moved, Calm, MayRun, BegunKnown
    <3>3. UNCHANGED <<maps, begun>>
      BY <2>3 DEF ReadClock, AwaitChange
    <3> QED
      BY <1>3, <3>1, <3>2, <3>3 DEF Moved, SameFibers, maps
  <2>4. CASE InterruptStale(f)
    <3>1. SameFibers /\ (\A g \in FiberIds \ {f} : Told(g)) /\ fiber'[f].pc \in {"sweep", "swept"}
      BY <2>4, SweepTells
    <3>2. Calm(f)
      BY <3>1 DEF Calm
    <3>3. UNCHANGED <<maps, begun>>
      BY <2>4 DEF InterruptStale
    <3> QED
      BY <1>2, <1>3, <3>1, <3>2, <3>3 DEF maps
  <2>5. CASE ReconcileEntry(f)
    <3>1. (\A g \in FiberIds : Calm(g)) /\ UNCHANGED begun
      BY <1>2, <2>5, ReconcileForks DEF ReconcileEntry
    <3>2. PICK k \in Keys :
            \/ /\ SameFibers
               /\ UNCHANGED <<pendingStarts, runningByEntry, activeInstances>>
               /\ completedEntries' \in {completedEntries, completedEntries \cup {k}}
            \/ /\ Spawns(f, k, FALSE) /\ k \notin completedEntries
               /\ UNCHANGED <<pendingStarts, completedEntries>>
            \/ /\ Postpones(f, k)
               /\ UNCHANGED <<runningByEntry, completedEntries, activeInstances>>
      BY <2>5, ReconcileForks
    <3>3. CASE /\ SameFibers
               /\ UNCHANGED <<pendingStarts, runningByEntry, activeInstances>>
               /\ completedEntries' \in {completedEntries, completedEntries \cup {k}}
      BY <1>3, <3>1, <3>3
    <3>4. CASE /\ Spawns(f, k, FALSE) /\ k \notin completedEntries
               /\ UNCHANGED <<pendingStarts, completedEntries>>
      <4>1. PICK n : n = Len(fiber) + 1
        OBVIOUS
      <4>2. Forks(n, f, "instance", k, FALSE) /\ runningByEntry[k] = 0
            /\ runningByEntry' = [runningByEntry EXCEPT ![k] = n]
        BY <3>4, <4>1 DEF Spawns
      <4>3. n # 0
        <5>1. Len(fiber) \in Nat
          BY FibersType DEF TypeOK
        <5> QED
          BY <4>1, <5>1
      <4>4. begun[k] = 0
        BY <1>0, <3>4, <4>2 DEF BegunKnown
      <4>5. \A j \in Keys : runningByEntry[j] # 0 => runningByEntry'[j] # 0
        BY <1>0, <4>2, <4>3
      <4> QED
        BY <1>4, <3>1, <3>4, <4>2, <4>4, <4>5
    <3>5. CASE /\ Postpones(f, k)
               /\ UNCHANGED <<runningByEntry, completedEntries, activeInstances>>
      <4>1. Forks(Len(fiber) + 1, f, "sleeper", k, FALSE)
        BY <3>5 DEF Postpones
      <4> QED
        BY <1>4, <3>1, <3>5, <4>1
    <3> QED
      BY <3>2, <3>3, <3>4, <3>5
  <2>6. CASE Wake(f)
    <3>1. /\ \A g \in FiberIds \ {f} : Told(g)
          /\ Waits(f) /\ fiber[f].key \in Keys
          /\ UNCHANGED completedEntries
          /\ \/ SameFibers /\ UNCHANGED <<activeInstances, runningByEntry>>
             \/ Spawns(f, fiber[f].key, TRUE)
      BY <2>6, WakeForks
    <3>2. UNCHANGED begun
      BY <2>6 DEF Wake
    <3>3. Calm(f)
      BY <3>1 DEF Calm, Waits
    <3>4. \A g \in FiberIds : Calm(g)
      BY <1>2, <3>1, <3>3
    <3>5. CASE SameFibers /\ UNCHANGED <<activeInstances, runningByEntry>>
      BY <1>3, <3>1, <3>2, <3>4, <3>5
    <3>6. CASE Spawns(f, fiber[f].key, TRUE)
      <4>1. PICK n, k : n = Len(fiber) + 1 /\ k = fiber[f].key
        OBVIOUS
      <4>2. Forks(n, f, "instance", k, TRUE)
            /\ runningByEntry' = [runningByEntry EXCEPT ![k] = n]
        BY <3>6, <4>1 DEF Spawns
      <4>3. n # 0
        <5>1. Len(fiber) \in Nat
          BY FibersType DEF TypeOK
        <5> QED
          BY <4>1, <5>1
      <4>5. \A j \in Keys : runningByEntry[j] # 0 => runningByEntry'[j] # 0
        BY <1>0, <4>2, <4>3
      <4> QED
        BY <1>4, <3>1, <3>2, <3>4, <4>1, <4>2, <4>5
    <3> QED
      BY <3>1, <3>5, <3>6
  <2>7. CASE InstanceStep(f)
    <3>1. /\ Moved(f) /\ fiber[f].pc \in {"check", "tick", "running"}
          /\ fiber'[f].pc \in {"over", "running"}
      BY <2>7, InstanceMoves
    <3>2. \A g \in FiberIds \ {f} : Calm(g)
      BY <3>1 DEF Moved, Calm, MayRun, BegunKnown
    <3>3. Calm(f)
      BY <3>1 DEF Calm
    <3>4. UNCHANGED maps
      BY <2>7 DEF InstanceStep, AwaitNextTick, FindsClosed, BeginRun, EndRun
    <3>5. CASE UNCHANGED begun
      BY <1>3, <3>1, <3>2, <3>3, <3>4, <3>5 DEF Moved, SameFibers, maps
    <3>6. CASE ~UNCHANGED begun
      <4>1. PICK k : k = fiber[f].key
        OBVIOUS
      <4>2. k \in Keys /\ begun' = [begun EXCEPT ![k] = @ + 1] /\ fiber[f].pc = "check"
        <5>1. BeginRun(f)
          BY <2>7, <3>6 DEF InstanceStep, AwaitNextTick, FindsClosed, BeginRun, EndRun
        <5> QED
          BY <1>0, <4>1, <5>1 DEF BeginRun, At
      <4>3. fiber[f].kind = "instance" /\ Going(f)
        <5>1. fiber[f].kind \in {"driver", "sleeper", "instance"}
          BY <1>0 DEF FiberRec
        <5> QED
          BY <2>a, <4>2, <5>1 DEF Role, DriverSteps, SleeperSteps, Going
      <4>4. begun[k] = 0 /\ runningByEntry[k] = f
        BY <4>1, <4>2, <4>3 DEF MayRun, BegunKnown, InstancesKnown
      <4>5. begun' = [begun EXCEPT ![k] = 1]
        BY <1>0, <4>2, <4>4
      <4>6. BegunOnce'
        BY <1>0, <4>5 DEF BegunOnce
      <4>7. \A j \in Keys : begun'[j] > 0 => j \in completedEntries' \/ runningByEntry'[j] # 0
        BY <1>0, <3>4, <4>4, <4>5 DEF BegunKnown, maps
      <4>8. ASSUME NEW g \in FiberIds, MayRun(g)'
            PROVE  begun'[fiber'[g].key] = 0
        <5>1. g # f
          BY <3>1, <4>8 DEF MayRun
        <5>2. MayRun(g) /\ fiber'[g].key = fiber[g].key
          BY <3>2, <4>8, <5>1 DEF Calm, MayRun
        <5>3. begun[fiber[g].key] = 0 /\ runningByEntry[fiber[g].key] = g
          BY <5>2 DEF BegunKnown, InstancesKnown, MayRun, Going
        <5>4. fiber[g].key # k
          BY <4>4, <5>1, <5>3
        <5> QED
          BY <1>0, <4>5, <5>2, <5>3, <5>4
      <4>9. \A g \in FiberIds : fiber'[g].pc # "tick"
        BY <3>2, <3>3 DEF Calm
      <4>10. FiberIds' = FiberIds
        BY <3>1 DEF Moved
      <4> QED
        BY <4>6, <4>7, <4>8, <4>9, <4>10 DEF BegunKnown
    <3> QED
      BY <3>5, <3>6
  <2>8. CASE Exit(f) \/ Die(f)
    <3>1. SameFibers /\ (\A g \in FiberIds \ {f} : Told(g)) /\ (Gone(f) \/ Waits(f))
      BY <2>8, ExitTells, DieTells
    <3>2. Calm(f)
      BY <3>1 DEF Calm, Gone, Waits
    <3>3. UNCHANGED begun
      BY <2>8 DEF Exit, Die
    <3>4. \/ UNCHANGED <<runningByEntry, completedEntries>>
          \/ /\ runningByEntry' = [runningByEntry EXCEPT ![fiber[f].key] = 0]
             /\ completedEntries' = completedEntries \cup {fiber[f].key}
      BY <2>8 DEF Exit, Die, Finalizer, maps
    <3>5. \A k \in Keys : k \in completedEntries \/ runningByEntry[k] # 0
                 => k \in completedEntries' \/ runningByEntry'[k] # 0
      BY <1>0, <3>4
    <3> QED
      BY <1>2, <1>3, <3>1, <3>2, <3>3, <3>5
  <2> QED
    BY <1>7, <2>1, <2>2, <2>3, <2>4, <2>5, <2>6, <2>7, <2>8 DEF FiberActs
<1> QED
  BY <1>5, <1>6, <1>7, Steps

----------------------------------------------------------------------------
(* The counter and the instances whose finalizer has not run.                 *)

Working == {f \in FiberIds : fiber[f].kind = "instance" /\ Going(f)}
Accounted == activeInstances = aborted + Cardinality(Working)

LEMMA AccountedNext ==
    ASSUME TypeOK, Roles, Accounted, [Next]_vars
    PROVE  Accounted'
<1>0. /\ activeInstances \in Nat /\ aborted \in Nat
      /\ IsFiniteSet(FiberIds)
      /\ \A g \in FiberIds : fiber[g].kind \in {"driver", "sleeper", "instance"}
  <2>1. FiberIds = 1 .. Len(fiber) /\ Len(fiber) \in Nat /\ \A g \in FiberIds : fiber[g] \in FiberRec
    BY FibersType DEF TypeOK
  <2>2. IsFiniteSet(1 .. Len(fiber))
    BY <2>1, FS_Interval
  <2> QED
    BY <2>1, <2>2 DEF TypeOK, FiberRec
<1>1. PICK W : W = Working
  OBVIOUS
<1>2. IsFiniteSet(W) /\ Cardinality(W) \in Nat /\ activeInstances = aborted + Cardinality(W)
  BY <1>0, <1>1, FS_Subset, FS_CardinalityType DEF Working, Accounted
<1>3. \A g \in FiberIds : g \in W <=> fiber[g].kind = "instance" /\ Going(g)
  BY <1>1 DEF Working
<1>4. ASSUME Working' = W, UNCHANGED <<activeInstances, aborted>>
      PROVE  Accounted'
  BY <1>2, <1>4 DEF Accounted
<1> DEFINE Works(g) == fiber'[g].kind = "instance" /\ fiber'[g].pc \notin {"ending", "dead"}
<1>5. Working' = {g \in FiberIds' : Works(g)}
  BY DEF Working, Going
<1>6. \A g \in FiberIds : Told(g) => (Works(g) <=> g \in W)
  BY <1>3 DEF Told, Going
<1>a. W \subseteq FiberIds
  BY <1>1 DEF Working
<1> HIDE DEF Works
<1>7. ASSUME SameFibers, \A g \in FiberIds : Works(g) <=> g \in W
      PROVE  Working' = W
  BY <1>5, <1>7, <1>a DEF SameFibers
<1>8. ASSUME NEW n, NEW f, NEW kind, NEW k, NEW i, Forks(n, f, kind, k, i), kind # "instance",
             \A g \in FiberIds : Works(g) <=> g \in W
      PROVE  Working' = W
  BY <1>5, <1>8, <1>a DEF Forks, Works
<1>9. ASSUME NEW f, NEW k, NEW i, Spawns(f, k, i), \A g \in FiberIds : Works(g) <=> g \in W,
             UNCHANGED aborted
      PROVE  Accounted'
  <2>1. PICK n : n = Len(fiber) + 1
    OBVIOUS
  <2>2. FiberIds' = FiberIds \cup {n} /\ n \notin FiberIds /\ fiber'[n].kind = "instance"
        /\ fiber'[n].pc = "forked" /\ activeInstances' = activeInstances + 1
    BY <1>9, <2>1 DEF Spawns, Forks
  <2>3. Working' = W \cup {n} /\ n \notin W
    BY <1>5, <1>9, <1>a, <2>2 DEF Works
  <2>4. Cardinality(W \cup {n}) = Cardinality(W) + 1
    BY <1>2, <2>3, FS_AddElement
  <2> QED
    BY <1>0, <1>2, <1>9, <2>2, <2>3, <2>4 DEF Accounted
<1>10. CASE Still
  BY <1>4, <1>6, <1>7, <1>10 DEF Still
<1>11. ASSUME NEW c \in Clients, ForkDriver(c)
       PROVE  Accounted'
  <2>1. Forks(Len(fiber) + 1, 0, "driver", SomeKey, FALSE) /\ \A g \in FiberIds : Told(g)
    BY <1>11, DriverForks
  <2>2. Working' = W
    BY <1>6, <1>8, <2>1
  <2> QED
    BY <1>4, <1>11, <2>2 DEF ForkDriver
<1>12. ASSUME NEW f \in FiberIds, FiberActs(f)
       PROVE  Accounted'
  <2>0. Role(fiber[f])
    BY DEF Roles
  <2>1. CASE Begin(f) \/ PruneKeys(f) \/ ReadClock(f) \/ AwaitChange(f) \/ InstanceStep(f)
    <3>1. Moved(f)
      BY <2>1, BeginMoves, PruneMoves, ClockMoves, AwaitMoves, InstanceMoves
    <3>2. fiber[f].pc \notin {"ending", "dead"} /\ fiber'[f].pc \notin {"ending", "dead"}
      BY <2>1, BeginMoves, PruneMoves, ClockMoves, AwaitMoves, InstanceMoves
    <3>3. \A g \in FiberIds : Works(g) <=> g \in W
      BY <1>3, <3>1, <3>2 DEF Moved, Works, Going
    <3>4. UNCHANGED <<activeInstances, aborted>>
      BY <2>1 DEF Begin, PruneKeys, ReadClock, AwaitChange, InstanceStep, AwaitNextTick,
         FindsClosed, BeginRun, EndRun
    <3> QED
      BY <1>4, <1>7, <3>1, <3>3, <3>4 DEF Moved, SameFibers
  <2>2. CASE InterruptStale(f)
    <3>1. SameFibers /\ (\A g \in FiberIds \ {f} : Told(g)) /\ fiber'[f].kind = fiber[f].kind
          /\ fiber[f].pc \in {"sweep", "swept"} /\ fiber'[f].pc \in {"sweep", "swept"}
      BY <2>2, SweepTells
    <3>2. Works(f) <=> f \in W
      BY <1>3, <3>1 DEF Works, Going
    <3> QED
      BY <1>4, <1>6, <1>7, <2>2, <3>1, <3>2 DEF InterruptStale
  <2>3. CASE ReconcileEntry(f)
    <3>1. (\A g \in FiberIds : Works(g) <=> g \in W) /\ UNCHANGED aborted
      BY <1>6, <2>3, ReconcileForks DEF ReconcileEntry
    <3>2. PICK k \in Keys :
            \/ SameFibers /\ UNCHANGED activeInstances
            \/ Spawns(f, k, FALSE)
            \/ Postpones(f, k) /\ UNCHANGED activeInstances
      BY <2>3, ReconcileForks
    <3>3. CASE SameFibers /\ UNCHANGED activeInstances
      BY <1>4, <1>7, <3>1, <3>3
    <3>4. CASE Postpones(f, k) /\ UNCHANGED activeInstances
      <4>1. Forks(Len(fiber) + 1, f, "sleeper", k, FALSE)
        BY <3>4 DEF Postpones
      <4>2. Working' = W
        BY <1>8, <3>1, <4>1
      <4> QED
        BY <1>4, <3>1, <3>4, <4>2
    <3> QED
      BY <1>9, <3>1, <3>2, <3>3, <3>4
  <2>4. CASE Wake(f)
    <3>1. /\ fiber[f].pc = "sleep" /\ \A g \in FiberIds \ {f} : Told(g)
          /\ Waits(f)
          /\ \/ SameFibers /\ UNCHANGED activeInstances
             \/ Spawns(f, fiber[f].key, TRUE)
      BY <2>4, WakeForks
    <3>2. fiber[f].kind = "sleeper"
      BY <1>0, <2>0, <3>1 DEF Role, DriverSteps, InstanceSteps
    <3>3. Works(f) <=> f \in W
      BY <1>3, <3>1, <3>2 DEF Works, Waits
    <3>4. \A g \in FiberIds : Works(g) <=> g \in W
      BY <1>6, <3>1, <3>3
    <3>5. UNCHANGED aborted
      BY <2>4 DEF Wake
    <3> QED
      BY <1>4, <1>7, <1>9, <3>1, <3>4, <3>5
  <2>5. CASE Die(f)
    <3>1. SameFibers /\ (\A g \in FiberIds \ {f} : Told(g)) /\ fiber[f].pc = "ending" /\ Gone(f)
      BY <2>5, DieTells
    <3>2. Works(f) <=> f \in W
      BY <1>3, <3>1 DEF Works, Gone, Going
    <3> QED
      BY <1>4, <1>6, <1>7, <2>5, <3>1, <3>2 DEF Die
  <2>6. CASE Exit(f)
    <3>1. SameFibers /\ (\A g \in FiberIds \ {f} : Told(g)) /\ (Gone(f) \/ Waits(f)) /\ Going(f)
      BY <2>6, ExitTells DEF Going
    <3>2. ~Works(f)
      BY <3>1 DEF Works, Gone, Waits
    <3>3. CASE fiber[f].kind = "instance"
      <4>1. f \in W /\ Working' = W \ {f}
        <5>1. f \in W
          BY <1>3, <3>1, <3>3
        <5>2. \A g \in FiberIds : Works(g) <=> g \in W \ {f}
          BY <1>6, <3>1, <3>2
        <5> QED
          BY <1>5, <1>a, <3>1, <5>1, <5>2 DEF SameFibers
      <4>2. Cardinality(W \ {f}) = Cardinality(W) - 1 /\ Cardinality(W \ {f}) \in Nat
        BY <1>2, <4>1, FS_RemoveElement, FS_CardinalityType
      <4>3. \/ aborted' = aborted + 1 /\ activeInstances' = activeInstances
            \/ aborted' = aborted /\ activeInstances' = activeInstances - 1
        <5>1. activeInstances > 0
          BY <1>0, <1>2, <4>2
        <5>2. CASE fiber[f].pc = "forked"
          BY <2>6, <3>3, <5>2 DEF Exit
        <5>3. CASE fiber[f].pc # "forked"
          BY <2>6, <3>3, <5>1, <5>3 DEF Exit, Finalizer
        <5> QED
          BY <5>2, <5>3
      <4> QED
        BY <1>0, <1>2, <4>1, <4>2, <4>3 DEF Accounted
    <3>4. CASE fiber[f].kind # "instance"
      <4>1. Works(f) <=> f \in W
        BY <1>3, <3>2, <3>4
      <4>2. Working' = W
        BY <1>6, <1>7, <3>1, <4>1
      <4>3. UNCHANGED <<activeInstances, aborted>>
        <5>1. CASE fiber[f].pc = "forked"
          <6>1. aborted' = aborted + 0 /\ UNCHANGED activeInstances
            BY <2>6, <3>4, <5>1 DEF Exit
          <6> QED
            BY <1>0, <6>1
        <5>2. CASE fiber[f].pc # "forked"
          BY <2>6, <3>4, <5>2 DEF Exit, Finalizer
        <5> QED
          BY <5>1, <5>2
      <4> QED
        BY <1>4, <4>2, <4>3
    <3> QED
      BY <3>3, <3>4
  <2> QED
    BY <1>12, <2>1, <2>2, <2>3, <2>4, <2>5, <2>6 DEF FiberActs
<1> QED
  BY <1>10, <1>11, <1>12, Steps

----------------------------------------------------------------------------
(* The supervisor's theorems.                                                *)

Supervised ==
    TypeOK /\ Roles /\ Family /\ InstancesKnown /\ SleepersKnown /\ SweepKnows /\ RunsOnce /\ Accounted

LEMMA InitSupervised == Init => Supervised
<1> SUFFICES ASSUME Init PROVE Supervised
  OBVIOUS
<1>1. TypeOK
  BY TypeInit
<1>2. PICK r : r = NewFiber("driver", 0, SomeKey)
  OBVIOUS
<1>3. r.kind = "driver" /\ r.pc = "read"
  BY <1>2 DEF NewFiber
<1>4. FiberIds = {1} /\ fiber[1] = r
  BY <1>2 DEF Init, FiberIds
<1>5. Roles /\ Family /\ InstancesKnown /\ SleepersKnown /\ SweepKnows
  BY <1>3, <1>4 DEF Roles, Role, DriverSteps, Family, InstancesKnown, SleepersKnown,
     SweepKnows, Swept
<1>6. RunsOnce
  BY <1>3, <1>4 DEF Init, RunsOnce, BegunOnce, BegunKnown, MayRun
<1>7. Accounted
  <2>1. Working = {}
    BY <1>3, <1>4 DEF Working
  <2> QED
    BY <2>1, FS_EmptySet DEF Init, Accounted
<1> QED
  BY <1>1, <1>5, <1>6, <1>7 DEF Supervised

LEMMA NextSupervised == Supervised /\ [Next]_vars => Supervised'
BY TypeNext, RolesNext, FamilyNext, InstancesNext, SleepersNext, SweepNext, RunsOnceNext,
   AccountedNext DEF Supervised

LEMMA SupervisedInvariant == Spec => []Supervised
<1>1. Init => Supervised
  BY InitSupervised
<1>2. Supervised /\ [Next]_vars => Supervised'
  BY NextSupervised
<1> QED
  BY <1>1, <1>2, PTL DEF Spec

(* activeInstances counts the instances that live, and for good those that    *)
(* were interrupted before their first step.                                  *)
THEOREM EveryInstanceCounted == Spec => []InstanceAccounting
<1>1. Supervised => InstanceAccounting
  <2>1. Working = {f \in Instances : fiber[f].pc \notin {"ending", "dead"}}
    BY DEF Working, Instances, Going
  <2> QED
    BY <2>1 DEF Supervised, Accounted, InstanceAccounting
<1> QED
  BY <1>1, SupervisedInvariant, PTL

(* While a key stays in the schedule its effect is run at most once without a   *)
(* polling layer, for any number of drivers, edits, starts and stops.           *)
THEOREM EachKeyRunsOnce == Spec => []OncePerKey
<1>1. Supervised => OncePerKey
  BY DEF Supervised, RunsOnce, BegunOnce, OncePerKey
<1> QED
  BY <1>1, SupervisedInvariant, PTL

(* A driver that waits for the next change has no sleeper left for a window    *)
(* that was gone when it last read the schedule.                              *)
THEOREM SleepersSwept == Spec => []NoGhostSleepers
<1>1. Supervised => NoGhostSleepers
  BY DEF Supervised, SweepKnows, Swept, NoGhostSleepers, Children, At, Going
<1> QED
  BY <1>1, SupervisedInvariant, PTL

(* With one controller, once stop has returned nothing of the process is left  *)
(* until the next start. (With two, both may find no driver and fork one each.) *)
THEOREM StopLeavesNothing ==
    ASSUME NEW c \in Controllers, Controllers = {c}
    PROVE  Spec => []StopStops
<1>1. Init => Supervised /\ OneDriver
  <2>1. ASSUME Init PROVE OneDriver
    <3>1. FiberIds = {1} /\ fiberRef = 1
      BY <2>1 DEF Init, FiberIds
    <3>2. \A e \in Clients : call[e].pc = "idle"
      BY <2>1 DEF Init, Idle
    <3> QED
      BY <3>1, <3>2 DEF OneDriver, Clients
  <2> QED
    BY <2>1, InitSupervised
<1>2. Supervised /\ OneDriver /\ [Next]_vars => (Supervised /\ OneDriver)'
  BY NextSupervised, OneDriverNext DEF Supervised
<1>3. Supervised /\ OneDriver => StopStops
  <2> SUFFICES ASSUME Supervised, OneDriver, fiberRef = 0, NEW f \in FiberIds, fiber[f].pc # "dead"
               PROVE  FALSE
    BY DEF StopStops, Live
  <2>1. \A g \in FiberIds : g # 0
    BY FibersType DEF Supervised, TypeOK
  <2>2. \A g \in FiberIds : fiber[g].kind = "driver" => fiber[g].pc = "dead"
    BY <2>1 DEF OneDriver
  <2>3. \A g \in FiberIds : fiber[g].kind = "sleeper" => fiber[g].pc = "dead"
    BY <2>2 DEF Supervised, Family, Parents
  <2> QED
    BY <2>2, <2>3 DEF Supervised, Family, Parents
<1> QED
  BY <1>1, <1>2, <1>3, PTL DEF Spec

----------------------------------------------------------------------------
RunLabels == {"again", "arm", "read", "sleep", "check", "after", "gone", "idle", "begin",
           "prior", "effect", "record", "zero", "get", "wake"}

RunTypes ==
    /\ preset \in Presets /\ durable \in BOOLEAN /\ mixed \in BOOLEAN
    /\ pc \in [Fibers -> RunLabels] /\ op \in [Callers -> {"run", "wake", "reset"}]
    /\ wakeRef \in Loops \cup {NoWait}
    /\ held \in [Callers -> Loops \cup {NoWait}]
    /\ woken \in [Loops -> BOOLEAN] /\ DOMAIN waits = Loops
    /\ due \subseteq Loops
    /\ mirror \in [started : Nat, ended : [Statuses -> Nat]]
    /\ startup \in [Fibers -> BOOLEAN] /\ outcome \in [Fibers -> Statuses]
    /\ seq \in Nat /\ life \in Nat \ {0} /\ broken \in Nat
    /\ untold \in [Statuses -> Nat]

(* A caller is in the handler that it called.                                *)
CallersCall ==
    \A c \in Callers :
        /\ pc[c] = "zero" => op[c] = "reset" /\ Paced
        /\ pc[c] \in {"get", "wake"} => op[c] \in {"wake", "reset"}

(* Who arms a wait is not due: nothing is left of the wait before.           *)
SleepersWait ==
    \A i \in Loops : waits[i] # NoWait \/ i \in due => pc[i] = "sleep"

Heard == RunTypes /\ CallersCall /\ SleepersWait /\ ResetHeard

----------------------------------------------------------------------------
LEMMA InitHeard == ASSUME RunsInit PROVE Heard
<1>1. /\ pc \in [Fibers -> RunLabels]
      /\ mirror \in [started : Nat, ended : [Statuses -> Nat]]
      /\ untold \in [Statuses -> Nat] /\ outcome \in [Fibers -> Statuses]
  BY DEF RunsInit, Launched, RunLabels, NoRuns, NoCounts, Statuses
<1>2. RunTypes
  <2>1. DOMAIN waits = Loops /\ op \in [Callers -> {"run", "wake", "reset"}]
    BY DEF RunsInit
  <2>2. /\ woken \in [Loops -> BOOLEAN] /\ startup \in [Fibers -> BOOLEAN]
        /\ held \in [Callers -> Loops \cup {NoWait}]
    BY DEF RunsInit
  <2>3. /\ wakeRef \in Loops \cup {NoWait} /\ due \subseteq Loops
        /\ seq \in Nat /\ life \in Nat \ {0} /\ broken \in Nat
    BY DEF RunsInit
  <2>4. preset \in Presets /\ durable \in BOOLEAN /\ mixed \in BOOLEAN
    BY Zenon DEF RunsInit
  <2> QED
    BY <1>1, <2>1, <2>2, <2>3, <2>4 DEF RunTypes
<1>3. CallersCall /\ SleepersWait /\ ResetHeard
  BY RunsAssumption DEF RunsInit, Launched, Fibers, CallersCall, SleepersWait, ResetHeard, Paced
<1> QED
  BY <1>2, <1>3 DEF Heard

LEMMA LoopSteps ==
    ASSUME Heard, NEW i \in Loops,
           \/ canContinue(i) \/ Arm(i) \/ ReadCadence(i) \/ Sleep(i) \/ AfterTick(i)
    PROVE  Heard'
<1> USE DEF Heard
<1> i \in Fibers /\ i \notin Callers
  BY RunsAssumption DEF Fibers
<1>1. CASE canContinue(i)
  <2>1. RunTypes'
    BY <1>1 DEF canContinue, RunTypes, Goes, awaitNextTick, pollVars, tracking, storeVars, bounds,
                RunLabels
  <2>2. pc[i] \in {"again", "check"} /\ \E label \in RunLabels : Goes(i, label)
    BY <1>1 DEF canContinue, awaitNextTick, RunLabels
  <2>3. CallersCall' /\ SleepersWait' /\ ResetHeard'
    BY <1>1, <2>2 DEF canContinue, RunTypes, Goes, pollVars, CallersCall, SleepersWait,
                      ResetHeard, Paced
  <2> QED BY <2>1, <2>3
<1>2. CASE Arm(i)
  <2>1. RunTypes'
    BY <1>2 DEF Arm, RunTypes, Goes, awaitNextTick, tracking, storeVars, bounds, RunLabels
  <2>2. CallersCall' /\ SleepersWait' /\ ResetHeard'
    BY <1>2 DEF Arm, RunTypes, Goes, awaitNextTick, CallersCall, SleepersWait, ResetHeard, Paced
  <2> QED BY <2>1, <2>2
<1>3. CASE ReadCadence(i)
  <2>1. RunTypes'
    BY <1>3 DEF ReadCadence, RunTypes, Goes, awaitNextTick, tracking, storeVars, bounds, RunLabels
  <2>2. CallersCall' /\ SleepersWait' /\ ResetHeard'
    BY <1>3 DEF ReadCadence, RunTypes, Goes, awaitNextTick, CallersCall, SleepersWait,
                ResetHeard, Paced
  <2> QED BY <2>1, <2>2
<1>4. CASE Sleep(i)
  <2>1. RunTypes'
    BY <1>4 DEF Sleep, RunTypes, Goes, tracking, storeVars, bounds, RunLabels
  <2>2. CallersCall' /\ SleepersWait' /\ ResetHeard'
    BY <1>4 DEF Sleep, RunTypes, Goes, CallersCall, SleepersWait, ResetHeard, Paced
  <2> QED BY <2>1, <2>2
<1>5. CASE AfterTick(i)
  <2>1. RunTypes'
    BY <1>5 DEF AfterTick, RunTypes, Goes, tracking, storeVars, bounds, RunLabels
  <2>2. CallersCall' /\ SleepersWait' /\ ResetHeard'
    BY <1>5 DEF AfterTick, RunTypes, Goes, CallersCall, SleepersWait, ResetHeard, Paced
  <2> QED BY <2>1, <2>2
<1> QED
  BY <1>1, <1>2, <1>3, <1>4, <1>5

LEMMA RunSteps ==
    ASSUME Heard, NEW f \in Fibers,
           StartRun(f) \/ Prior(f) \/ RunEffect(f) \/ Record(f)
    PROVE  Heard'
<1> USE DEF Heard
<1>1. CASE StartRun(f)
  <2>1. RunTypes'
    BY <1>1 DEF StartRun, RunTypes, Goes, pollVars, storeVars, RunLabels
  <2>2. CallersCall' /\ SleepersWait' /\ ResetHeard'
    BY <1>1 DEF StartRun, RunTypes, Goes, pollVars, CallersCall, SleepersWait, ResetHeard, Paced
  <2> QED BY <2>1, <2>2
<1>2. CASE Prior(f)
  <2>1. RunTypes'
    BY <1>2 DEF Prior, RunTypes, Goes, pollVars, storeVars, RunLabels
  <2>2. CallersCall' /\ SleepersWait' /\ ResetHeard'
    BY <1>2 DEF Prior, RunTypes, Goes, pollVars, CallersCall, SleepersWait, ResetHeard, Paced
  <2> QED BY <2>1, <2>2
<1>3. CASE RunEffect(f)
  <2>1. RunTypes'
    BY <1>3 DEF RunEffect, RunTypes, Goes, pollVars, storeVars, bounds, RunLabels
  <2>2. CallersCall' /\ SleepersWait' /\ ResetHeard'
    BY <1>3 DEF RunEffect, RunTypes, Goes, pollVars, CallersCall, SleepersWait, ResetHeard, Paced
  <2> QED BY <2>1, <2>2
<1>4. CASE Record(f)
  <2>1. RunTypes'
    BY <1>4 DEF Record, RunTypes, Goes, pollVars, RunLabels, Statuses
  <2>2. CallersCall' /\ SleepersWait' /\ ResetHeard'
    BY <1>4 DEF Record, RunTypes, Goes, pollVars, CallersCall, SleepersWait, ResetHeard, Paced
  <2> QED BY <2>1, <2>2
<1> QED
  BY <1>1, <1>2, <1>3, <1>4

LEMMA CallerSteps ==
    ASSUME Heard, NEW c \in Callers,
           Call(c) \/ ResetCadence(c) \/ GetWake(c) \/ CompleteWake(c)
    PROVE  Heard'
<1> USE DEF Heard
<1> c \in Fibers /\ c \notin Loops
  BY RunsAssumption DEF Fibers
<1>1. CASE Call(c)
  <2>1. PICK o \in {"run", "wake", "reset"} :
          op' = [op EXCEPT ![c] = o] /\ Goes(c, Handler(o).call)
    BY <1>1 DEF Call
  <2>2. /\ Handler(o).call \in {"begin", "get", "zero"}
        /\ Handler(o).call = "zero" => o = "reset" /\ Paced
        /\ Handler(o).call = "get" => o \in {"wake", "reset"}
    BY DEF Handler, runImmediately, requestWake, resetCadence
  <2>3. RunTypes'
    BY <1>1, <2>1, <2>2 DEF Call, RunTypes, Goes, pollVars, tracking, storeVars, RunLabels
  <2>4. CallersCall'
    BY <1>1, <2>1, <2>2 DEF Call, RunTypes, Goes, CallersCall, Paced
  <2>5. SleepersWait' /\ ResetHeard'
    BY <1>1, <2>1, <2>2 DEF Call, RunTypes, Goes, pollVars, SleepersWait, ResetHeard
  <2> QED BY <2>3, <2>4, <2>5
<1>2. CASE ResetCadence(c)
  <2>1. op[c] = "reset" /\ resetCadence.zero = "get"
    BY <1>2 DEF ResetCadence, CallersCall, resetCadence
  <2>2. RunTypes'
    BY <1>2, <2>1 DEF ResetCadence, RunTypes, Goes, tracking, storeVars, bounds, RunLabels
  <2>3. CallersCall'
    BY <1>2, <2>1 DEF ResetCadence, RunTypes, Goes, CallersCall, Paced
  <2>4. SleepersWait' /\ ResetHeard'
    BY <1>2, <2>1 DEF ResetCadence, RunTypes, Goes, SleepersWait, ResetHeard
  <2> QED BY <2>2, <2>3, <2>4
<1>3. CASE GetWake(c)
  <2>1. Handler(op[c]).get = "wake" /\ op[c] \in {"wake", "reset"}
    BY <1>3 DEF GetWake, CallersCall, Handler, requestWake, resetCadence
  <2>2. RunTypes'
    BY <1>3, <2>1 DEF GetWake, RunTypes, Goes, tracking, storeVars, bounds, RunLabels
  <2>3. CallersCall' /\ SleepersWait' /\ ResetHeard'
    BY <1>3, <2>1 DEF GetWake, RunTypes, Goes, CallersCall, SleepersWait, ResetHeard, Paced
  <2> QED BY <2>2, <2>3
<1>4. CASE CompleteWake(c)
  <2>1. Handler(op[c]).wake = "idle"
    BY <1>4 DEF CompleteWake, CallersCall, Handler, requestWake, resetCadence
  <2>2. RunTypes'
    BY <1>4, <2>1 DEF CompleteWake, RunTypes, Goes, tracking, storeVars, bounds, RunLabels
  <2>3. CallersCall' /\ SleepersWait'
    BY <1>4, <2>1 DEF CompleteWake, RunTypes, Goes, CallersCall, SleepersWait, Paced
  <2>4. SUFFICES ASSUME NEW i \in Loops, i \in due, wakeRef = i
                PROVE  \/ woken'[i]
                       \/ \E d \in Callers :
                            /\ op'[d] = "reset"
                            /\ pc'[d] = "get" \/ (pc'[d] = "wake" /\ held'[d] = i)
    BY <1>4, <2>2, <2>3 DEF CompleteWake, RunTypes, ResetHeard
  <2>5. CASE woken[i] \/ held[c] = i
    BY <1>4, <2>5, Zenon DEF CompleteWake
  <2>6. CASE ~(woken[i] \/ held[c] = i)
    <3>1. PICK d \in Callers : /\ op[d] = "reset"
                               /\ pc[d] = "get" \/ (pc[d] = "wake" /\ held[d] = i)
      BY <2>4, <2>6 DEF ResetHeard
    <3>2. d # c
      BY <1>4, <2>6, <3>1 DEF CompleteWake
    <3> QED
      BY <1>4, <3>1, <3>2 DEF CompleteWake, RunTypes, Goes
  <2> QED BY <2>5, <2>6
<1> QED
  BY <1>1, <1>2, <1>3, <1>4

LEMMA InterruptStep ==
    ASSUME Heard, NEW f \in Fibers, Interrupt(f)
    PROVE  Heard'
<1> USE DEF Heard
<1>1. RunTypes'
  BY DEF Interrupt, RunTypes, Goes, RunLabels, Fibers
<1>2. CASE f \in Callers
  <2>1. f \notin Loops
    BY <1>2, RunsAssumption
  <2>2. CallersCall' /\ SleepersWait'
    BY <1>2, <2>1 DEF Interrupt, RunTypes, Goes, CallersCall, SleepersWait, Paced
  <2>3. ResetHeard'
    BY <1>2, <2>1 DEF Interrupt, RunTypes, Goes, ResetHeard
  <2> QED BY <1>1, <2>2, <2>3
<1>3. CASE f \notin Callers
  <2>1. CallersCall' /\ SleepersWait'
    BY <1>3 DEF Interrupt, RunTypes, Goes, CallersCall, SleepersWait, Paced
  <2>2. ResetHeard'
    BY <1>3 DEF Interrupt, RunTypes, Goes, ResetHeard
  <2> QED BY <1>1, <2>1, <2>2
<1> QED
  BY <1>2, <1>3

LEMMA RestartStep == ASSUME Heard, Restart PROVE Heard'
<1>1. /\ pc' \in [Fibers -> RunLabels]
      /\ mirror' \in [started : Nat, ended : [Statuses -> Nat]]
      /\ untold' \in [Statuses -> Nat] /\ outcome' \in [Fibers -> Statuses]
  BY DEF Restart, Launched, RunLabels, NoRuns, NoCounts, Statuses
<1>2. /\ DOMAIN waits' = Loops /\ op' \in [Callers -> {"run", "wake", "reset"}]
      /\ woken' \in [Loops -> BOOLEAN] /\ startup' \in [Fibers -> BOOLEAN]
      /\ held' \in [Callers -> Loops \cup {NoWait}]
  BY DEF Restart
<1>3. /\ preset' \in Presets /\ durable' \in BOOLEAN /\ mixed' \in BOOLEAN
      /\ wakeRef' \in Loops \cup {NoWait} /\ due' \subseteq Loops
      /\ seq' \in Nat /\ life' \in Nat \ {0} /\ broken' \in Nat
  BY DEF Restart, Heard, RunTypes
<1>4. RunTypes'
  BY <1>1, <1>2, <1>3 DEF RunTypes
<1>5. CallersCall' /\ SleepersWait' /\ ResetHeard'
  BY RunsAssumption DEF Restart, Launched, Fibers, CallersCall, SleepersWait, ResetHeard
<1> QED
  BY <1>4, <1>5 DEF Heard

LEMMA NextHeard == Heard /\ [RunsNext]_runVars => Heard'
<1> SUFFICES ASSUME Heard, [RunsNext]_runVars PROVE Heard'
  OBVIOUS
<1>1. ASSUME UNCHANGED runVars PROVE Heard'
  BY <1>1 DEF runVars, pollVars, tracking, storeVars, bounds, Heard, RunTypes, CallersCall,
              SleepersWait, ResetHeard, Paced
<1> QED
  BY <1>1, LoopSteps, RunSteps, CallerSteps, InterruptStep, RestartStep DEF RunsNext

LEMMA HeardInvariant == RunsSpec => []Heard
BY InitHeard, NextHeard, PTL DEF RunsSpec

(* For any number of instances and callers: the wait that was armed last     *)
(* does not sleep on with an interval from before a reset (resetCadence and  *)
(* awaitNextTick of Polling.ts).                                             *)
THEOREM ResetReachesLastWait == RunsSpec => []ResetHeard
<1>1. Heard => ResetHeard
  BY DEF Heard
<1> QED
  BY HeardInvariant, <1>1, PTL

----------------------------------------------------------------------------
(* Counters and rows.                                                        *)
Running == {f \in Fibers : pc[f] \in {"prior", "effect"}}
Writing(s) == {f \in Fibers : pc[f] = "record" /\ outcome[f] = s}
RowsOf(s) == {r \in rows : r.id[1] = s}

(* Ids are numbered by seq, which is why no write is refused in a first life. *)
Numbered == \A r \in rows : \E s \in Statuses, n \in 1 .. seq : r.id = executionId(s, n)

Counted ==
    /\ mirror.started = mirror.ended["completed"] + mirror.ended["failed"] + broken
                           + Cardinality(Running)
    /\ \A s \in Statuses :
         mirror.ended[s] = Cardinality(RowsOf(s)) + untold[s] + Cardinality(Writing(s))

(* A run that found no rows is the only one, and there are none yet.         *)
OnlyOne == \A f, g \in Fibers : UnderWay(f) /\ UnderWay(g) => f = g
FindsNothing ==
    \A f \in Fibers : pc[f] \in {"effect", "record"} /\ startup[f] => rows = {}
OneStartup == \A q, r \in rows : q.startup /\ r.startup => q = r
Alone == ~mixed => OnlyOne /\ FindsNothing /\ OneStartup

Noted ==
    /\ RunTypes /\ IsFiniteSet(rows)
    /\ life = 1 \/ ~durable => Numbered /\ Counted
    /\ Alone

(* A set that differs from another in one element at most.                   *)
One(b) == IF b THEN 1 ELSE 0

LEMMA OneMoves ==
    ASSUME NEW S, NEW T, NEW c, IsFiniteSet(S), IsFiniteSet(T), S \ {c} = T \ {c}
    PROVE  /\ Cardinality(S) \in Nat /\ Cardinality(T) \in Nat
           /\ Cardinality(T) = Cardinality(S) + One(c \in T) - One(c \in S)
<1>1. Cardinality(S) \in Nat /\ Cardinality(T) \in Nat
  BY FS_CardinalityType
<1>2. Cardinality(S \ {c}) = IF c \in S THEN Cardinality(S) - 1 ELSE Cardinality(S)
  BY FS_RemoveElement
<1>3. Cardinality(T \ {c}) = IF c \in T THEN Cardinality(T) - 1 ELSE Cardinality(T)
  BY FS_RemoveElement
<1> QED
  BY <1>1, <1>2, <1>3 DEF One

(* A step of one fiber moves that fiber only.                                *)
Elsewhere(f) ==
    \A g \in Fibers \ {f} : pc'[g] = pc[g] /\ outcome'[g] = outcome[g]

LEMMA RunningMoves ==
    ASSUME NEW f \in Fibers, Elsewhere(f)
    PROVE  /\ Cardinality(Running) \in Nat /\ Cardinality(Running') \in Nat
           /\ Cardinality(Running') =
                Cardinality(Running) + One(f \in Running') - One(f \in Running)
<1>1. IsFiniteSet(Running) /\ IsFiniteSet(Running')
  <2>1. Running \subseteq Fibers /\ Running' \subseteq Fibers
    BY DEF Running
  <2> QED
    BY <2>1, FS_Subset, RunsAssumption
<1>2. Running \ {f} = Running' \ {f}
  BY DEF Elsewhere, Running
<1> QED
  BY <1>1, <1>2, OneMoves

LEMMA WritingMoves ==
    ASSUME NEW f \in Fibers, Elsewhere(f), NEW s
    PROVE  /\ Cardinality(Writing(s)) \in Nat /\ Cardinality(Writing(s)') \in Nat
           /\ Cardinality(Writing(s)') =
                Cardinality(Writing(s)) + One(f \in Writing(s)') - One(f \in Writing(s))
<1>1. IsFiniteSet(Writing(s)) /\ IsFiniteSet(Writing(s)')
  <2>1. Writing(s) \subseteq Fibers /\ Writing(s)' \subseteq Fibers
    BY DEF Writing
  <2> QED
    BY <2>1, FS_Subset, RunsAssumption
<1>2. Writing(s) \ {f} = Writing(s)' \ {f}
  BY DEF Elsewhere, Writing
<1> QED
  BY <1>1, <1>2, OneMoves

LEMMA RowsCounted ==
    ASSUME IsFiniteSet(rows), NEW s
    PROVE  IsFiniteSet(RowsOf(s)) /\ Cardinality(RowsOf(s)) \in Nat
<1>1. RowsOf(s) \subseteq rows
  BY DEF RowsOf
<1> QED
  BY <1>1, FS_Subset, FS_CardinalityType

(* A step of a fiber that is in no run.                                      *)
Quiet(f) ==
    /\ Elsewhere(f)
    /\ pc[f] \notin {"prior", "effect", "record"}
    /\ pc'[f] \notin {"prior", "effect", "record"}
    /\ UNCHANGED <<outcome, startup, mirror, rows, untold, broken, mixed, life, durable, seq>>

LEMMA QuietStep ==
    ASSUME Noted, NEW f \in Fibers, Quiet(f), RunTypes'
    PROVE  Noted'
<1>1. Running' = Running /\ \A s : Writing(s)' = Writing(s) /\ RowsOf(s)' = RowsOf(s)
  BY DEF Quiet, Elsewhere, Running, Writing, RowsOf
<1>2. life' = 1 \/ ~durable' => Numbered' /\ Counted'
  BY <1>1 DEF Quiet, Noted, Numbered, Counted
<1>3. \A g \in Fibers : \/ pc'[g] = pc[g]
                       \/ /\ pc[g] \notin {"prior", "effect", "record"}
                          /\ pc'[g] \notin {"prior", "effect", "record"}
  BY DEF Quiet, Elsewhere
<1>4. Alone'
  <2>1. rows' = rows /\ startup' = startup /\ mixed' = mixed /\ Alone
    BY DEF Quiet, Noted
  <2>2. OnlyOne => OnlyOne'
    BY <1>3 DEF OnlyOne, UnderWay
  <2>3. FindsNothing => FindsNothing'
    BY <1>3, <2>1 DEF FindsNothing
  <2>4. OneStartup => OneStartup'
    BY <2>1 DEF OneStartup
  <2> QED
    BY <2>1, <2>2, <2>3, <2>4 DEF Alone
<1> QED
  BY <1>2, <1>4 DEF Quiet, Noted

LEMMA BeginStep ==
    ASSUME Noted, RunTypes', NEW f \in Fibers, StartRun(f)
    PROVE  Noted'
<1>1. /\ pc[f] = "begin" /\ pc'[f] = "prior" /\ Elsewhere(f)
      /\ outcome' = outcome /\ rows' = rows /\ startup' = startup
      /\ UNCHANGED <<seq, untold, broken, life, durable>>
  BY DEF StartRun, Goes, Noted, RunTypes, Elsewhere, storeVars
<1>2. life' = 1 \/ ~durable' => Numbered' /\ Counted'
  <2>1. Cardinality(Running') = Cardinality(Running) + 1
    BY <1>1, RunningMoves DEF Running, One
  <2>2. \A s : RowsOf(s)' = RowsOf(s) /\ Writing(s)' = Writing(s)
    BY <1>1 DEF RowsOf, Writing, Elsewhere
  <2>3. mirror'.started = mirror.started + 1 /\ mirror'.ended = mirror.ended
    BY DEF StartRun, Noted, RunTypes
  <2>4. Cardinality(Running) \in Nat
    BY <1>1, RunningMoves
  <2> QED
    BY <1>1, <2>1, <2>2, <2>3, <2>4 DEF Noted, RunTypes, Numbered, Counted, Statuses
<1>3. Alone'
  <2>1. ~mixed' => ~mixed /\ \A g \in Fibers \ {f} : ~UnderWay(g)
    BY DEF StartRun
  <2>2. ~mixed' => OnlyOne'
    BY <1>1, <2>1 DEF OnlyOne, UnderWay, Elsewhere
  <2>3. FindsNothing => FindsNothing'
    BY <1>1 DEF FindsNothing, Elsewhere
  <2>4. OneStartup => OneStartup'
    BY <1>1 DEF OneStartup
  <2> QED
    BY <2>1, <2>2, <2>3, <2>4 DEF Alone, Noted
<1> QED
  BY <1>1, <1>2, <1>3 DEF Noted

LEMMA PriorStep ==
    ASSUME Noted, RunTypes', NEW f \in Fibers, Prior(f)
    PROVE  Noted'
<1>1. /\ pc[f] = "prior" /\ pc'[f] = "effect" /\ Elsewhere(f)
      /\ outcome' = outcome /\ rows' = rows /\ mirror' = mirror
      /\ UNCHANGED <<seq, untold, broken, life, durable>>
  BY DEF Prior, Goes, Noted, RunTypes, Elsewhere, storeVars
<1>2. Running' = Running /\ \A s : RowsOf(s)' = RowsOf(s) /\ Writing(s)' = Writing(s)
  BY <1>1 DEF Running, RowsOf, Writing, Elsewhere
<1>3. life' = 1 \/ ~durable' => Numbered' /\ Counted'
  BY <1>1, <1>2 DEF Noted, Numbered, Counted
<1>4. Alone'
  <2>1. ~mixed' => /\ ~mixed /\ startup' = [startup EXCEPT ![f] = (rows = {})]
    BY DEF Prior
  <2>2. OnlyOne => OnlyOne'
    BY <1>1 DEF OnlyOne, UnderWay, Elsewhere
  <2>3. ~mixed' => startup'[f] = (rows = {}) /\ \A g \in Fibers \ {f} : startup'[g] = startup[g]
    BY <2>1 DEF Noted, RunTypes
  <2>4. ~mixed' /\ FindsNothing => FindsNothing'
    BY <1>1, <2>3 DEF FindsNothing, Elsewhere
  <2>5. OneStartup => OneStartup'
    BY <1>1 DEF OneStartup
  <2> QED
    BY <2>1, <2>2, <2>4, <2>5 DEF Alone, Noted
<1> QED
  BY <1>1, <1>3, <1>4 DEF Noted

LEMMA RunEffectStep ==
    ASSUME Noted, RunTypes', NEW f \in Fibers, RunEffect(f)
    PROVE  Noted'
<1>1. /\ pc[f] = "effect" /\ pc'[f] = "record"
      /\ \A g \in Fibers \ {f} : pc'[g] = pc[g] /\ outcome'[g] = outcome[g]
      /\ rows' = rows /\ startup' = startup
      /\ UNCHANGED <<seq, untold, broken, mixed, life, durable>>
  BY DEF RunEffect, Goes, Noted, RunTypes, storeVars, bounds
<1>2. Elsewhere(f)
  BY <1>1 DEF Elsewhere
<1>3. PICK s \in Statuses : /\ outcome'[f] = s
                            /\ mirror' = [mirror EXCEPT !.ended[s] = @ + 1]
  BY DEF RunEffect, Noted, RunTypes
<1>4. life' = 1 \/ ~durable' => Numbered' /\ Counted'
  <2>1. Cardinality(Running') = Cardinality(Running) - 1
    BY <1>1, <1>2, RunningMoves DEF Running, One
  <2>2. ASSUME NEW t \in Statuses
        PROVE  /\ Cardinality(Writing(t)') = Cardinality(Writing(t)) + One(t = s)
               /\ Cardinality(Writing(t)) \in Nat
    <3>1. f \notin Writing(t) /\ (f \in Writing(t)' <=> t = s)
      BY <1>1, <1>3 DEF Writing
    <3>2. /\ Cardinality(Writing(t)) \in Nat
          /\ Cardinality(Writing(t)') =
               Cardinality(Writing(t)) + One(f \in Writing(t)') - One(f \in Writing(t))
      BY <1>2, WritingMoves
    <3> QED
      BY <3>1, <3>2 DEF One
  <2>3. \A t : RowsOf(t)' = RowsOf(t)
    BY <1>1 DEF RowsOf
  <2>4. /\ mirror'.started = mirror.started
        /\ \A t \in Statuses : mirror'.ended[t] = mirror.ended[t] + One(t = s)
    BY <1>3 DEF Noted, RunTypes, One
  <2>5. \A t \in Statuses : Cardinality(RowsOf(t)) \in Nat
    BY RowsCounted DEF Noted
  <2>6. Cardinality(Running) \in Nat
    BY <1>2, RunningMoves
  <2>7. Numbered => Numbered'
    BY <1>1 DEF Numbered
  <2>8. Counted => Counted'
    BY <1>1, <2>1, <2>2, <2>3, <2>4, <2>5, <2>6 DEF Noted, RunTypes, Counted, Statuses, One
  <2> QED
    BY <1>1, <2>7, <2>8 DEF Noted
<1>5. Alone'
  <2>1. OnlyOne => OnlyOne'
    BY <1>1 DEF OnlyOne, UnderWay
  <2>2. FindsNothing => FindsNothing'
    BY <1>1 DEF FindsNothing
  <2>3. OneStartup => OneStartup'
    BY <1>1 DEF OneStartup
  <2> QED
    BY <1>1, <2>1, <2>2, <2>3 DEF Alone, Noted
<1> QED
  BY <1>1, <1>4, <1>5 DEF Noted

(* A write is refused only if the id is taken, which none is while rows are  *)
(* Numbered.                                                                 *)
LEMMA NewId ==
    ASSUME Numbered, RunTypes, NEW s \in Statuses
    PROVE  ~Taken(executionId(s, seq + 1))
<1> SUFFICES ASSUME NEW r \in rows, r.id = executionId(s, seq + 1) PROVE FALSE
  BY DEF Taken
<1>1. PICK t \in Statuses, n \in 1 .. seq : r.id = executionId(t, n)
  BY DEF Numbered
<1> QED
  BY <1>1 DEF executionId, RunTypes

LEMMA RecordStep ==
    ASSUME Noted, RunTypes', NEW f \in Fibers, Record(f)
    PROVE  Noted'
<1> DEFINE s == outcome[f]
           row == [id |-> executionId(s, seq + 1), startup |-> startup[f]]
<1>1. /\ pc[f] = "record" /\ pc'[f] \in {"idle", "gone", "after"}
      /\ \A g \in Fibers \ {f} : /\ pc'[g] = pc[g] /\ outcome'[g] = outcome[g]
                                 /\ startup'[g] = startup[g]
      /\ s \in Statuses /\ seq' = seq + 1
      /\ UNCHANGED <<mirror, broken, mixed, life, durable>>
  BY DEF Record, Goes, Noted, RunTypes
<1>2. Elsewhere(f)
  BY <1>1 DEF Elsewhere
<1>3. \/ ~Taken(row.id) /\ rows' = rows \cup {row} /\ untold' = untold
      \/ Taken(row.id) /\ rows' = rows /\ untold' = untold
      \/ rows' = rows /\ untold' = [untold EXCEPT ![s] = @ + 1]
  BY DEF Record
<1>4. IsFiniteSet(rows')
  BY <1>3, FS_AddElement DEF Noted
<1>5. Numbered => Numbered'
  <2>1. \A t \in Statuses, n \in 1 .. seq : n \in 1 .. seq'
    BY <1>1 DEF Noted, RunTypes
  <2>2. row.id = executionId(s, seq + 1) /\ seq + 1 \in 1 .. seq'
    BY <1>1 DEF Noted, RunTypes
  <2> HIDE DEF row, s
  <2> QED
    BY <1>1, <1>3, <2>1, <2>2 DEF Numbered
<1>6. ASSUME Numbered, Counted PROVE Counted'
  <2>1. Running' = Running
    BY <1>1 DEF Running
  <2>2. ASSUME NEW t \in Statuses
        PROVE  /\ Cardinality(Writing(t)') = Cardinality(Writing(t)) - One(t = s)
               /\ Cardinality(Writing(t)) \in Nat /\ Cardinality(Writing(t)') \in Nat
    <3>1. f \notin Writing(t)' /\ (f \in Writing(t) <=> t = s)
      BY <1>1 DEF Writing
    <3>2. /\ Cardinality(Writing(t)) \in Nat /\ Cardinality(Writing(t)') \in Nat
          /\ Cardinality(Writing(t)') =
               Cardinality(Writing(t)) + One(f \in Writing(t)') - One(f \in Writing(t))
      BY <1>2, WritingMoves
    <3> QED
      BY <3>1, <3>2 DEF One
  <2>3. ~Taken(row.id)
    BY <1>1, <1>6, NewId DEF Noted
  <2>4. ASSUME NEW t \in Statuses
        PROVE  Cardinality(RowsOf(t)') + untold'[t]
                 = Cardinality(RowsOf(t)) + untold[t] + One(t = s)
    <3>1. IsFiniteSet(RowsOf(t)) /\ Cardinality(RowsOf(t)) \in Nat
      BY RowsCounted DEF Noted
    <3>2. CASE rows' = rows \cup {row} /\ untold' = untold
      <4>1. CASE t = s
        <5>1. RowsOf(t)' = RowsOf(t) \cup {row}
          BY <3>2, <4>1 DEF RowsOf, executionId
        <5>2. row \notin RowsOf(t)
          BY <2>3 DEF RowsOf, Taken
        <5>3. Cardinality(RowsOf(t)') = Cardinality(RowsOf(t)) + 1
          BY <3>1, <5>1, <5>2, FS_AddElement
        <5>4. untold'[t] = untold[t] /\ untold[t] \in Nat
          BY <3>2 DEF Noted, RunTypes
        <5> QED
          BY <3>1, <4>1, <5>3, <5>4 DEF One
      <4>2. CASE t # s
        <5>1. RowsOf(t)' = RowsOf(t)
          BY <3>2, <4>2 DEF RowsOf, executionId
        <5>2. untold'[t] = untold[t] /\ untold[t] \in Nat
          BY <3>2 DEF Noted, RunTypes
        <5> QED
          BY <3>1, <4>2, <5>1, <5>2 DEF One
      <4> QED BY <4>1, <4>2
    <3>3. CASE rows' = rows /\ untold' = [untold EXCEPT ![s] = @ + 1]
      <4>1. RowsOf(t)' = RowsOf(t)
        BY <3>3 DEF RowsOf
      <4>2. untold'[t] = untold[t] + One(t = s) /\ untold[t] \in Nat
        BY <1>1, <3>3 DEF One, Noted, RunTypes
      <4> QED
        BY <3>1, <4>1, <4>2 DEF One
    <3> QED
      BY <1>3, <2>3, <3>2, <3>3
  <2>5. ASSUME NEW t \in Statuses
        PROVE  mirror'.ended[t] =
                 Cardinality(RowsOf(t)') + untold'[t] + Cardinality(Writing(t)')
    <3>1. mirror.ended[t] = Cardinality(RowsOf(t)) + untold[t] + Cardinality(Writing(t))
      BY <1>6 DEF Counted
    <3>2. /\ Cardinality(RowsOf(t)) \in Nat /\ Cardinality(RowsOf(t)') \in Nat
          /\ untold[t] \in Nat /\ untold'[t] \in Nat
      BY <1>4, RowsCounted, FS_CardinalityType, FS_Subset DEF Noted, RunTypes, RowsOf
    <3> QED
      BY <1>1, <2>2, <2>4, <3>1, <3>2 DEF One
  <2> QED
    BY <1>1, <1>6, <2>1, <2>5 DEF Counted
<1>7. Alone'
  <2>1. ASSUME ~mixed, OnlyOne, FindsNothing, OneStartup
        PROVE  OnlyOne' /\ FindsNothing' /\ OneStartup'
    <3>1. \A g \in Fibers \ {f} : pc[g] \notin {"prior", "effect", "record"}
      BY <1>1, <2>1 DEF OnlyOne, UnderWay
    <3>2. OnlyOne'
      BY <1>1, <2>1 DEF OnlyOne, UnderWay
    <3>3. FindsNothing'
      BY <1>1, <3>1 DEF FindsNothing
    <3>4. startup[f] => rows = {}
      BY <1>1, <2>1 DEF FindsNothing
    <3>5. row.startup = startup[f]
      OBVIOUS
    <3>6. OneStartup'
      <4> HIDE DEF row
      <4> QED
        BY <1>3, <2>1, <3>4, <3>5 DEF OneStartup
    <3> QED BY <3>2, <3>3, <3>6
  <2> QED
    BY <1>1, <2>1 DEF Alone, Noted
<1> QED
  BY <1>1, <1>4, <1>5, <1>6, <1>7 DEF Noted

LEMMA InterruptRunStep ==
    ASSUME Noted, RunTypes', NEW f \in Fibers, Interrupt(f)
    PROVE  Noted'
<1>1. /\ pc'[f] \in {"idle", "gone"} /\ Elsewhere(f)
      /\ UNCHANGED <<outcome, startup, mirror, rows, seq, mixed, life, durable>>
  BY DEF Interrupt, Goes, Noted, RunTypes, Elsewhere
<1>2. \A t : RowsOf(t)' = RowsOf(t) /\ (Numbered => Numbered')
  BY <1>1 DEF RowsOf, Numbered
<1>3. /\ \A t \in Statuses : Cardinality(RowsOf(t)) \in Nat
      /\ \A t \in Statuses : untold[t] \in Nat
      /\ broken \in Nat
  BY RowsCounted DEF Noted, RunTypes
<1>4. Alone'
  <2>1. OnlyOne => OnlyOne'
    BY <1>1 DEF OnlyOne, UnderWay, Elsewhere
  <2>2. FindsNothing => FindsNothing'
    BY <1>1 DEF FindsNothing, Elsewhere
  <2>3. OneStartup => OneStartup'
    BY <1>1 DEF OneStartup
  <2> QED
    BY <1>1, <2>1, <2>2, <2>3 DEF Alone, Noted
<1>5. Counted => Counted'
  <2>1. /\ Cardinality(Running) \in Nat
        /\ Cardinality(Running') = Cardinality(Running) - One(f \in Running)
    <3>1. f \notin Running'
      BY <1>1 DEF Running
    <3> QED
      BY <1>1, <3>1, RunningMoves DEF One
  <2>2. broken' = broken + One(f \in Running)
    BY DEF Interrupt, Running, One
  <2>3. ASSUME NEW t \in Statuses
        PROVE  /\ Cardinality(Writing(t)) \in Nat
               /\ Cardinality(Writing(t)') = Cardinality(Writing(t)) - One(f \in Writing(t))
    <3>1. f \notin Writing(t)'
      BY <1>1 DEF Writing
    <3> QED
      BY <1>1, <3>1, WritingMoves DEF One
  <2>4. ASSUME NEW t \in Statuses
        PROVE  untold'[t] = untold[t] + One(f \in Writing(t))
    <3>1. CASE pc[f] = "record"
      BY <3>1 DEF Interrupt, Writing, One, Noted, RunTypes
    <3>2. CASE pc[f] # "record"
      BY <3>2, <1>3 DEF Interrupt, Writing, One
    <3> QED BY <3>1, <3>2
  <2>5. /\ mirror.started \in Nat /\ \A t \in Statuses : mirror.ended[t] \in Nat
        /\ mirror.ended["completed"] \in Nat /\ mirror.ended["failed"] \in Nat
    BY DEF Noted, RunTypes, Statuses
  <2>6. ASSUME Counted
        PROVE  mirror'.started = mirror'.ended["completed"] + mirror'.ended["failed"]
                                   + broken' + Cardinality(Running')
    <3>1. mirror.started = mirror.ended["completed"] + mirror.ended["failed"] + broken
                             + Cardinality(Running)
      BY <2>6 DEF Counted
    <3>2. One(f \in Running) \in Nat /\ mirror' = mirror
      BY <1>1 DEF One
    <3> QED
      BY <1>3, <2>1, <2>2, <2>5, <3>1, <3>2
  <2>7. ASSUME Counted, NEW t \in Statuses
        PROVE  mirror'.ended[t] =
                 Cardinality(RowsOf(t)') + untold'[t] + Cardinality(Writing(t)')
    BY <1>1, <1>2, <1>3, <2>3, <2>4, <2>5, <2>7 DEF Counted, One
  <2> QED
    BY <2>6, <2>7 DEF Counted
<1> QED
  BY <1>1, <1>2, <1>4, <1>5 DEF Noted

(* A process begins with no runs, and with no rows if the store is new.      *)
LEMMA Fresh ==
    ASSUME pc = Launched, mirror = NoRuns, broken = 0, untold = NoCounts
    PROVE  /\ \A f \in Fibers : pc[f] \notin {"prior", "effect", "record"}
           /\ rows = {} => Numbered /\ Counted
<1>1. \A f \in Fibers : pc[f] \notin {"prior", "effect", "record"}
  BY DEF Launched
<1>2. Running = {} /\ \A t : Writing(t) = {}
  BY <1>1 DEF Running, Writing
<1>3. rows = {} => \A t : RowsOf(t) = {}
  BY DEF RowsOf
<1>4. /\ mirror.started = 0 /\ mirror.ended["completed"] = 0 /\ mirror.ended["failed"] = 0
      /\ \A t \in Statuses : mirror.ended[t] = 0 /\ untold[t] = 0
  BY DEF NoRuns, NoCounts, Statuses
<1> QED
  BY <1>1, <1>2, <1>3, <1>4, FS_EmptySet DEF Numbered, Counted

LEMMA InitTold == ASSUME RunsInit PROVE Noted
<1>1. RunTypes
  BY InitHeard DEF Heard
<1>2. rows = {} /\ IsFiniteSet(rows)
  BY FS_EmptySet DEF RunsInit
<1>4. /\ \A f \in Fibers : pc[f] \notin {"prior", "effect", "record"}
      /\ Numbered /\ Counted
  BY <1>2, Fresh DEF RunsInit
<1>5. OnlyOne /\ FindsNothing /\ OneStartup
  BY <1>2, <1>4 DEF OnlyOne, UnderWay, FindsNothing, OneStartup
<1> QED
  BY <1>1, <1>2, <1>4, <1>5 DEF Noted, Alone

LEMMA RestartTold ==
    ASSUME Noted, RunTypes', Restart
    PROVE  Noted'
<1>1. /\ pc' = Launched /\ mirror' = NoRuns /\ broken' = 0 /\ untold' = NoCounts
      /\ durable' = durable /\ life' = life + 1
      /\ rows' = (IF durable THEN rows ELSE {}) /\ mixed' = (durable /\ mixed)
  BY DEF Restart
<1>2. \A f \in Fibers : pc'[f] \notin {"prior", "effect", "record"}
  BY <1>1 DEF Launched
<1>3. IsFiniteSet(rows')
  BY <1>1, FS_EmptySet DEF Noted
<1>4. life' = 1 \/ ~durable' => Numbered' /\ Counted'
  <2>1. life' # 1
    BY <1>1 DEF Noted, RunTypes
  <2>2. ASSUME ~durable PROVE Numbered' /\ Counted'
    <3>1. rows' = {}
      BY <1>1, <2>2
    <3>2. Running' = {} /\ \A t : Writing(t)' = {} /\ RowsOf(t)' = {}
      BY <1>2, <3>1 DEF Running, Writing, RowsOf
    <3>3. /\ mirror'.started = 0 /\ mirror'.ended["completed"] = 0
          /\ mirror'.ended["failed"] = 0
          /\ \A t \in Statuses : mirror'.ended[t] = 0 /\ untold'[t] = 0
      BY <1>1 DEF NoRuns, NoCounts, Statuses
    <3> QED
      BY <1>1, <3>1, <3>2, <3>3, FS_EmptySet DEF Numbered, Counted
  <2> QED
    BY <1>1, <2>1, <2>2
<1>5. Alone'
  <2>1. OnlyOne' /\ FindsNothing'
    BY <1>2 DEF OnlyOne, UnderWay, FindsNothing
  <2>2. ~mixed' => OneStartup'
    <3>1. CASE durable
      BY <1>1, <3>1 DEF Noted, Alone, OneStartup
    <3>2. CASE ~durable
      BY <1>1, <3>2 DEF OneStartup
    <3> QED BY <3>1, <3>2
  <2> QED
    BY <2>1, <2>2 DEF Alone
<1> QED
  BY <1>3, <1>4, <1>5 DEF Noted

LEMMA LoopIsQuiet ==
    ASSUME RunTypes, NEW i \in Loops,
           \/ canContinue(i) \/ Arm(i) \/ ReadCadence(i) \/ Sleep(i) \/ AfterTick(i)
    PROVE  Quiet(i)
<1>1. i \in Fibers
  BY DEF Fibers
<1>2. /\ pc[i] \notin {"prior", "effect", "record"}
      /\ \E label \in RunLabels \ {"prior", "effect", "record"} : Goes(i, label)
      /\ UNCHANGED <<outcome, startup, mirror, rows, seq, untold, broken, mixed, life, durable>>
  BY DEF canContinue, Arm, ReadCadence, Sleep, AfterTick, awaitNextTick, RunLabels, tracking,
         storeVars, bounds
<1> QED
  BY <1>1, <1>2 DEF Goes, RunTypes, Quiet, Elsewhere

LEMMA CallerIsQuiet ==
    ASSUME Heard, NEW c \in Callers,
           Call(c) \/ ResetCadence(c) \/ GetWake(c) \/ CompleteWake(c)
    PROVE  Quiet(c)
<1>1. c \in Fibers
  BY DEF Fibers
<1>2. UNCHANGED <<outcome, startup, mirror, rows, seq, untold, broken, mixed, life, durable>>
  BY DEF Call, ResetCadence, GetWake, CompleteWake, tracking, storeVars, bounds
<1>3. /\ pc[c] \notin {"prior", "effect", "record"}
      /\ \E label \in RunLabels \ {"prior", "effect", "record"} : Goes(c, label)
  BY DEF Call, ResetCadence, GetWake, CompleteWake, Heard, CallersCall, Handler, requestWake,
         resetCadence, runImmediately, RunLabels
<1> QED
  BY <1>1, <1>2, <1>3 DEF Goes, Heard, RunTypes, Quiet, Elsewhere

LEMMA NextTold == Heard /\ Noted /\ [RunsNext]_runVars => Noted'
<1> SUFFICES ASSUME Heard, Noted, [RunsNext]_runVars PROVE Noted'
  OBVIOUS
<1>1. RunTypes'
  BY NextHeard DEF Heard
<1>2. ASSUME NEW i \in Loops,
             \/ canContinue(i) \/ Arm(i) \/ ReadCadence(i) \/ Sleep(i) \/ AfterTick(i)
      PROVE  Noted'
  BY <1>1, <1>2, LoopIsQuiet, QuietStep DEF Noted, Fibers
<1>3. ASSUME NEW f \in Fibers,
             StartRun(f) \/ Prior(f) \/ RunEffect(f) \/ Record(f) \/ Interrupt(f)
      PROVE  Noted'
  BY <1>1, <1>3, BeginStep, PriorStep, RunEffectStep, RecordStep, InterruptRunStep
<1>4. ASSUME NEW c \in Callers, Call(c) \/ ResetCadence(c) \/ GetWake(c) \/ CompleteWake(c)
      PROVE  Noted'
  BY <1>1, <1>4, CallerIsQuiet, QuietStep DEF Fibers
<1>5. ASSUME UNCHANGED runVars PROVE Noted'
  <2>1. UNCHANGED <<pc, outcome, startup, mirror, rows, seq, untold, broken, mixed, life, durable>>
    BY <1>5 DEF runVars, tracking, storeVars, bounds
  <2>2. Running' = Running /\ \A t : Writing(t)' = Writing(t) /\ RowsOf(t)' = RowsOf(t)
    BY <2>1 DEF Running, Writing, RowsOf
  <2>3. life' = 1 \/ ~durable' => Numbered' /\ Counted'
    BY <2>1, <2>2 DEF Noted, Numbered, Counted
  <2>4. /\ OnlyOne => OnlyOne'
        /\ FindsNothing => FindsNothing'
        /\ OneStartup => OneStartup'
    BY <2>1 DEF OnlyOne, UnderWay, FindsNothing, OneStartup
  <2> QED
    BY <1>1, <2>1, <2>3, <2>4 DEF Noted, Alone
<1> QED
  BY <1>1, <1>2, <1>3, <1>4, <1>5, RestartTold DEF RunsNext

LEMMA ToldImplies == Noted => RunsTold
<1> SUFFICES ASSUME Noted PROVE RunsTold
  OBVIOUS
<1>1. life = 1 \/ ~durable => Counted
  BY DEF Noted
<1>2. ~mixed => OneStartup
  BY DEF Noted, Alone
<1> QED
  BY <1>1, <1>2 DEF RunsTold, Counted, OneStartup, Running, Writing, RowsOf

LEMMA ToldInvariant == RunsSpec => []Noted
<1>1. RunsInit => Noted
  BY InitTold
<1> QED
  BY HeardInvariant, <1>1, NextTold, PTL DEF RunsSpec

(* For any number of instances and callers: in the first life of a process,  *)
(* and in each on a store in memory, the counters of the status tell of every *)
(* run and agree with the rows of executions; and one row at most says of    *)
(* itself that it is of the first run, as long as runs do not overlap and    *)
(* the store can be read (trackedProgram of Process.ts).                     *)
THEOREM EveryRunIsTold == RunsSpec => []RunsTold
BY ToldInvariant, ToldImplies, PTL
=============================================================================
