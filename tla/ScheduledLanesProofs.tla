------------------------ MODULE ScheduledLanesProofs ------------------------
(* The scheduled lanes for any number of levels, items and extractions:     *)
(* every item is in one place, virtual times stay near the clock, the        *)
(* strict order is kept, a poll misses nothing, and the work is shared by    *)
(* the weights.                                                              *)
EXTENDS ScheduledLanes, FiniteSetTheorems, FunctionTheorems,
        SequenceTheorems, WellFoundedInduction, TLAPS

----------------------------------------------------------------------------
(* The algorithms pick from the lanes they are offered: there is a smallest *)
(* and a largest one.                                                       *)

LEMMA LeastNumber ==
    ASSUME NEW S, S \subseteq Nat, S # {}
    PROVE  \E n \in S : \A m \in S : n <= m
<1>1. PICK n \in S : \A m \in S : ~ (<<m, n>> \in OpToRel(<, Nat))
  BY NatLessThanWellFounded, WFMin
<1>2. \A m \in S : ~ (m < n)
  BY <1>1 DEF OpToRel
<1> QED
  BY <1>2

LEMMA LevelNumbers ==
    LevelCount \in Nat /\ LevelCount > 0 /\ \A l \in Levels : l \in Nat /\ l < LevelCount
<1>1. LevelCount \in Nat \ {0}
  BY LaneAssumption
<1> QED
  BY <1>1 DEF Levels

LEMMA Stepped ==
    ASSUME NEW l \in Levels
    PROVE  Step(l) \in 1..Scale
<1>1. \E n \in 1..Scale : n * Weight(l) = Scale
  BY LaneAssumption
<1> QED
  BY <1>1 DEF Step

LEMMA EffType ==
    ASSUME TypeOK, NEW l \in Levels
    PROVE  Eff(l) \in Nat
BY DEF TypeOK, Eff

(* pickWeighted names a lane with the smallest virtual time.                *)
LEMMA EarliestPicked ==
    ASSUME TypeOK, NEW S, S \subseteq Levels, S # {}
    PROVE  Earliest(S) \in S /\ \A k \in S : Eff(Earliest(S)) <= Eff(k)
<1> DEFINE Values == {Eff(l) : l \in S}
<1>1. Values \subseteq Nat /\ Values # {}
  BY EffType
<1>2. PICK v \in Values : \A w \in Values : v <= w
  BY <1>1, LeastNumber
<1> DEFINE Firsts == {l \in S : Eff(l) = v}
<1>3. Firsts \subseteq Nat /\ Firsts # {}
  BY LevelNumbers
<1> HIDE DEF Firsts
<1>4. PICK l \in Firsts : \A k \in Firsts : l <= k
  BY <1>3, LeastNumber
<1>5. l \in S /\ Eff(l) = v
  BY <1>4 DEF Firsts
<1>6. ASSUME NEW k \in S
      PROVE  Eff(l) < Eff(k) \/ (Eff(l) = Eff(k) /\ l <= k)
  <2>1. v <= Eff(k) /\ v \in Nat /\ Eff(k) \in Nat
    BY <1>1, <1>2
  <2>2. CASE Eff(k) = v
    BY <2>2, <1>4, <1>5 DEF Firsts
  <2>3. CASE Eff(k) # v
    BY <2>1, <2>3, <1>5
  <2> QED
    BY <2>2, <2>3
<1>7. /\ Earliest(S) \in S
      /\ \A k \in S : Eff(Earliest(S)) < Eff(k) \/ (Eff(Earliest(S)) = Eff(k) /\ Earliest(S) <= k)
  BY <1>5, <1>6 DEF Earliest
<1> QED
  BY <1>7, EffType

LEMMA HighestPicked ==
    ASSUME NEW S, S \subseteq Levels, S # {}
    PROVE  Highest(S) \in S /\ \A k \in S : Highest(S) >= k
<1> DEFINE Depths == {LevelCount - 1 - l : l \in S}
<1>1. Depths \subseteq Nat /\ Depths # {}
  BY LevelNumbers
<1>2. PICK d \in Depths : \A e \in Depths : d <= e
  BY <1>1, LeastNumber
<1>3. PICK l \in S : d = LevelCount - 1 - l
  OBVIOUS
<1>4. ASSUME NEW k \in S
      PROVE  l >= k
  <2>1. d <= LevelCount - 1 - k
    BY <1>2
  <2> QED
    BY <2>1, <1>3, LevelNumbers
<1> QED
  BY <1>3, <1>4 DEF Highest

LEMMA PicksOffered ==
    ASSUME TypeOK, NEW S, S \subseteq Levels, S # {}
    PROVE  Picks(S) \subseteq S
<1>1. Earliest(S) \in S
  BY EarliestPicked
<1>2. Highest(S) \in S
  BY HighestPicked
<1>3. CASE takeAlgorithm = "weighted"
  BY <1>1, <1>3 DEF Picks
<1>4. CASE takeAlgorithm = "strict-descending"
  BY <1>2, <1>4 DEF Picks
<1>5. CASE takeAlgorithm # "weighted" /\ takeAlgorithm # "strict-descending"
  BY <1>5 DEF Picks
<1> QED
  BY <1>3, <1>4, <1>5

LEMMA Resolved ==
    ASSUME NEW input \in Inputs
    PROVE  ResolveLevel(input) \in Levels
<1>1. \A n \in Int : Clamp(n) \in Levels
  BY LevelNumbers DEF Clamp, Levels
<1>2. CASE input.kind = "number"
  <2>1. input.level \in Int
    BY <1>2, LaneAssumption
  <2> QED
    BY <1>1, <1>2, <2>1 DEF ResolveLevel
<1>3. CASE input.kind # "number" /\ input.kind = "name" /\ input.name \in DOMAIN NamedLevels
  <2>1. NamedLevels[input.name] \in Int
    BY <1>3, LaneAssumption
  <2> QED
    BY <1>1, <1>3, <2>1 DEF ResolveLevel
<1>4. CASE input.kind # "number" /\ ~(input.kind = "name" /\ input.name \in DOMAIN NamedLevels)
  <2>1. DefaultLevel \in Int
    BY LaneAssumption
  <2> QED
    BY <1>1, <1>4, <2>1 DEF ResolveLevel
<1> QED
  BY <1>2, <1>3, <1>4

----------------------------------------------------------------------------
(* Sequences without repetition.                                            *)
Elems(s) == {s[i] : i \in DOMAIN s}
Distinct(s) == \A i, j \in 1..Len(s) : s[i] = s[j] => i = j

LEMMA ElemsOf ==
    ASSUME NEW S, NEW s \in Seq(S)
    PROVE  /\ Elems(s) \subseteq S
           /\ \A x : x \in Elems(s) <=> \E i \in 1..Len(s) : s[i] = x
           /\ s # <<>> <=> Len(s) > 0
BY DEF Elems

LEMMA HeadTail ==
    ASSUME NEW S, NEW s \in Seq(S), s # <<>>
    PROVE  Tail(s) \in Seq(S) /\ Head(s) \in S /\ Len(Tail(s)) = Len(s) - 1
OBVIOUS

LEMMA WithOneMore ==
    ASSUME NEW S, NEW s \in Seq(S), NEW x \in S, Distinct(s), x \notin Elems(s)
    PROVE  /\ Append(s, x) \in Seq(S)
           /\ Distinct(Append(s, x))
           /\ Elems(Append(s, x)) = Elems(s) \cup {x}
<1> DEFINE t == Append(s, x)
<1>1. /\ t \in Seq(S) /\ Len(t) = Len(s) + 1
      /\ \A i \in 1..Len(s) : t[i] = s[i]
      /\ t[Len(s) + 1] = x
  OBVIOUS
<1>2. \A i \in 1..Len(s) : s[i] # x
  BY ElemsOf
<1> HIDE DEF t
<1>3. Distinct(t)
  BY <1>1, <1>2 DEF Distinct
<1>4. Elems(t) = Elems(s) \cup {x}
  BY <1>1, ElemsOf
<1> QED
  BY <1>1, <1>3, <1>4 DEF t

LEMMA WithoutHead ==
    ASSUME NEW S, NEW s \in Seq(S), s # <<>>, Distinct(s)
    PROVE  /\ Tail(s) \in Seq(S) /\ Head(s) \in S
           /\ Len(Tail(s)) = Len(s) - 1
           /\ Distinct(Tail(s))
           /\ Head(s) \in Elems(s)
           /\ Elems(Tail(s)) = Elems(s) \ {Head(s)}
<1> DEFINE t == Tail(s)
<1>1. /\ t \in Seq(S) /\ Len(s) > 0 /\ Len(t) = Len(s) - 1
      /\ \A i \in 1..Len(t) : t[i] = s[i + 1]
      /\ Head(s) = s[1] /\ Head(s) \in S
  OBVIOUS
<1> HIDE DEF t
<1>2. Distinct(t)
  BY <1>1 DEF Distinct
<1>3. Head(s) \in Elems(s)
  BY <1>1, ElemsOf
<1>4. ASSUME NEW x \in Elems(t)
      PROVE  x \in Elems(s) \ {Head(s)}
  <2>1. PICK i \in 1..Len(t) : t[i] = x
    BY <1>1, ElemsOf
  <2> QED
    BY <1>1, <2>1, ElemsOf DEF Distinct
<1>5. ASSUME NEW x \in Elems(s), x # Head(s)
      PROVE  x \in Elems(t)
  <2>1. PICK i \in 1..Len(s) : s[i] = x
    BY ElemsOf
  <2>2. i - 1 \in 1..Len(t) /\ t[i - 1] = x
    BY <1>1, <1>5, <2>1
  <2> QED
    BY <2>2, <1>1, ElemsOf
<1> QED
  BY <1>1, <1>2, <1>3, <1>4, <1>5 DEF t

LEMMA Parts ==
    ASSUME NEW S, NEW t \in Seq(S), NEW n \in 0..Len(t)
    PROVE  /\ SubSeq(t, 1, n) \in Seq(S) /\ Len(SubSeq(t, 1, n)) = n
           /\ SubSeq(t, n + 1, Len(t)) \in Seq(S)
           /\ Len(SubSeq(t, n + 1, Len(t))) = Len(t) - n
OBVIOUS

(* A part of t goes to the end of s and the rest of it stays.               *)
LEMMA PartMoves ==
    ASSUME NEW S, NEW s \in Seq(S), NEW t \in Seq(S), NEW n \in 0..Len(t),
           Distinct(s), Distinct(t), Elems(s) \cap Elems(t) = {}
    PROVE  LET joined == s \o SubSeq(t, 1, n)
               rest == SubSeq(t, n + 1, Len(t))
           IN  /\ joined \in Seq(S) /\ rest \in Seq(S)
               /\ Len(joined) = Len(s) + n /\ Len(rest) = Len(t) - n
               /\ Distinct(joined) /\ Distinct(rest)
               /\ Elems(joined) \cap Elems(rest) = {}
               /\ Elems(joined) \cup Elems(rest) = Elems(s) \cup Elems(t)
               /\ Elems(rest) \subseteq Elems(t)
<1> DEFINE part == SubSeq(t, 1, n)
           joined == s \o part
           rest == SubSeq(t, n + 1, Len(t))
<1>1. /\ part \in Seq(S) /\ Len(part) = n /\ \A i \in 1..n : part[i] = t[i]
      /\ rest \in Seq(S) /\ Len(rest) = Len(t) - n
      /\ \A i \in 1..(Len(t) - n) : rest[i] = t[n + i]
  OBVIOUS
<1> HIDE DEF part, rest
<1>2. /\ joined \in Seq(S) /\ Len(joined) = Len(s) + n
      /\ \A i \in 1..Len(s) : joined[i] = s[i]
      /\ \A i \in (Len(s) + 1)..(Len(s) + n) : joined[i] = t[i - Len(s)]
  <2>0. part \in Seq(S)
    BY <1>1
  <2>1. joined \in Seq(S) /\ Len(joined) = Len(s) + Len(part)
    BY <2>0
  <2>2. \A i \in 1..Len(s) : joined[i] = s[i]
    BY <2>0
  <2>3. \A i \in (Len(s) + 1)..(Len(s) + Len(part)) : joined[i] = part[i - Len(s)]
    BY <2>0
  <2>4. \A i \in (Len(s) + 1)..(Len(s) + n) : i - Len(s) \in 1..n
    OBVIOUS
  <2> QED
    BY <1>1, <2>1, <2>2, <2>3, <2>4
<1> HIDE DEF joined
<1>3. \A i \in 1..Len(s), j \in 1..Len(t) : s[i] # t[j]
  BY ElemsOf
<1>4. Distinct(joined)
  <2> SUFFICES ASSUME NEW i \in 1..Len(joined), NEW j \in 1..Len(joined),
                      joined[i] = joined[j]
               PROVE  i = j
    BY DEF Distinct
  <2>1. CASE i <= Len(s) /\ j <= Len(s)
    BY <1>2, <2>1 DEF Distinct
  <2>2. CASE i > Len(s) /\ j > Len(s)
    <3>1. /\ i - Len(s) \in 1..Len(t) /\ j - Len(s) \in 1..Len(t)
          /\ t[i - Len(s)] = t[j - Len(s)]
      BY <1>2, <2>2
    <3> QED
      BY <3>1 DEF Distinct
  <2>3. CASE i <= Len(s) /\ j > Len(s)
    <3>1. i \in 1..Len(s) /\ joined[i] = s[i]
      BY <1>2, <2>3
    <3>2. j - Len(s) \in 1..Len(t) /\ joined[j] = t[j - Len(s)]
      BY <1>2, <2>3
    <3> QED
      BY <1>3, <3>1, <3>2
  <2>4. CASE i > Len(s) /\ j <= Len(s)
    <3>1. j \in 1..Len(s) /\ joined[j] = s[j]
      BY <1>2, <2>4
    <3>2. i - Len(s) \in 1..Len(t) /\ joined[i] = t[i - Len(s)]
      BY <1>2, <2>4
    <3> QED
      BY <1>3, <3>1, <3>2
  <2> QED
    BY <1>2, <2>1, <2>2, <2>3, <2>4
<1>5. Distinct(rest)
  BY <1>1 DEF Distinct
<1>6. ASSUME NEW i \in 1..Len(joined), NEW j \in 1..Len(rest)
      PROVE  joined[i] # rest[j]
  <2>1. n + j \in 1..Len(t) /\ rest[j] = t[n + j]
    BY <1>1
  <2>2. CASE i <= Len(s)
    BY <1>2, <1>3, <2>1, <2>2
  <2>3. CASE i > Len(s)
    <3>1. i - Len(s) \in 1..n /\ joined[i] = t[i - Len(s)]
      BY <1>2, <2>3
    <3> QED
      BY <2>1, <3>1 DEF Distinct
  <2> QED
    BY <1>2, <2>2, <2>3
<1>7. ASSUME NEW x \in Elems(joined)
      PROVE  x \notin Elems(rest)
  <2>1. PICK i \in 1..Len(joined) : joined[i] = x
    BY <1>2, ElemsOf
  <2>2. \A j \in 1..Len(rest) : rest[j] # x
    BY <1>6, <2>1
  <2> QED
    BY <2>2, <1>1, ElemsOf
<1>8. ASSUME NEW x \in Elems(rest)
      PROVE  x \in Elems(t)
  <2>1. PICK i \in 1..Len(rest) : rest[i] = x
    BY <1>1, ElemsOf
  <2>2. n + i \in 1..Len(t) /\ t[n + i] = x
    BY <1>1, <2>1
  <2> QED
    BY <2>2, ElemsOf
<1>9. ASSUME NEW x \in Elems(joined)
      PROVE  x \in Elems(s) \cup Elems(t)
  <2>1. PICK i \in 1..Len(joined) : joined[i] = x
    BY <1>2, ElemsOf
  <2>2. CASE i <= Len(s)
    BY <1>2, <2>1, <2>2, ElemsOf
  <2>3. CASE i > Len(s)
    <3>1. i - Len(s) \in 1..Len(t) /\ t[i - Len(s)] = x
      BY <1>2, <2>1, <2>3
    <3> QED
      BY <3>1, ElemsOf
  <2> QED
    BY <1>2, <2>1, <2>2, <2>3
<1>10. ASSUME NEW x \in Elems(s)
       PROVE  x \in Elems(joined)
  <2>1. PICK i \in 1..Len(s) : s[i] = x
    BY ElemsOf
  <2>2. i \in 1..Len(joined) /\ joined[i] = x
    BY <1>2, <2>1
  <2> QED
    BY <1>2, <2>2, ElemsOf
<1>11. ASSUME NEW x \in Elems(t)
       PROVE  x \in Elems(joined) \cup Elems(rest)
  <2>1. PICK i \in 1..Len(t) : t[i] = x
    BY ElemsOf
  <2>2. CASE i <= n
    <3>1. Len(s) + i \in 1..Len(joined) /\ joined[Len(s) + i] = x
      BY <1>2, <2>1, <2>2
    <3> QED
      BY <3>1, <1>2, ElemsOf
  <2>3. CASE i > n
    <3>1. i - n \in 1..Len(rest) /\ rest[i - n] = x
      BY <1>1, <2>1, <2>3
    <3> QED
      BY <3>1, <1>1, ElemsOf
  <2> QED
    BY <2>1, <2>2, <2>3
<1> QED
  BY <1>1, <1>2, <1>4, <1>5, <1>7, <1>8, <1>9, <1>10, <1>11 DEF joined, rest, part

----------------------------------------------------------------------------
(* Types.                                                                   *)

LEMMA TypesBegin == Init => TypeOK
<1>1. 0 \in Levels
  BY LevelNumbers DEF Levels
<1>2. <<>> \in Seq(1..0)
  OBVIOUS
<1>3. ASSUME Init
      PROVE  TypeOK
  <2>1. lanes \in [Levels -> Seq(1..offered)] /\ kept \in Seq(1..offered)
    BY <1>2, <1>3 DEF Init
  <2> QED
    BY <1>1, <1>3, <2>1, LevelNumbers DEF Init, TypeOK, Zero
<1> QED
  BY <1>3

LEMMA SeqGrows ==
    ASSUME NEW m \in Nat, NEW n \in Nat, m <= n
    PROVE  Seq(1..m) \subseteq Seq(1..n)
<1>1. 1..m \subseteq 1..n
  OBVIOUS
<1> QED
  BY <1>1, SeqMonotonic

LEMMA TypesStep ==
    ASSUME TypeOK, [Next]_vars
    PROVE  TypeOK'
<1>1. ASSUME NEW input \in Inputs, Offer(input)
      PROVE  TypeOK'
  <2> DEFINE l == ResolveLevel(input)
  <2>1. l \in Levels
    BY Resolved
  <2> HIDE DEF l
  <2>2. /\ offered' = offered + 1 /\ offered \in Nat
        /\ lanes' = [lanes EXCEPT ![l] = Append(@, offered + 1)]
    BY <1>1 DEF Offer, TypeOK, l
  <2>3. Seq(1..offered) \subseteq Seq(1..offered') /\ offered + 1 \in 1..offered'
    BY <2>2, SeqGrows
  <2>4. lanes \in [Levels -> Seq(1..offered')] /\ kept \in Seq(1..offered')
    BY <2>3 DEF TypeOK
  <2>5. Append(lanes[l], offered + 1) \in Seq(1..offered')
    BY <2>1, <2>3, <2>4
  <2>6. lanes' \in [Levels -> Seq(1..offered')]
    BY <2>2, <2>4, <2>5
  <2>7. taken \subseteq 1..offered' /\ out \subseteq 1..offered'
    BY <2>2 DEF TypeOK
  <2>8. /\ UNCHANGED <<takeAlgorithm, tagged, vtime, systemV, pc, scan, nonEmpty, level>>
        /\ UNCHANGED <<extractPc, lane, kept, taken, out, stale>>
    BY <1>1 DEF Offer, sched, poll, extraction
  <2>9. kept' \in Seq(1..offered') /\ offered' \in Nat
    BY <2>2, <2>4, <2>8
  <2> QED
    BY <2>6, <2>7, <2>8, <2>9 DEF TypeOK
<1>2. CASE StartPoll
  <2>1. pc' = "scan" /\ scan' = 0 /\ nonEmpty' = {}
    BY <1>2 DEF StartPoll
  <2>2. scan' \in 0..LevelCount
    BY <2>1, LevelNumbers
  <2> QED
    BY <1>2, <2>1, <2>2 DEF StartPoll, TypeOK, sched, extraction
<1>3. CASE Scan
  <2>1. scan \in Levels /\ scan' = scan + 1 /\ nonEmpty' \subseteq nonEmpty \cup {scan}
    BY <1>3, LevelNumbers DEF Scan, TypeOK, Levels
  <2>2. scan' \in 0..LevelCount
    BY <2>1, LevelNumbers
  <2>3. nonEmpty' \subseteq Levels
    BY <2>1 DEF TypeOK
  <2> QED
    BY <1>3, <2>2, <2>3 DEF Scan, TypeOK, sched, extraction
<1>4. CASE Pick
  <2>1. nonEmpty # {} => Picks(nonEmpty) \subseteq Levels
    BY PicksOffered DEF TypeOK
  <2>2. level' \in Levels /\ pc' \in {"take", "idle"}
    BY <1>4, <2>1 DEF Pick, Ended, TypeOK
  <2>3. scan' = scan /\ nonEmpty' = nonEmpty
    BY <1>4 DEF Pick, Ended
  <2> QED
    BY <1>4, <2>2, <2>3 DEF Pick, TypeOK, sched, extraction
<1>5. CASE Take
  <2>1. CASE lanes[level] = <<>>
    BY <1>5, <2>1 DEF Take, Ended, TypeOK, sched, extraction
  <2>2. CASE lanes[level] # <<>>
    <3>1. lanes[level] \in Seq(1..offered) /\ level \in Levels
      BY DEF TypeOK
    <3>2. Tail(lanes[level]) \in Seq(1..offered) /\ Head(lanes[level]) \in 1..offered
      BY <2>2, <3>1, HeadTail
    <3>3. lanes' \in [Levels -> Seq(1..offered)] /\ taken' \subseteq 1..offered
      BY <1>5, <2>2, <3>1, <3>2 DEF Take, TypeOK
    <3> QED
      BY <1>5, <2>2, <3>3 DEF Take, TypeOK, sched, extraction
  <2> QED
    BY <2>1, <2>2
<1>6. CASE Settle
  <2>1. CASE takeAlgorithm = "weighted"
    <3>1. Eff(level) \in Nat /\ Step(level) \in Nat /\ level \in Levels
      BY EffType, Stepped DEF TypeOK
    <3>a. vtime' = [vtime EXCEPT ![level] = Eff(level) + Step(level)] /\ vtime \in [Levels -> Nat]
      BY <1>6, <2>1 DEF Settle, TypeOK
    <3>b. systemV' = Eff(level) /\ tagged' \subseteq tagged \cup {level}
      BY <1>6, <2>1 DEF Settle
    <3>2. vtime' \in [Levels -> Nat] /\ systemV' \in Nat /\ tagged' \subseteq Levels
      BY <3>1, <3>a, <3>b DEF TypeOK
    <3> QED
      BY <1>6, <3>2 DEF Settle, Ended, TypeOK, extraction
  <2>2. CASE takeAlgorithm # "weighted"
    BY <1>6, <2>2 DEF Settle, Ended, TypeOK, extraction, sched
  <2> QED
    BY <2>1, <2>2
<1>7. CASE StartExtract
  <2>1. 0 \in Levels
    BY LevelNumbers DEF Levels
  <2> QED
    BY <1>7, <2>1 DEF StartExtract, TypeOK, sched, poll
<1>8. ASSUME NextLane
      PROVE  extractPc' \in {"idle", "poll", "reset"} /\ lane' \in Levels
  BY <1>8, LevelNumbers DEF NextLane, TypeOK, Levels
<1>9. CASE ExtractPoll
  <2>1. CASE lanes[lane] # <<>>
    <3>1. lanes[lane] \in Seq(1..offered) /\ lane \in Levels
      BY DEF TypeOK
    <3>2. Tail(lanes[lane]) \in Seq(1..offered) /\ Head(lanes[lane]) \in 1..offered
      BY <2>1, <3>1, HeadTail
    <3>3. lanes' \in [Levels -> Seq(1..offered)]
      BY <1>9, <2>1, <3>1, <3>2 DEF ExtractPoll, TypeOK
    <3>a. kept \in Seq(1..offered) /\ out \subseteq 1..offered
      BY DEF TypeOK
    <3>b. Append(kept, Head(lanes[lane])) \in Seq(1..offered)
      BY <3>2, <3>a
    <3>4. kept' \in Seq(1..offered) /\ out' \subseteq 1..offered
      BY <1>9, <2>1, <3>2, <3>a, <3>b DEF ExtractPoll
    <3>5. extractPc' # "restore" /\ stale' \in BOOLEAN
      BY <1>9, <2>1 DEF ExtractPoll, TypeOK
    <3> QED
      BY <1>9, <2>1, <3>3, <3>4, <3>5 DEF ExtractPoll, TypeOK, sched, poll
  <2>2. CASE lanes[lane] = <<>>
    BY <1>8, <1>9, <2>2 DEF ExtractPoll, TypeOK, sched, poll
  <2> QED
    BY <2>1, <2>2
<1>10. CASE ExtractRestore
  <2>1. /\ lanes[lane] \in Seq(1..offered) /\ lane \in Levels
        /\ kept \in Seq(1..offered) /\ Fits \in 1..Len(kept)
    BY <1>10, LaneAssumption DEF ExtractRestore, Fits, TypeOK
  <2> DEFINE n == Fits
  <2>a. n \in 0..Len(kept) /\ kept \in Seq(1..offered)
    BY <2>1
  <2> HIDE DEF n
  <2>b. SubSeq(kept, 1, n) \in Seq(1..offered) /\ SubSeq(kept, n + 1, Len(kept)) \in Seq(1..offered)
    BY <2>a, Parts
  <2>2. SubSeq(kept, 1, Fits) \in Seq(1..offered) /\ SubSeq(kept, Fits + 1, Len(kept)) \in Seq(1..offered)
    BY <2>b DEF n
  <2>3. lanes[lane] \o SubSeq(kept, 1, Fits) \in Seq(1..offered)
    BY <2>1, <2>2
  <2>4. lanes' \in [Levels -> Seq(1..offered)] /\ kept' \in Seq(1..offered)
    BY <1>10, <2>1, <2>2, <2>3 DEF ExtractRestore, TypeOK
  <2>5. CASE Fits = Len(kept)
    BY <1>8, <1>10, <2>4, <2>5 DEF ExtractRestore, TypeOK, sched, poll
  <2>6. CASE Fits # Len(kept)
    <3>1. Len(kept') = Len(kept) - Fits
      BY <1>10, <2>1 DEF ExtractRestore
    <3>2. kept' # <<>>
      BY <2>1, <2>4, <2>6, <3>1
    <3> QED
      BY <1>10, <2>4, <2>6, <3>2 DEF ExtractRestore, TypeOK, sched, poll
  <2> QED
    BY <2>5, <2>6
<1>11. CASE ExtractReset
  BY <1>11 DEF ExtractReset, TypeOK, poll
<1>12. CASE UNCHANGED vars
  BY <1>12 DEF vars, sched, poll, extraction, TypeOK
<1> QED
  BY <1>1, <1>2, <1>3, <1>4, <1>5, <1>6, <1>7, <1>9, <1>10, <1>11, <1>12 DEF Next

(* The state of the lanes is well formed after any steps.                   *)
THEOREM LanesTyped == Spec => []TypeOK
<1>1. Init => TypeOK
  BY TypesBegin
<1>2. TypeOK /\ [Next]_vars => TypeOK'
  BY TypesStep
<1> QED
  BY <1>1, <1>2, PTL DEF Spec

----------------------------------------------------------------------------
(* Places. Items are in lanes, with the extraction, or handed out.          *)

LanesApart ==
    /\ \A l \in Levels : Distinct(lanes[l])
    /\ \A l, m \in Levels : l # m => Elems(lanes[l]) \cap Elems(lanes[m]) = {}
KeptApart ==
    /\ Distinct(kept)
    /\ Elems(kept) \cap (taken \cup out) = {} /\ taken \cap out = {}
    /\ \A l \in Levels : Elems(lanes[l]) \cap (Elems(kept) \cup taken \cup out) = {}
SomePlace(x) ==
    \/ x \in Elems(kept) \cup taken \cup out
    \/ \E l \in Levels : x \in Elems(lanes[l])
KeptInUse == extractPc \in {"idle", "reset"} => kept = <<>>
Placed == LanesApart /\ KeptApart /\ \A x \in 1..offered : SomePlace(x)

LEMMA LaneElems ==
    ASSUME TypeOK
    PROVE  /\ \A l \in Levels : Elems(lanes[l]) \subseteq 1..offered
           /\ Elems(kept) \subseteq 1..offered
<1>1. kept \in Seq(1..offered) /\ \A l \in Levels : lanes[l] \in Seq(1..offered)
  BY DEF TypeOK
<1> QED
  BY <1>1, ElemsOf

(* One lane changes, together with what is kept and handed out; New comes    *)
(* in, and nothing is lost.                                                 *)
LaneMoves(l, q, New) ==
    /\ lanes' = [lanes EXCEPT ![l] = q]
    /\ Distinct(q) /\ Distinct(kept')
    /\ Elems(kept') \cap (taken' \cup out') = {} /\ taken' \cap out' = {}
    /\ Elems(q) \cap (Elems(kept') \cup taken' \cup out') = {}
    /\ New \cap (1..offered) = {} /\ 1..offered' \subseteq (1..offered) \cup New
    /\ Elems(q) \cup Elems(kept') \cup taken' \cup out'
         = Elems(lanes[l]) \cup Elems(kept) \cup taken \cup out \cup New

LEMMA OneLane ==
    ASSUME TypeOK, Placed, NEW l \in Levels, NEW q, NEW New, LaneMoves(l, q, New)
    PROVE  Placed'
<1>0. /\ lanes' = [lanes EXCEPT ![l] = q] /\ Distinct(q) /\ Distinct(kept')
      /\ Elems(kept') \cap (taken' \cup out') = {} /\ taken' \cap out' = {}
      /\ Elems(q) \cap (Elems(kept') \cup taken' \cup out') = {}
      /\ New \cap (1..offered) = {} /\ 1..offered' \subseteq (1..offered) \cup New
      /\ Elems(q) \cup Elems(kept') \cup taken' \cup out'
           = Elems(lanes[l]) \cup Elems(kept) \cup taken \cup out \cup New
  BY DEF LaneMoves
<1>1. lanes'[l] = q /\ \A m \in Levels \ {l} : lanes'[m] = lanes[m]
  BY <1>0 DEF TypeOK
<1>2. \A m \in Levels \ {l} :
         Elems(lanes[m]) \cap (Elems(lanes[l]) \cup Elems(kept) \cup taken \cup out \cup New) = {}
  BY <1>0, LaneElems DEF Placed, LanesApart, KeptApart, TypeOK
<1>3. LanesApart'
  <2>1. \A m \in Levels : Distinct(lanes'[m])
    BY <1>0, <1>1 DEF Placed, LanesApart
  <2>2. ASSUME NEW m \in Levels, NEW k \in Levels, m # k
        PROVE  Elems(lanes'[m]) \cap Elems(lanes'[k]) = {}
    <3>1. CASE m # l /\ k # l
      BY <1>1, <2>2, <3>1 DEF Placed, LanesApart
    <3>2. CASE m = l
      BY <1>0, <1>1, <1>2, <2>2, <3>2
    <3>3. CASE k = l
      BY <1>0, <1>1, <1>2, <2>2, <3>3
    <3> QED
      BY <3>1, <3>2, <3>3
  <2> QED
    BY <2>1, <2>2 DEF LanesApart
<1>4. KeptApart'
  <2>1. ASSUME NEW m \in Levels
        PROVE  Elems(lanes'[m]) \cap (Elems(kept') \cup taken' \cup out') = {}
    BY <1>0, <1>1, <1>2
  <2> QED
    BY <1>0, <2>1 DEF KeptApart
<1>5. ASSUME NEW x \in 1..offered'
      PROVE  SomePlace(x)'
  <2>1. CASE x \in New
    BY <1>0, <1>1, <2>1 DEF SomePlace
  <2>2. CASE x \in 1..offered
    <3>1. SomePlace(x)
      BY <2>2 DEF Placed
    <3>2. CASE \E m \in Levels \ {l} : x \in Elems(lanes[m])
      BY <1>1, <3>2 DEF SomePlace
    <3>3. CASE x \in Elems(lanes[l]) \cup Elems(kept) \cup taken \cup out
      BY <1>0, <1>1, <3>3 DEF SomePlace
    <3> QED
      BY <3>1, <3>2, <3>3 DEF SomePlace
  <2> QED
    BY <1>0, <2>1, <2>2
<1> QED
  BY <1>3, <1>4, <1>5 DEF Placed

LEMMA PlacedStep ==
    ASSUME TypeOK, Placed, KeptInUse, [Next]_vars
    PROVE  Placed'
<1>1. \A l \in Levels : lanes[l] \in Seq(1..offered)
  BY DEF TypeOK
<1>2. /\ \A l \in Levels : Distinct(lanes[l]) /\ Elems(lanes[l]) \cap (Elems(kept) \cup taken \cup out) = {}
      /\ Distinct(kept) /\ Elems(kept) \cap (taken \cup out) = {} /\ taken \cap out = {}
  BY DEF Placed, LanesApart, KeptApart
<1>3. ASSUME UNCHANGED <<lanes, offered, kept, taken, out>>
      PROVE  Placed'
  BY <1>3 DEF Placed, LanesApart, KeptApart, SomePlace
<1>4. ASSUME NEW input \in Inputs, Offer(input)
      PROVE  Placed'
  <2> DEFINE l == ResolveLevel(input)
             q == Append(lanes[l], offered + 1)
  <2>1. l \in Levels
    BY Resolved
  <2>2. /\ lanes' = [lanes EXCEPT ![l] = q] /\ offered' = offered + 1
        /\ UNCHANGED <<kept, taken, out>>
    BY <1>4 DEF Offer, extraction
  <2> HIDE DEF l
  <2>3. offered \in Nat /\ lanes[l] \in Seq(1..(offered + 1)) /\ offered + 1 \notin Elems(lanes[l])
    <3>1. offered \in Nat
      BY DEF TypeOK
    <3>2. Elems(lanes[l]) \subseteq 1..offered
      BY <2>1, LaneElems
    <3>3. lanes[l] \in Seq(1..(offered + 1))
      BY <1>1, <2>1, <3>1, SeqGrows
    <3> QED
      BY <3>1, <3>2, <3>3
  <2>4. Distinct(q) /\ Elems(q) = Elems(lanes[l]) \cup {offered + 1}
    BY <1>2, <2>1, <2>3, WithOneMore
  <2> HIDE DEF q
  <2>5. {offered + 1} \cap (1..offered) = {} /\ 1..offered' \subseteq (1..offered) \cup {offered + 1}
    BY <2>2, <2>3
  <2>6. offered + 1 \notin Elems(kept) \cup taken \cup out
    BY <2>3, LaneElems DEF TypeOK
  <2>7. Elems(q) \cap (Elems(kept') \cup taken' \cup out') = {}
    BY <1>2, <2>1, <2>2, <2>4, <2>6
  <2> DEFINE New == {offered + 1}
  <2>8. Elems(q) \cup Elems(kept') \cup taken' \cup out'
          = Elems(lanes[l]) \cup Elems(kept) \cup taken \cup out \cup New
    BY <2>2, <2>4
  <2>9. /\ Distinct(kept') /\ Elems(kept') \cap (taken' \cup out') = {}
        /\ taken' \cap out' = {}
    BY <1>2, <2>2
  <2>10. New \cap (1..offered) = {} /\ 1..offered' \subseteq (1..offered) \cup New
    BY <2>5
  <2> HIDE DEF New
  <2>11. LaneMoves(l, q, New)
    BY <2>2, <2>4, <2>7, <2>8, <2>9, <2>10 DEF LaneMoves
  <2> QED
    BY <2>1, <2>11, OneLane
<1>5. CASE Take
  <2>1. CASE lanes[level] = <<>>
    BY <1>3, <1>5, <2>1 DEF Take, extraction
  <2>2. CASE lanes[level] # <<>>
    <3> DEFINE q == Tail(lanes[level])
               x == Head(lanes[level])
    <3>1. level \in Levels
      BY DEF TypeOK
    <3>2. /\ Distinct(q) /\ x \in Elems(lanes[level])
          /\ Elems(q) = Elems(lanes[level]) \ {x}
      BY <1>1, <1>2, <2>2, <3>1, WithoutHead
    <3>3. /\ lanes' = [lanes EXCEPT ![level] = q] /\ taken' = taken \cup {x}
          /\ UNCHANGED <<offered, kept, out>>
      BY <1>5, <2>2 DEF Take, extraction
    <3> HIDE DEF q, x
    <3>4. /\ Elems(kept') \cap (taken' \cup out') = {} /\ taken' \cap out' = {}
          /\ Elems(q) \cap (Elems(kept') \cup taken' \cup out') = {}
      BY <1>2, <3>1, <3>2, <3>3
    <3>5. Elems(q) \cup Elems(kept') \cup taken' \cup out'
            = Elems(lanes[level]) \cup Elems(kept) \cup taken \cup out \cup {}
      BY <3>2, <3>3
    <3>6. LaneMoves(level, q, {})
      BY <1>2, <3>2, <3>3, <3>4, <3>5 DEF LaneMoves
    <3> QED
      BY <3>1, <3>6, OneLane
  <2> QED
    BY <2>1, <2>2
<1>6. CASE ExtractPoll
  <2>1. CASE lanes[lane] = <<>>
    BY <1>3, <1>6, <2>1 DEF ExtractPoll
  <2>2. CASE lanes[lane] # <<>>
    <3> DEFINE q == Tail(lanes[lane])
               x == Head(lanes[lane])
    <3>1. lane \in Levels /\ kept \in Seq(1..offered)
      BY DEF TypeOK
    <3>2. /\ Distinct(q) /\ x \in Elems(lanes[lane]) /\ x \in 1..offered
          /\ Elems(q) = Elems(lanes[lane]) \ {x}
      BY <1>1, <1>2, <2>2, <3>1, WithoutHead
    <3>3. /\ lanes' = [lanes EXCEPT ![lane] = q]
          /\ UNCHANGED <<offered, taken>>
          /\ \/ out' = out \cup {x} /\ kept' = kept
             \/ kept' = Append(kept, x) /\ out' = out
      BY <1>6, <2>2 DEF ExtractPoll
    <3>4. /\ Distinct(Append(kept, x))
          /\ Elems(Append(kept, x)) = Elems(kept) \cup {x}
      <4>1. x \notin Elems(kept) /\ Distinct(kept)
        BY <1>2, <3>1, <3>2
      <4> DEFINE S == 1..offered
      <4>2. x \in S /\ kept \in Seq(S)
        BY <3>1, <3>2
      <4> HIDE DEF x, q, S
      <4> QED
        BY <4>1, <4>2, WithOneMore
    <3> HIDE DEF q, x
    <3>5. CASE out' = out \cup {x} /\ kept' = kept
      <4>1. /\ Elems(kept') \cap (taken' \cup out') = {} /\ taken' \cap out' = {}
            /\ Elems(q) \cap (Elems(kept') \cup taken' \cup out') = {}
        BY <1>2, <3>1, <3>2, <3>3, <3>5
      <4>2. Elems(q) \cup Elems(kept') \cup taken' \cup out'
              = Elems(lanes[lane]) \cup Elems(kept) \cup taken \cup out \cup {}
        BY <3>2, <3>3, <3>5
      <4>3. LaneMoves(lane, q, {})
        BY <1>2, <3>2, <3>3, <3>5, <4>1, <4>2 DEF LaneMoves
      <4> QED
        BY <3>1, <4>3, OneLane
    <3>6. CASE kept' = Append(kept, x) /\ out' = out
      <4>1. /\ Elems(kept') \cap (taken' \cup out') = {} /\ taken' \cap out' = {}
            /\ Elems(q) \cap (Elems(kept') \cup taken' \cup out') = {}
        BY <1>2, <3>1, <3>2, <3>3, <3>4, <3>6
      <4>2. Elems(q) \cup Elems(kept') \cup taken' \cup out'
              = Elems(lanes[lane]) \cup Elems(kept) \cup taken \cup out \cup {}
        BY <3>2, <3>3, <3>4, <3>6
      <4>3. LaneMoves(lane, q, {})
        BY <3>2, <3>3, <3>4, <3>6, <4>1, <4>2 DEF LaneMoves
      <4> QED
        BY <3>1, <4>3, OneLane
    <3> QED
      BY <3>3, <3>5, <3>6
  <2> QED
    BY <2>1, <2>2
<1>7. CASE ExtractRestore
  <2> DEFINE n == Fits
             q == lanes[lane] \o SubSeq(kept, 1, n)
             rest == SubSeq(kept, n + 1, Len(kept))
  <2>1. lane \in Levels /\ kept \in Seq(1..offered)
    BY DEF TypeOK
  <2>2. n \in 0..Len(kept)
    BY <1>1, <1>7, <2>1, LaneAssumption DEF ExtractRestore, Fits
  <2>3. /\ lanes' = [lanes EXCEPT ![lane] = q] /\ kept' = rest
        /\ UNCHANGED <<offered, taken, out>>
    BY <1>7 DEF ExtractRestore
  <2> HIDE DEF n
  <2>4. /\ Distinct(q) /\ Distinct(rest) /\ Elems(q) \cap Elems(rest) = {}
        /\ Elems(q) \cup Elems(rest) = Elems(lanes[lane]) \cup Elems(kept)
        /\ Elems(rest) \subseteq Elems(kept)
    <3>1. lanes[lane] \in Seq(1..offered) /\ Distinct(lanes[lane]) /\ Distinct(kept)
          /\ Elems(lanes[lane]) \cap Elems(kept) = {}
      BY <1>1, <1>2, <2>1
    <3> QED
      BY <2>1, <2>2, <3>1, PartMoves
  <2> HIDE DEF q, rest
  <2>5. /\ Elems(kept') \cap (taken' \cup out') = {} /\ taken' \cap out' = {}
        /\ Elems(q) \cap (Elems(kept') \cup taken' \cup out') = {}
    BY <1>2, <2>1, <2>3, <2>4
  <2>6. Elems(q) \cup Elems(kept') \cup taken' \cup out'
          = Elems(lanes[lane]) \cup Elems(kept) \cup taken \cup out \cup {}
    BY <2>3, <2>4
  <2>7. LaneMoves(lane, q, {})
    BY <2>3, <2>4, <2>5, <2>6 DEF LaneMoves
  <2> QED
    BY <2>1, <2>7, OneLane
<1>8. CASE StartExtract
  BY <1>3, <1>8 DEF StartExtract, KeptInUse
<1>9. CASE StartPoll
  BY <1>3, <1>9 DEF StartPoll, extraction
<1>10. CASE Scan
  BY <1>3, <1>10 DEF Scan, extraction
<1>11. CASE Pick
  BY <1>3, <1>11 DEF Pick, extraction
<1>12. CASE Settle
  BY <1>3, <1>12 DEF Settle, extraction
<1>13. CASE ExtractReset
  BY <1>3, <1>13 DEF ExtractReset
<1>14. CASE UNCHANGED vars
  BY <1>3, <1>14 DEF vars, extraction
<1> QED
  BY <1>4, <1>5, <1>6, <1>7, <1>8, <1>9, <1>10, <1>11, <1>12, <1>13, <1>14 DEF Next

(* The extraction has items only while it polls and restores.               *)
LEMMA KeptStep ==
    ASSUME TypeOK, KeptInUse, [Next]_vars
    PROVE  KeptInUse'
<1>1. ASSUME UNCHANGED <<extractPc, kept>>
      PROVE  KeptInUse'
  BY <1>1 DEF KeptInUse
<1>2. CASE StartExtract
  BY <1>2 DEF StartExtract, KeptInUse
<1>3. CASE ExtractPoll
  <2>1. CASE lanes[lane] # <<>>
    BY <1>3, <2>1 DEF ExtractPoll, KeptInUse
  <2>2. CASE lanes[lane] = <<>> /\ kept # <<>>
    BY <1>3, <2>2 DEF ExtractPoll, KeptInUse
  <2>3. CASE lanes[lane] = <<>> /\ kept = <<>>
    BY <1>3, <2>3 DEF ExtractPoll, KeptInUse
  <2> QED
    BY <2>1, <2>2, <2>3
<1>4. CASE ExtractRestore
  <2> DEFINE n == Fits
  <2>1. kept \in Seq(1..offered) /\ lanes[lane] \in Seq(1..offered)
    BY DEF TypeOK
  <2>2. n \in 0..Len(kept)
    BY <1>4, <2>1, LaneAssumption DEF ExtractRestore, Fits
  <2>3. CASE n = Len(kept)
    <3>1. kept' = SubSeq(kept, n + 1, Len(kept))
      BY <1>4 DEF ExtractRestore
    <3> HIDE DEF n
    <3>2. kept' \in Seq(1..offered) /\ Len(kept') = 0
      BY <2>1, <2>2, <2>3, <3>1, Parts
    <3> QED
      BY <3>2, ElemsOf DEF KeptInUse
  <2>4. CASE n # Len(kept)
    BY <1>4, <2>4 DEF ExtractRestore, KeptInUse
  <2> QED
    BY <2>3, <2>4
<1>5. CASE ExtractReset
  BY <1>5 DEF ExtractReset, KeptInUse
<1>6. ASSUME NEW input \in Inputs, Offer(input)
      PROVE  KeptInUse'
  BY <1>1, <1>6 DEF Offer, extraction
<1>7. CASE StartPoll \/ Scan \/ Pick \/ Take \/ Settle
  BY <1>1, <1>7 DEF StartPoll, Scan, Pick, Take, Settle, extraction
<1>8. CASE UNCHANGED vars
  BY <1>1, <1>8 DEF vars, extraction
<1> QED
  BY <1>2, <1>3, <1>4, <1>5, <1>6, <1>7, <1>8 DEF Next

LEMMA PlacedBegin == Init => Placed /\ KeptInUse
<1> SUFFICES ASSUME Init
             PROVE  Placed /\ KeptInUse
  OBVIOUS
<1>1. \A l \in Levels : lanes[l] = <<>> /\ kept = <<>> /\ taken = {} /\ out = {} /\ offered = 0
  BY DEF Init
<1>2. kept = <<>> /\ taken = {} /\ out = {} /\ offered = 0
  BY DEF Init
<1>3. Elems(<<>>) = {} /\ Distinct(<<>>)
  BY DEF Elems, Distinct
<1>4. 1..offered = {}
  BY <1>2
<1> QED
  BY <1>1, <1>2, <1>3, <1>4 DEF Placed, LanesApart, KeptApart, KeptInUse

(* A sequence without repetition has as many elements as places.            *)
LEMMA AsManyAsPlaces ==
    ASSUME NEW S, NEW s \in Seq(S), Distinct(s)
    PROVE  Cardinality(Elems(s)) = Len(s)
<1>1. Len(s) \in Nat /\ s \in [1..Len(s) -> Elems(s)]
  BY DEF Elems
<1>2. \A x \in Elems(s) : \E i \in 1..Len(s) : s[i] = x
  BY ElemsOf
<1> DEFINE places == 1..Len(s)
<1>3. \A a, b \in places : s[a] = s[b] => a = b
  BY DEF Distinct
<1>4. IsFiniteSet(places) /\ Cardinality(places) = Len(s)
  BY <1>1, FS_Interval
<1>5. s \in [places -> Elems(s)] /\ \A x \in Elems(s) : \E i \in places : s[i] = x
  BY <1>1, <1>2
<1> HIDE DEF places
<1>6. s \in Bijection(places, Elems(s))
  BY <1>3, <1>5, Fun_IsBij
<1>7. ExistsBijection(places, Elems(s))
  BY <1>6 DEF ExistsBijection
<1> QED
  BY <1>4, <1>7, FS_Bijection

LEMMA PlacesCounted ==
    ASSUME TypeOK, Placed
    PROVE  EachOnce
<1>1. Kept = Elems(kept) /\ \A l \in Levels : InLane(l) = Elems(lanes[l])
  BY DEF Kept, InLane, Elems
<1>2. \A l \in Levels : lanes[l] \in Seq(1..offered) /\ Distinct(lanes[l])
  BY DEF TypeOK, Placed, LanesApart
<1>3. \A l \in Levels : Cardinality(InLane(l)) = Len(lanes[l])
  BY <1>1, <1>2, AsManyAsPlaces
<1>4. ASSUME NEW x \in 1..offered
      PROVE  Cardinality({l \in Levels : x \in InLane(l)})
               + (IF x \in Kept THEN 1 ELSE 0) + (IF x \in taken THEN 1 ELSE 0)
               + (IF x \in out THEN 1 ELSE 0) = 1
  <2> DEFINE Holding == {l \in Levels : x \in InLane(l)}
  <2>1. CASE \E l \in Levels : x \in Elems(lanes[l])
    <3>1. PICK l \in Levels : x \in Elems(lanes[l])
      BY <2>1
    <3>2. Holding = {l}
      BY <1>1, <3>1 DEF Placed, LanesApart
    <3>3. x \notin Kept /\ x \notin taken /\ x \notin out
      BY <1>1, <3>1 DEF Placed, KeptApart
    <3>4. Cardinality(Holding) = 1
      BY <3>2, FS_Singleton
    <3> HIDE DEF Holding
    <3>5. Cardinality(Holding) + (IF x \in Kept THEN 1 ELSE 0)
            + (IF x \in taken THEN 1 ELSE 0) + (IF x \in out THEN 1 ELSE 0) = 1
      BY <3>3, <3>4
    <3> QED
      BY <3>5 DEF Holding
  <2>2. CASE ~ \E l \in Levels : x \in Elems(lanes[l])
    <3>1. Holding = {}
      BY <1>1, <2>2
    <3>2. x \in Elems(kept) \cup taken \cup out
      BY <2>2 DEF Placed, SomePlace
    <3>3. \/ x \in Kept /\ x \notin taken /\ x \notin out
          \/ x \notin Kept /\ x \in taken /\ x \notin out
          \/ x \notin Kept /\ x \notin taken /\ x \in out
      BY <1>1, <3>2 DEF Placed, KeptApart
    <3>4. Cardinality(Holding) = 0
      BY <3>1, FS_EmptySet
    <3> HIDE DEF Holding
    <3>5. Cardinality(Holding) + (IF x \in Kept THEN 1 ELSE 0)
            + (IF x \in taken THEN 1 ELSE 0) + (IF x \in out THEN 1 ELSE 0) = 1
      BY <3>3, <3>4
    <3> QED
      BY <3>5 DEF Holding
  <2> QED
    BY <2>1, <2>2
<1> QED
  BY <1>3, <1>4 DEF EachOnce

(* An item is in one place, whatever polls, offers and extractions do at     *)
(* the same time: none is handed out twice and none is lost.                *)
THEOREM LanesEachOnce == Spec => []EachOnce
<1>1. Init => Placed /\ KeptInUse
  BY PlacedBegin
<1>2. TypeOK /\ Placed /\ KeptInUse /\ [Next]_vars => Placed' /\ KeptInUse'
  BY PlacedStep, KeptStep
<1>3. TypeOK /\ Placed => EachOnce
  BY PlacesCounted
<1> QED
  BY <1>1, <1>2, <1>3, LanesTyped, PTL DEF Spec

----------------------------------------------------------------------------
(* Virtual times. A poll picks the smallest of the tagged lanes it found,   *)
(* and it found all of them; so the clock never passes one of them.         *)

TaggedWait == tagged \subseteq Waiting
TaggedAhead == \A l \in tagged : systemV <= vtime[l] /\ vtime[l] <= systemV + Step(l)
TaggedFound == pc = "scan" => \A l \in tagged : l < scan => l \in nonEmpty
PickedFirst ==
    pc \in {"take", "settle"} /\ takeAlgorithm = "weighted"
        => \A l \in tagged : Eff(level) <= vtime[l]
Clock == TaggedWait /\ TaggedAhead /\ TaggedFound /\ PickedFirst
Near ==
    /\ takeAlgorithm # "weighted" => tagged = {}
    /\ ~stale => Clock

(* A lane that gets an item stays one that waits.                           *)
LEMMA StillWaiting ==
    ASSUME TypeOK, TypeOK', TaggedWait, UNCHANGED <<tagged, pc, level>>,
           \A l \in tagged : Len(lanes[l]) > 0 => Len(lanes'[l]) > 0
    PROVE  TaggedWait'
BY DEF TypeOK, TaggedWait, Waiting, Full

LEMMA ClockStands ==
    ASSUME Near, UNCHANGED <<takeAlgorithm, sched, poll, stale>>, Clock => TaggedWait'
    PROVE  Near'
BY DEF Near, Clock, TaggedAhead, TaggedFound, PickedFirst, Eff, Step, sched, poll

LEMMA SettleNear ==
    ASSUME TypeOK, TypeOK', Near, Settle, takeAlgorithm = "weighted", ~stale
    PROVE  Clock'
<1> DEFINE v == Eff(level)
<1>1. /\ level \in Levels /\ v \in Nat /\ Step(level) \in Nat /\ systemV \in Nat
      /\ \A l \in Levels : Step(l) \in Nat /\ vtime[l] \in Nat
      /\ tagged \subseteq Levels
  <2>1. Scale \in Nat
    BY LaneAssumption
  <2>2. \A l \in Levels : Step(l) \in Nat
    BY <2>1, Stepped
  <2> QED
    BY <2>2, EffType DEF TypeOK
<1>2. /\ pc = "settle" /\ pc' = "idle" /\ lanes' = lanes /\ systemV' = v
      /\ tagged' = IF lanes[level] = <<>> THEN tagged \ {level} ELSE tagged \cup {level}
      /\ vtime' = [vtime EXCEPT ![level] = v + Step(level)]
  BY DEF Settle, Ended
<1>3. TaggedWait /\ TaggedAhead /\ \A l \in tagged : v <= vtime[l]
  BY <1>2 DEF Near, Clock, PickedFirst
<1>4. systemV <= v
  <2>1. CASE level \in tagged
    BY <1>3, <2>1 DEF TaggedAhead, Eff
  <2>2. CASE level \notin tagged
    BY <1>1, <2>2 DEF Eff
  <2> QED
    BY <2>1, <2>2
<1> HIDE DEF v
<1>5. TaggedWait'
  <2>1. lanes[level] \in Seq(1..offered)
    BY <1>1 DEF TypeOK
  <2>2. lanes[level] # <<>> => Len(lanes[level]) > 0
    BY <2>1, ElemsOf
  <2>3. Full(lanes) \subseteq Waiting' /\ Waiting = Full(lanes) \cup {level}
    BY <1>2 DEF Waiting
  <2>4. lanes[level] # <<>> => level \in Full(lanes)
    BY <1>1, <2>2 DEF Full
  <2> QED
    BY <1>2, <1>3, <2>3, <2>4 DEF TaggedWait
<1>6. TaggedAhead'
  <2>1. ASSUME NEW l \in tagged'
        PROVE  systemV' <= vtime'[l] /\ vtime'[l] <= systemV' + Step(l)
    <3>1. CASE l = level
      <4>1. vtime'[l] = v + Step(level)
        BY <1>1, <1>2, <3>1 DEF TypeOK
      <4> QED
        BY <1>1, <1>2, <3>1, <4>1
    <3>2. CASE l # level
      <4>1. l \in tagged /\ l \in Levels /\ vtime'[l] = vtime[l]
        BY <1>1, <1>2, <2>1, <3>2 DEF TypeOK
      <4>2. v <= vtime[l] /\ vtime[l] <= systemV + Step(l)
        BY <1>3, <4>1 DEF TaggedAhead
      <4> QED
        BY <1>1, <1>2, <1>4, <4>1, <4>2
    <3> QED
      BY <3>1, <3>2
  <2>2. \A l \in tagged' : Step(l)' = Step(l)
    BY DEF Step
  <2> QED
    BY <2>1, <2>2 DEF TaggedAhead
<1> QED
  BY <1>2, <1>5, <1>6 DEF Clock, TaggedFound, PickedFirst

LEMMA NearStep ==
    ASSUME TypeOK, TypeOK', Near, [Next]_vars
    PROVE  Near'
<1>0. \A l \in Levels : lanes[l] \in Seq(1..offered)
  BY DEF TypeOK
<1>1. ASSUME NEW input \in Inputs, Offer(input)
      PROVE  Near'
  <2> DEFINE l == ResolveLevel(input)
  <2>1. lanes' = [lanes EXCEPT ![l] = Append(@, offered + 1)]
        /\ UNCHANGED <<takeAlgorithm, sched, poll, stale>>
    BY <1>1 DEF Offer
  <2>2. l \in Levels
    BY Resolved
  <2> HIDE DEF l
  <2>3. \A m \in Levels : Len(lanes[m]) > 0 => Len(lanes'[m]) > 0
    <3>1. lanes[l] \in Seq(1..offered) /\ lanes'[l] = Append(lanes[l], offered + 1)
      BY <1>0, <2>1, <2>2 DEF TypeOK
    <3>2. Len(lanes'[l]) > 0
      BY <3>1
    <3>3. \A m \in Levels \ {l} : lanes'[m] = lanes[m]
      BY <2>1, <2>2 DEF TypeOK
    <3> QED
      BY <3>2, <3>3
  <2>4. UNCHANGED <<tagged, pc, level>>
    BY <2>1 DEF sched, poll
  <2>5. Clock => TaggedWait'
    BY <2>3, <2>4, StillWaiting DEF Clock, TypeOK
  <2> QED
    BY <2>1, <2>5, ClockStands
<1>2. CASE StartPoll
  <2>1. /\ UNCHANGED <<takeAlgorithm, lanes, sched, stale>> /\ pc = "idle"
        /\ pc' = "scan" /\ scan' = 0
    BY <1>2 DEF StartPoll
  <2>2. Clock => TaggedWait' /\ TaggedAhead' /\ PickedFirst'
    BY <2>1 DEF Clock, TaggedWait, TaggedAhead, PickedFirst, Waiting, sched, Step
  <2>3. TaggedFound'
    <3>1. ASSUME NEW l \in tagged'
          PROVE  ~ (l < scan')
      <4>1. l \in Levels
        BY <2>1, <3>1 DEF TypeOK, sched
      <4> QED
        BY <2>1, <4>1, LevelNumbers
    <3> QED
      BY <3>1 DEF TaggedFound
  <2> QED
    BY <2>1, <2>2, <2>3 DEF Near, Clock, sched
<1>3. CASE Scan
  <2>1. Clock => TaggedFound'
    <3> SUFFICES ASSUME Clock, NEW l \in tagged, l < scan + 1
                 PROVE  l \in nonEmpty'
      BY <1>3 DEF Scan, TaggedFound, sched
    <3>1. l \in Levels /\ l \in Nat /\ scan \in Nat
      BY LevelNumbers DEF TypeOK
    <3>2. CASE l < scan
      BY <1>3, <3>2 DEF Scan, Clock, TaggedFound
    <3>3. CASE l = scan
      <4>1. Len(lanes[scan]) > 0
        BY <1>3, <3>3 DEF Scan, Clock, TaggedWait, Waiting, Full
      <4> QED
        BY <1>3, <3>3, <4>1 DEF Scan
    <3> QED
      BY <3>1, <3>2, <3>3
  <2>2. Clock => TaggedWait'
    BY <1>3 DEF Scan, Clock, TaggedWait, Waiting, sched
  <2>3. Clock => TaggedAhead' /\ PickedFirst'
    BY <1>3 DEF Scan, Clock, TaggedAhead, PickedFirst, sched, Step
  <2> QED
    BY <1>3, <2>1, <2>2, <2>3 DEF Near, Clock, Scan, sched
<1>4. CASE Pick
  <2>1. /\ UNCHANGED <<takeAlgorithm, lanes, sched, stale>> /\ pc = "scan" /\ scan = LevelCount
        /\ pc' # "scan" /\ pc' # "settle"
    BY <1>4 DEF Pick, Ended
  <2>2. Clock => TaggedWait' /\ TaggedAhead' /\ TaggedFound'
    BY <2>1 DEF Clock, TaggedWait, TaggedAhead, TaggedFound, Waiting, sched, Step
  <2>3. Clock => PickedFirst'
    <3> SUFFICES ASSUME Clock, pc' = "take", takeAlgorithm = "weighted", NEW l \in tagged
                 PROVE  Eff(level)' <= vtime[l]
      BY <2>1 DEF PickedFirst, sched
    <3>1. nonEmpty # {} /\ level' \in Picks(nonEmpty)
      BY <1>4 DEF Pick, Ended
    <3>2. level' = Earliest(nonEmpty)
      BY <3>1 DEF Picks
    <3>3. l \in nonEmpty /\ nonEmpty \subseteq Levels
      BY <2>1, LevelNumbers DEF Clock, TaggedFound, TypeOK
    <3>4. Eff(level') <= Eff(l)
      BY <3>1, <3>2, <3>3, EarliestPicked
    <3>5. Eff(level)' = Eff(level') /\ Eff(l) = vtime[l]
      BY <2>1 DEF Eff, sched
    <3> QED
      BY <3>4, <3>5
  <2> QED
    BY <2>1, <2>2, <2>3 DEF Near, Clock, sched
<1>5. CASE Take
  <2>1. UNCHANGED <<takeAlgorithm, sched, stale, level>> /\ pc = "take" /\ pc' # "scan"
    BY <1>5 DEF Take, Ended
  <2>2. Clock => TaggedAhead' /\ TaggedFound' /\ PickedFirst'
    BY <2>1 DEF Clock, TaggedAhead, TaggedFound, PickedFirst, sched, Step, Eff
  <2>3. CASE lanes[level] = <<>>
    BY <1>5, <2>1, <2>2, <2>3 DEF Take, Near, Clock, TaggedWait, Waiting, sched, Ended
  <2>4. CASE lanes[level] # <<>>
    <3>1. pc' = "settle" /\ \A l \in Levels \ {level} : lanes'[l] = lanes[l]
      BY <1>5, <2>4 DEF Take, TypeOK
    <3>2. Clock => TaggedWait'
      BY <2>1, <3>1 DEF Clock, TaggedWait, Waiting, Full, sched, TypeOK
    <3> QED
      BY <2>1, <2>2, <3>2 DEF Near, Clock, sched
  <2> QED
    BY <2>3, <2>4
<1>6. CASE Settle
  <2>1. CASE takeAlgorithm = "weighted"
    BY <1>6, <2>1, SettleNear DEF Near, Settle
  <2>2. CASE takeAlgorithm # "weighted"
    <3>1. tagged' = {} /\ takeAlgorithm' # "weighted" /\ pc' = "idle"
      BY <1>6, <2>2 DEF Settle, Near, sched, Ended
    <3> QED
      BY <3>1 DEF Near, Clock, TaggedWait, TaggedAhead, TaggedFound, PickedFirst
  <2> QED
    BY <2>1, <2>2
<1>7. CASE StartExtract
  BY <1>7, ClockStands DEF StartExtract, Clock, TaggedWait, Waiting, sched, poll
<1>8. CASE ExtractPoll
  <2>1. UNCHANGED <<takeAlgorithm, sched, poll>>
    BY <1>8 DEF ExtractPoll
  <2>2. CASE lanes[lane] = <<>>
    <3>1. UNCHANGED <<lanes, stale>>
      BY <1>8, <2>2 DEF ExtractPoll
    <3> QED
      BY <2>1, <3>1, ClockStands DEF Clock, TaggedWait, Waiting, sched, poll
  <2>3. CASE lanes[lane] # <<>>
    <3>1. /\ lanes' = [lanes EXCEPT ![lane] = Tail(@)]
          /\ stale' = (stale \/ /\ Len(lanes[lane]) = 1
                                /\ lane \in tagged \/ (pc = "settle" /\ level = lane))
      BY <1>8, <2>3 DEF ExtractPoll
    <3>2. CASE stale'
      BY <2>1, <3>2 DEF Near, sched
    <3>3. CASE ~stale'
      <4>1. lanes[lane] \in Seq(1..offered) /\ lanes'[lane] = Tail(lanes[lane])
            /\ \A l \in Levels \ {lane} : lanes'[l] = lanes[l]
        BY <1>0, <3>1 DEF TypeOK
      <4>2. Len(lanes'[lane]) = Len(lanes[lane]) - 1 /\ Len(lanes[lane]) \in Nat
        BY <2>3, <4>1, HeadTail
      <4>3. ~stale /\ (lane \in tagged => Len(lanes[lane]) # 1)
        BY <3>1, <3>3 DEF TypeOK
      <4>4. \A l \in tagged : Len(lanes[l]) > 0 => Len(lanes'[l]) > 0
        <5>1. ASSUME NEW l \in tagged, Len(lanes[l]) > 0
              PROVE  Len(lanes'[l]) > 0
          <6>1. l \in Levels
            BY DEF TypeOK
          <6>2. CASE l = lane
            <7>1. lane \in tagged /\ Len(lanes[lane]) > 0
              BY <5>1, <6>2
            <7> DEFINE n == Len(lanes[lane])
                       m == Len(lanes'[lane])
            <7>2. n # 1 /\ n > 0 /\ n \in Nat /\ m = n - 1
              BY <4>2, <4>3, <7>1
            <7> HIDE DEF n, m
            <7>3. m > 0
              BY <7>2
            <7> QED
              BY <6>2, <7>3 DEF m
          <6>3. CASE l # lane
            BY <4>1, <5>1, <6>1, <6>3
          <6> QED
            BY <6>2, <6>3
        <5> QED
          BY <5>1
      <4>5. Clock => TaggedWait'
        BY <2>1, <4>4, StillWaiting DEF Clock, sched, poll
      <4> QED
        BY <2>1, <3>3, <4>3, <4>5, ClockStands DEF TypeOK
    <3> QED
      BY <3>2, <3>3
  <2> QED
    BY <2>2, <2>3
<1>9. CASE ExtractRestore
  <2>1. /\ lanes' = [lanes EXCEPT ![lane] = @ \o SubSeq(kept, 1, Fits)]
        /\ UNCHANGED <<takeAlgorithm, sched, poll, stale>>
    BY <1>9 DEF ExtractRestore
  <2>a. kept \in Seq(1..offered) /\ lane \in Levels
    BY DEF TypeOK
  <2>2. Fits \in 0..Len(kept) /\ kept \in Seq(1..offered) /\ lane \in Levels
    BY <1>0, <1>9, <2>a, LaneAssumption DEF ExtractRestore, Fits
  <2> DEFINE part == SubSeq(kept, 1, Fits)
  <2>3. part \in Seq(1..offered)
    BY <2>2, Parts
  <2> HIDE DEF part
  <2>4. \A l \in Levels : Len(lanes[l]) > 0 => Len(lanes'[l]) > 0
    <3>1. lanes[lane] \in Seq(1..offered) /\ lanes'[lane] = lanes[lane] \o part
      BY <1>0, <2>1, <2>2 DEF TypeOK, part
    <3>2. Len(lanes[lane]) > 0 => Len(lanes'[lane]) > 0
      BY <2>3, <3>1
    <3>3. \A l \in Levels \ {lane} : lanes'[l] = lanes[l]
      BY <2>1, <2>2 DEF TypeOK
    <3> QED
      BY <3>2, <3>3
  <2>5. Clock => TaggedWait'
    BY <2>1, <2>4, StillWaiting DEF Clock, TypeOK, sched, poll
  <2> QED
    BY <2>1, <2>5, ClockStands
<1>10. CASE ExtractReset
  BY <1>10 DEF ExtractReset, Near, Clock, TaggedWait, TaggedAhead, TaggedFound, PickedFirst, poll
<1>11. CASE UNCHANGED vars
  BY <1>11, ClockStands DEF vars, Clock, TaggedWait, Waiting, sched, poll
<1> QED
  BY <1>1, <1>2, <1>3, <1>4, <1>5, <1>6, <1>7, <1>8, <1>9, <1>10, <1>11 DEF Next

LEMMA NearHolds == Spec => [](TypeOK /\ Near)
<1>1. Init => Near
  BY DEF Init, Near, Clock, TaggedWait, TaggedAhead, TaggedFound, PickedFirst
<1>2. TypeOK /\ TypeOK' /\ Near /\ [Next]_vars => Near'
  BY NearStep
<1> QED
  BY <1>1, <1>2, LanesTyped, PTL DEF Spec

(* Unless an extraction has emptied a lane with a virtual time since the     *)
(* last drain, no lane that waits is behind the clock of the weighted        *)
(* algorithm, and none is more than its own step ahead of it.               *)
THEOREM LanesNearClock == Spec => []TagsNear
<1>1. TypeOK /\ Near => TagsNear
  <2> SUFFICES ASSUME TypeOK, Near, ~stale, NEW l \in tagged \cap Waiting
               PROVE  vtime[l] \in systemV..(systemV + Step(l))
    BY DEF TagsNear
  <2>1. l \in Levels /\ vtime[l] \in Nat /\ systemV \in Nat
    BY DEF TypeOK
  <2>2. systemV <= vtime[l] /\ vtime[l] <= systemV + Step(l)
    BY DEF Near, Clock, TaggedAhead
  <2>3. Step(l) \in Nat
    BY <2>1, Stepped, LaneAssumption
  <2> QED
    BY <2>1, <2>2, <2>3
<1> QED
  BY <1>1, NearHolds, PTL


----------------------------------------------------------------------------
(* Polls that no extraction disturbs. The lanes that such a poll found have  *)
(* items until it takes one, and it found every lane that had one.           *)

Unmet == ~met => extractPc = "idle"
PollSound ==
    pc \in {"scan", "take"} /\ ~met =>
        /\ atStart \subseteq Full(lanes) /\ nonEmpty \subseteq Full(lanes)
        /\ ~sawEmpty => atStart # {}
        /\ pc = "scan" => \A l \in atStart : l < scan => l \in nonEmpty
        /\ pc = "take" => atStart \subseteq nonEmpty /\ level \in nonEmpty
StrictPicked ==
    pc = "take" /\ takeAlgorithm = "strict-descending"
        => \A l \in nonEmpty : l <= level
Polls == Unmet /\ PollSound /\ StrictPicked

(* No lane loses its last item.                                              *)
LEMMA StillFull ==
    ASSUME \A l \in Levels : Len(lanes[l]) > 0 => Len(lanes'[l]) > 0
    PROVE  Full(lanes) \subseteq Full(lanes')
BY DEF Full

LEMMA OfferFills ==
    ASSUME TypeOK, NEW input \in Inputs, Offer(input)
    PROVE  /\ \A l \in Levels : Len(lanes[l]) > 0 => Len(lanes'[l]) > 0
           /\ served' # Zero => Full(lanes') = Full(lanes) /\ served' = served
<1> DEFINE l == ResolveLevel(input)
<1>1. /\ lanes' = [lanes EXCEPT ![l] = Append(@, offered + 1)]
      /\ served' = IF lanes[l] = <<>> THEN Zero ELSE served
  BY DEF Offer
<1>2. l \in Levels
  BY Resolved
<1> HIDE DEF l
<1>3. lanes[l] \in Seq(1..offered) /\ lanes'[l] = Append(lanes[l], offered + 1)
  BY <1>1, <1>2 DEF TypeOK
<1>4. Len(lanes'[l]) > 0 /\ (lanes[l] # <<>> => Len(lanes[l]) > 0)
  BY <1>3, ElemsOf
<1>5. \A m \in Levels \ {l} : lanes'[m] = lanes[m]
  BY <1>1, <1>2 DEF TypeOK
<1>6. lanes[l] # <<>> => Full(lanes') = Full(lanes)
  BY <1>2, <1>4, <1>5 DEF Full
<1> QED
  BY <1>1, <1>4, <1>5, <1>6

LEMMA RestoreFills ==
    ASSUME TypeOK, ExtractRestore
    PROVE  /\ \A l \in Levels : Len(lanes[l]) > 0 => Len(lanes'[l]) > 0
           /\ served' # Zero => Full(lanes') = Full(lanes) /\ served' = served
<1>1. /\ lanes' = [lanes EXCEPT ![lane] = @ \o SubSeq(kept, 1, Fits)]
      /\ served' = IF lanes[lane] = <<>> THEN Zero ELSE served
  BY DEF ExtractRestore
<1>2. kept \in Seq(1..offered) /\ lane \in Levels /\ lanes[lane] \in Seq(1..offered)
  BY DEF TypeOK
<1>3. Fits \in 0..Len(kept)
  BY <1>2, LaneAssumption DEF ExtractRestore, Fits
<1> DEFINE part == SubSeq(kept, 1, Fits)
<1>4. part \in Seq(1..offered)
  BY <1>2, <1>3, Parts
<1>5. lanes'[lane] = lanes[lane] \o part
  BY <1>1, <1>2 DEF TypeOK
<1> HIDE DEF part
<1>6. /\ Len(lanes[lane]) > 0 => Len(lanes'[lane]) > 0
      /\ lanes[lane] # <<>> => Len(lanes[lane]) > 0
  BY <1>2, <1>4, <1>5, ElemsOf
<1>7. \A l \in Levels \ {lane} : lanes'[l] = lanes[l]
  BY <1>1, <1>2 DEF TypeOK
<1>8. lanes[lane] # <<>> => Full(lanes') = Full(lanes)
  BY <1>2, <1>6, <1>7 DEF Full
<1> QED
  BY <1>1, <1>6, <1>7, <1>8

LEMMA PollsStep ==
    ASSUME TypeOK, TypeOK', Polls, [Next]_vars
    PROVE  Polls'
<1>0. \A l \in Levels : lanes[l] \in Seq(1..offered)
  BY DEF TypeOK
<1>1. ASSUME Full(lanes) \subseteq Full(lanes'),
             UNCHANGED <<takeAlgorithm, poll, atStart, sawEmpty, met>>
      PROVE  PollSound' /\ StrictPicked'
  BY <1>1 DEF Polls, PollSound, StrictPicked, poll
<1>2. ASSUME NEW input \in Inputs, Offer(input)
      PROVE  Polls'
  <2>1. Full(lanes) \subseteq Full(lanes')
    BY <1>2, OfferFills, StillFull
  <2>2. UNCHANGED <<takeAlgorithm, poll, extraction, atStart, sawEmpty, met>>
    BY <1>2 DEF Offer
  <2> QED
    BY <1>1, <2>1, <2>2 DEF Polls, Unmet, extraction
<1>3. CASE StartPoll
  <2>1. /\ pc' = "scan" /\ scan' = 0 /\ nonEmpty' = {} /\ atStart' = Full(lanes)
        /\ sawEmpty' = (Full(lanes) = {}) /\ met' = (extractPc # "idle")
        /\ lanes' = lanes /\ extractPc' = extractPc
    BY <1>3 DEF StartPoll, extraction
  <2>2. \A l \in Full(lanes) : ~ (l < 0)
    BY LevelNumbers DEF Full
  <2>3. PollSound'
    BY <2>1, <2>2 DEF PollSound
  <2> QED
    BY <2>1, <2>3 DEF Polls, Unmet, StrictPicked
<1>4. CASE Scan
  <2>1. /\ pc = "scan" /\ pc' = "scan" /\ scan < LevelCount /\ scan' = scan + 1
        /\ nonEmpty' = IF Len(lanes[scan]) > 0 THEN nonEmpty \cup {scan} ELSE nonEmpty
        /\ UNCHANGED <<lanes, extractPc, atStart, sawEmpty, met>>
    BY <1>4 DEF Scan, extraction
  <2>2. scan \in Levels /\ scan \in Nat
    BY <2>1, LevelNumbers DEF TypeOK, Levels
  <2>3. PollSound'
    <3> SUFFICES ASSUME ~met
                 PROVE  /\ atStart \subseteq Full(lanes) /\ nonEmpty' \subseteq Full(lanes)
                        /\ ~sawEmpty => atStart # {}
                        /\ \A l \in atStart : l < scan + 1 => l \in nonEmpty'
      BY <2>1 DEF PollSound
    <3>1. /\ atStart \subseteq Full(lanes) /\ nonEmpty \subseteq Full(lanes)
          /\ ~sawEmpty => atStart # {}
          /\ \A l \in atStart : l < scan => l \in nonEmpty
      BY <2>1 DEF Polls, PollSound
    <3>2. nonEmpty' \subseteq Full(lanes)
      BY <2>1, <2>2, <3>1 DEF Full
    <3>3. ASSUME NEW l \in atStart, l < scan + 1
          PROVE  l \in nonEmpty'
      <4>1. l \in Nat /\ Len(lanes[l]) > 0
        BY <3>1, LevelNumbers DEF Full
      <4>2. CASE l = scan
        BY <2>1, <4>1, <4>2
      <4>3. CASE l # scan
        BY <2>1, <2>2, <3>1, <3>3, <4>1, <4>3
      <4> QED
        BY <4>2, <4>3
    <3> QED
      BY <3>1, <3>2, <3>3
  <2> QED
    BY <2>1, <2>3 DEF Polls, Unmet, StrictPicked
<1>5. CASE Pick
  <2>1. /\ pc = "scan" /\ scan = LevelCount
        /\ UNCHANGED <<takeAlgorithm, lanes, extractPc, atStart, sawEmpty, met, nonEmpty>>
        /\ \/ nonEmpty # {} /\ level' \in Picks(nonEmpty) /\ pc' = "take"
           \/ pc' = "idle"
    BY <1>5 DEF Pick, Ended, extraction
  <2>2. CASE pc' = "idle"
    BY <2>1, <2>2 DEF Polls, Unmet, PollSound, StrictPicked
  <2>3. CASE nonEmpty # {} /\ level' \in Picks(nonEmpty) /\ pc' = "take"
    <3>1. nonEmpty \subseteq Levels
      BY DEF TypeOK
    <3>2. level' \in nonEmpty
      BY <2>3, <3>1, PicksOffered
    <3>3. PollSound'
      <4> SUFFICES ASSUME ~met
                   PROVE  /\ atStart \subseteq Full(lanes) /\ nonEmpty \subseteq Full(lanes)
                          /\ ~sawEmpty => atStart # {}
                          /\ atStart \subseteq nonEmpty
        BY <2>1, <2>3, <3>2 DEF PollSound
      <4>1. /\ atStart \subseteq Full(lanes) /\ nonEmpty \subseteq Full(lanes)
            /\ ~sawEmpty => atStart # {}
            /\ \A l \in atStart : l < scan => l \in nonEmpty
        BY <2>1 DEF Polls, PollSound
      <4>2. \A l \in atStart : l < scan
        BY <2>1, <4>1, LevelNumbers DEF Full
      <4> QED
        BY <4>1, <4>2
    <3>4. StrictPicked'
      <4> SUFFICES ASSUME takeAlgorithm = "strict-descending", NEW l \in nonEmpty
                   PROVE  l <= level'
        BY <2>1 DEF StrictPicked
      <4>1. level' = Highest(nonEmpty)
        BY <2>3 DEF Picks
      <4>2. level' >= l
        BY <2>3, <3>1, <4>1, HighestPicked
      <4> QED
        BY <3>1, <3>2, <4>2, LevelNumbers
    <3> QED
      BY <2>1, <3>3, <3>4 DEF Polls, Unmet
  <2> QED
    BY <2>1, <2>2, <2>3
<1>6. CASE Take
  <2>1. pc' \in {"idle", "settle"} /\ extractPc' = extractPc
    BY <1>6 DEF Take, Ended, extraction
  <2>2. ~met' => extractPc = "idle"
    <3>1. CASE lanes[level] = <<>>
      BY <1>6, <3>1 DEF Take, Polls, Unmet
    <3>2. CASE lanes[level] # <<>>
      BY <1>6, <3>2 DEF Take, Watch
    <3> QED
      BY <3>1, <3>2
  <2> QED
    BY <2>1, <2>2 DEF Polls, Unmet, PollSound, StrictPicked
<1>7. CASE Settle
  <2>1. pc' = "idle" /\ UNCHANGED <<extractPc, met>>
    BY <1>7 DEF Settle, Ended, extraction
  <2> QED
    BY <2>1 DEF Polls, Unmet, PollSound, StrictPicked
<1>8. CASE StartExtract
  <2>1. met' = TRUE /\ UNCHANGED <<takeAlgorithm, poll>>
    BY <1>8 DEF StartExtract
  <2> QED
    BY <2>1 DEF Polls, Unmet, PollSound, StrictPicked, poll
<1>9. CASE ExtractPoll
  <2>1. met' = TRUE /\ UNCHANGED <<takeAlgorithm, poll>>
    BY <1>9 DEF ExtractPoll, Watch
  <2> QED
    BY <2>1 DEF Polls, Unmet, PollSound, StrictPicked, poll
<1>10. CASE ExtractRestore
  <2>1. extractPc = "restore" /\ UNCHANGED <<takeAlgorithm, poll, met>>
    BY <1>10 DEF ExtractRestore
  <2> QED
    BY <2>1 DEF Polls, Unmet, PollSound, StrictPicked, poll
<1>11. CASE ExtractReset
  <2>1. pc' = "idle" /\ extractPc' = "idle"
    BY <1>11 DEF ExtractReset, poll
  <2> QED
    BY <2>1 DEF Polls, Unmet, PollSound, StrictPicked
<1>12. CASE UNCHANGED vars
  BY <1>1, <1>12 DEF vars, Polls, Unmet, extraction
<1> QED
  BY <1>2, <1>3, <1>4, <1>5, <1>6, <1>7, <1>8, <1>9, <1>10, <1>11, <1>12 DEF Next

LEMMA PollsHold == Spec => [](TypeOK /\ Polls)
<1>1. Init => Polls
  BY DEF Init, Polls, Unmet, PollSound, StrictPicked
<1>2. TypeOK /\ TypeOK' /\ Polls /\ [Next]_vars => Polls'
  BY PollsStep
<1> QED
  BY <1>1, <1>2, LanesTyped, PTL DEF Spec

(* The strict algorithm takes from no lane below one that had items when     *)
(* the poll began, unless an extraction was at work meanwhile.               *)
THEOREM LanesInStrictOrder == Spec => StrictOrder
<1>1. TypeOK /\ Polls /\ [Next]_vars
        => [takeAlgorithm = "strict-descending" /\ taken' # taken /\ ~met
               => \A l \in atStart : l <= level]_vars
  <2> SUFFICES ASSUME TypeOK, Polls, Next, takeAlgorithm = "strict-descending",
                      taken' # taken, ~met, NEW l \in atStart
               PROVE  l <= level
    BY DEF vars
  <2>1. pc = "take"
    BY DEF Next, Offer, StartPoll, Scan, Pick, Take, Settle, StartExtract, ExtractPoll,
           ExtractRestore, ExtractReset
  <2> QED
    BY <2>1 DEF Polls, PollSound, StrictPicked
<1> QED
  BY <1>1, PollsHold, PTL DEF Spec, StrictOrder

(* A poll that ends without an item, of an algorithm that takes what there   *)
(* is, met an extraction, or a moment when every lane was empty.             *)
THEOREM PollsMissNothing == Spec => NoneMeansEmpty
<1>1. TypeOK /\ Polls /\ [Next]_vars
        => [(pc \in {"scan", "take"}) /\ pc' = "idle" /\ takeAlgorithm # "custom"
               => sawEmpty \/ met]_vars
  <2> SUFFICES ASSUME TypeOK, Polls, Next, pc \in {"scan", "take"}, pc' = "idle",
                      takeAlgorithm # "custom", ~sawEmpty, ~met
               PROVE  FALSE
    BY DEF vars
  <2>1. (Pick /\ nonEmpty = {}) \/ (Take /\ lanes[level] = <<>>)
    BY DEF Next, Offer, StartPoll, Scan, Pick, Take, Settle, StartExtract, ExtractPoll,
           ExtractRestore, ExtractReset, poll
  <2>2. CASE Pick /\ nonEmpty = {}
    <3>1. pc = "scan" /\ scan = LevelCount
      BY <2>2 DEF Pick
    <3>2. PICK l \in atStart : l \in Full(lanes) /\ (l < scan => l \in nonEmpty)
      BY <3>1 DEF Polls, PollSound
    <3> QED
      BY <2>2, <3>1, <3>2, LevelNumbers DEF Full
  <2>3. CASE Take /\ lanes[level] = <<>>
    <3>1. pc = "take"
      BY <2>3 DEF Take
    <3>2. level \in Full(lanes)
      BY <3>1 DEF Polls, PollSound
    <3> QED
      BY <2>3, <3>2, ElemsOf DEF Full, TypeOK
  <2> QED
    BY <2>1, <2>2, <2>3
<1> QED
  BY <1>1, PollsHold, PTL DEF Spec, NoneMeansEmpty

----------------------------------------------------------------------------
(* The shares. NextTime is the virtual time that an item of a lane would be  *)
(* served at next. Between two moments at which some lane has become empty   *)
(* it moves by one step for each item served, so what it was at the first    *)
(* of them is kept, and there no two lanes were more than a step apart.      *)

Now == IF pc = "settle" THEN Eff(level) ELSE systemV
NextTime(l) ==
    IF pc = "settle" /\ l = level THEN Eff(l) + Step(l)
    ELSE IF l \in tagged THEN vtime[l] ELSE Now
Base(l) == NextTime(l) - served[l] * Step(l)

Counting == served \in [Levels -> Nat]
Unserved == served = Zero
Balanced ==
    takeAlgorithm = "weighted" /\ ~stale =>
        \A i, j \in Full(lanes) : Base(j) - Base(i) <= Step(j)
PickedEarliest ==
    pc = "take" /\ takeAlgorithm = "weighted" => \A l \in nonEmpty : Eff(level) <= Eff(l)
FoundOrFresh ==
    pc \in {"scan", "take"} =>
        \A l \in Full(lanes) : l \notin nonEmpty /\ (pc = "scan" => l < scan) => Unserved
Fair == Counting /\ Balanced /\ PickedEarliest /\ FoundOrFresh

LEMMA TimesNear ==
    ASSUME TypeOK, Near, takeAlgorithm = "weighted", ~stale, NEW l \in Levels
    PROVE  /\ Now \in Nat /\ NextTime(l) \in Nat /\ Step(l) \in Nat
           /\ Now <= NextTime(l) /\ NextTime(l) <= Now + Step(l)
           /\ systemV <= Now
<1>1. /\ Step(l) \in Nat /\ Step(level) \in Nat /\ Eff(l) \in Nat /\ Eff(level) \in Nat
      /\ systemV \in Nat /\ vtime[l] \in Nat
  <2>1. level \in Levels /\ systemV \in Nat /\ vtime[l] \in Nat
    BY DEF TypeOK
  <2>2. Eff(l) \in Nat /\ Eff(level) \in Nat
    BY <2>1, EffType
  <2>3. Step(l) \in Nat /\ Step(level) \in Nat
    BY <2>1, Stepped, LaneAssumption
  <2> QED
    BY <2>1, <2>2, <2>3
<1>2. /\ l \in tagged => systemV <= vtime[l] /\ vtime[l] <= systemV + Step(l)
      /\ level \in tagged => systemV <= vtime[level]
      /\ pc = "settle" /\ l \in tagged => Eff(level) <= vtime[l]
  BY DEF Near, Clock, TaggedAhead, PickedFirst
<1>3. systemV <= Eff(level)
  BY <1>1, <1>2 DEF Eff
<1>4. CASE pc = "settle" /\ l = level
  BY <1>1, <1>3, <1>4 DEF Now, NextTime
<1>5. CASE pc = "settle" /\ l # level
  BY <1>1, <1>2, <1>3, <1>5 DEF Now, NextTime
<1>6. CASE pc # "settle"
  BY <1>1, <1>2, <1>6 DEF Now, NextTime
<1> QED
  BY <1>4, <1>5, <1>6

LEMMA FreshBalanced ==
    ASSUME TypeOK, Near, Unserved
    PROVE  Balanced
<1> SUFFICES ASSUME takeAlgorithm = "weighted", ~stale,
                    NEW i \in Full(lanes), NEW j \in Full(lanes)
             PROVE  Base(j) - Base(i) <= Step(j)
  BY DEF Balanced
<1>1. i \in Levels /\ j \in Levels
  BY DEF Full
<1>2. /\ Now \in Nat /\ NextTime(i) \in Nat /\ NextTime(j) \in Nat
      /\ Step(i) \in Nat /\ Step(j) \in Nat
      /\ Now <= NextTime(i) /\ NextTime(j) <= Now + Step(j)
  BY <1>1, TimesNear
<1>3. served[i] = 0 /\ served[j] = 0
  BY <1>1 DEF Unserved, Zero
<1>4. Base(i) = NextTime(i) /\ Base(j) = NextTime(j)
  BY <1>2, <1>3 DEF Base
<1> QED
  BY <1>2, <1>4

LEMMA FreshNext == TypeOK' /\ Near' /\ Unserved' => Balanced'
<1>1. TypeOK /\ Near /\ Unserved => Balanced
  BY FreshBalanced
<1> QED
  BY <1>1, PTL

LEMMA ZeroServed == Zero \in [Levels -> Nat]
BY DEF Zero

LEMMA SharesFollow ==
    ASSUME TypeOK, Near, Counting, Balanced
    PROVE  Shares
<1> SUFFICES ASSUME takeAlgorithm = "weighted", ~stale,
                    NEW i \in Full(lanes), NEW j \in Full(lanes)
             PROVE  served[i] * Step(i) - served[j] * Step(j) <= Step(i) + Step(j)
  BY DEF Shares
<1>1. i \in Levels /\ j \in Levels
  BY DEF Full
<1>2. /\ Now \in Nat /\ NextTime(i) \in Nat /\ NextTime(j) \in Nat
      /\ Step(i) \in Nat /\ Step(j) \in Nat
      /\ NextTime(i) <= Now + Step(i) /\ Now <= NextTime(j)
  BY <1>1, TimesNear
<1> DEFINE wi == served[i] * Step(i)
           wj == served[j] * Step(j)
<1>3. wi \in Nat /\ wj \in Nat
  BY <1>1, <1>2 DEF Counting
<1>4. Base(i) = NextTime(i) - wi /\ Base(j) = NextTime(j) - wj
  BY DEF Base
<1>5. Base(j) - Base(i) <= Step(j)
  BY DEF Balanced
<1> HIDE DEF wi, wj
<1>6. wi - wj <= Step(i) + Step(j)
  BY <1>2, <1>3, <1>4, <1>5
<1> QED
  BY <1>6 DEF wi, wj

(* Steps that leave the virtual times and what was served.                   *)
LEMMA SameBalance ==
    ASSUME Balanced, UNCHANGED <<takeAlgorithm, sched, served>>,
           Full(lanes') \subseteq Full(lanes), stale => stale',
           pc = "settle" <=> pc' = "settle", pc = "settle" => level' = level
    PROVE  Balanced'
<1>1. \A l : Eff(l)' = Eff(l) /\ Step(l)' = Step(l)
  BY DEF Eff, Step, sched
<1>2. Now' = Now
  BY <1>1 DEF Now, Eff, sched
<1>3. \A l : NextTime(l)' = NextTime(l)
  BY <1>1, <1>2 DEF NextTime, sched
<1>4. \A l : Base(l)' = Base(l)
  BY <1>1, <1>3 DEF Base
<1> QED
  BY <1>1, <1>4 DEF Balanced

(* A poll takes an item and leaves others in the lane. If a lane was not     *)
(* known to the poll, nothing has been served since some lane was empty;     *)
(* else it takes from the earliest, so the clock stays for the lanes that    *)
(* have no virtual time of their own.                                        *)
LEMMA TakeBalanced ==
    ASSUME TypeOK, TypeOK', Near, Near', Fair, Take,
           takeAlgorithm = "weighted", ~stale,
           lanes[level] # <<>>, Len(lanes[level]) # 1
    PROVE  Balanced'
<1>1. /\ pc = "take" /\ pc' = "settle" /\ level' = level /\ level \in Levels
      /\ UNCHANGED <<takeAlgorithm, tagged, vtime, systemV, stale>>
      /\ served' = [served EXCEPT ![level] = @ + 1]
      /\ lanes' = [lanes EXCEPT ![level] = Tail(@)]
  BY DEF Take, sched, TypeOK
<1>2. \A l : Eff(l)' = Eff(l) /\ Step(l)' = Step(l)
  BY <1>1 DEF Eff, Step
<1>3. PICK e : e = Eff(level)
  OBVIOUS
<1>4. Now = systemV /\ Now' = e
  <2>1. Eff(level)' = Eff(level')
    BY <1>1 DEF Eff
  <2> QED
    BY <1>1, <1>3, <2>1 DEF Now, Eff
<1>5. \A l \in Levels : /\ NextTime(l) = (IF l \in tagged THEN vtime[l] ELSE systemV)
                        /\ NextTime(l)' = IF l = level THEN e + Step(l)
                                          ELSE IF l \in tagged THEN vtime[l] ELSE e
  BY <1>1, <1>2, <1>3, <1>4 DEF NextTime
<1>6. Full(lanes') \subseteq Full(lanes) /\ level \in Full(lanes)
  <2>1. lanes[level] \in Seq(1..offered) /\ Len(lanes[level]) > 0
    BY <1>1, ElemsOf DEF TypeOK
  <2>2. \A l \in Levels \ {level} : lanes'[l] = lanes[l]
    BY <1>1 DEF TypeOK
  <2> QED
    BY <1>1, <2>1, <2>2 DEF Full
<1>7. /\ \A l \in Levels : systemV <= NextTime(l) /\ NextTime(l) <= systemV + Step(l)
      /\ \A l \in Levels : NextTime(l) \in Nat /\ Step(l) \in Nat /\ served[l] \in Nat
      /\ systemV \in Nat /\ e \in Nat /\ e = NextTime(level)
  <2>1. \A l \in Levels : /\ NextTime(l) \in Nat /\ Step(l) \in Nat /\ served[l] \in Nat
                          /\ systemV <= NextTime(l) /\ NextTime(l) <= systemV + Step(l)
    BY <1>4, TimesNear DEF Fair, Counting
  <2>2. e = NextTime(level)
    BY <1>1, <1>3, <1>5 DEF Eff
  <2> QED
    BY <1>1, <2>1, <2>2 DEF TypeOK
<1>8. \A l \in Levels : /\ l = level => Base(l)' = e + Step(l) - (served[l] + 1) * Step(l)
                        /\ l # level => Base(l)' = NextTime(l)' - served[l] * Step(l)
  <2>1. ASSUME NEW l \in Levels
        PROVE  /\ l = level => Base(l)' = e + Step(l) - (served[l] + 1) * Step(l)
               /\ l # level => Base(l)' = NextTime(l)' - served[l] * Step(l)
    <3>1. served'[l] = IF l = level THEN served[l] + 1 ELSE served[l]
      BY <1>1 DEF Fair, Counting
    <3>2. Base(l)' = NextTime(l)' - served'[l] * Step(l)
      BY <1>2 DEF Base
    <3>3. CASE l = level
      <4>1. NextTime(l)' = e + Step(l) /\ served'[l] = served[l] + 1
        BY <1>5, <3>1, <3>3
      <4>2. PICK n : n = served'[l]
        OBVIOUS
      <4>3. PICK t : t = NextTime(l)'
        OBVIOUS
      <4>4. Base(l)' = t - n * Step(l)
        BY <3>2, <4>2, <4>3
      <4>5. t = e + Step(l) /\ n = served[l] + 1
        BY <4>1, <4>2, <4>3
      <4> QED
        BY <1>7, <3>3, <4>4, <4>5
    <3>4. CASE l # level
      BY <3>1, <3>2, <3>4
    <3> QED
      BY <3>3, <3>4
  <2> QED
    BY <2>1
<1>9. \A l \in Levels : l = level => Base(l)' = e - served[l] * Step(l)
  <2>1. \A n \in Nat, s \in Nat : e + s - (n + 1) * s = e - n * s
    <3>1. \A n \in Nat, s \in Nat : (n + 1) * s = n * s + s /\ n * s \in Nat
      OBVIOUS
    <3>2. \A p \in Nat, s \in Nat : e + s - (p + s) = e - p
      BY <1>7
    <3> QED
      BY <3>1, <3>2
  <2> QED
    BY <1>7, <1>8, <2>1
<1>10. CASE Unserved
  <2> SUFFICES ASSUME NEW i \in Full(lanes), NEW j \in Full(lanes)
               PROVE  Base(j)' - Base(i)' <= Step(j)
    BY <1>2, <1>6 DEF Balanced
  <2>1. i \in Levels /\ j \in Levels
    BY DEF Full
  <2>2. \A l \in Levels : served[l] * Step(l) = 0
    BY <1>7, <1>10 DEF Unserved, Zero
  <2>3. \A l \in Levels : Base(l)' = IF l = level THEN e
                                      ELSE IF l \in tagged THEN vtime[l] ELSE e
    <3>1. \A l \in Levels : l = level => Base(l)' = e
      BY <1>7, <1>9, <2>2
    <3>2. \A l \in Levels : l # level => NextTime(l)' \in Nat
      BY <1>5, <1>7 DEF TypeOK
    <3>3. \A l \in Levels : l # level => Base(l)' = NextTime(l)'
      BY <1>8, <2>2, <3>2
    <3> QED
      BY <1>5, <3>1, <3>3
  <2>4. \A l \in tagged : e <= vtime[l] /\ vtime[l] <= e + Step(l)
    <3>1. \A l \in tagged : e <= vtime[l]
      BY <1>1, <1>3 DEF Near, Clock, PickedFirst
    <3>2. \A l \in tagged : vtime[l] <= systemV + Step(l) /\ systemV <= e
                            /\ vtime[l] \in Nat /\ Step(l) \in Nat
      BY <1>1, <1>5, <1>7 DEF TypeOK
    <3> QED
      BY <1>7, <3>1, <3>2
  <2>5. \A l \in Levels : e <= Base(l)' /\ Base(l)' <= e + Step(l) /\ Base(l)' \in Nat
    <3> SUFFICES ASSUME NEW l \in Levels
                 PROVE  e <= Base(l)' /\ Base(l)' <= e + Step(l) /\ Base(l)' \in Nat
      OBVIOUS
    <3>1. vtime[l] \in Nat /\ Step(l) \in Nat
      BY <1>7 DEF TypeOK
    <3> QED
      BY <1>7, <2>3, <2>4, <3>1
  <2> QED
    BY <1>7, <2>1, <2>5
<1>11. CASE ~Unserved
  <2>1. \A l \in Full(lanes) : l \in nonEmpty /\ l \in Levels
    BY <1>1, <1>11 DEF Fair, FoundOrFresh, Full
  <2>2. \A l \in Full(lanes) : e <= Eff(l)
    BY <1>1, <1>3, <2>1 DEF Fair, PickedEarliest
  <2>3. \A l \in Full(lanes) : l # level => NextTime(l)' = NextTime(l)
    <3> SUFFICES ASSUME NEW l \in Full(lanes), l # level, l \notin tagged
                 PROVE  e = systemV
      BY <1>5, <2>1
    <3>1. e <= systemV
      BY <2>2 DEF Eff
    <3> QED
      BY <1>1, <1>7, <3>1
  <2>4. \A l \in Full(lanes) : Base(l)' = Base(l)
    BY <1>7, <1>8, <1>9, <2>1, <2>3 DEF Base
  <2> QED
    BY <1>1, <1>2, <1>6, <2>4 DEF Balanced, Fair
<1> QED
  BY <1>10, <1>11

LEMMA SettleBalanced ==
    ASSUME TypeOK, TypeOK', Balanced, Settle, takeAlgorithm = "weighted", ~stale
    PROVE  Balanced'
<1>1. PICK e : e = Eff(level)
  OBVIOUS
<1>2. /\ pc = "settle" /\ pc' = "idle" /\ level' = level /\ level \in Levels
      /\ UNCHANGED <<takeAlgorithm, lanes, stale, served>>
      /\ systemV' = e /\ vtime' = [vtime EXCEPT ![level] = e + Step(level)]
      /\ tagged' = IF lanes[level] = <<>> THEN tagged \ {level} ELSE tagged \cup {level}
  BY <1>1 DEF Settle, Ended, TypeOK
<1>3. Now = e /\ Now' = e
  BY <1>1, <1>2 DEF Now
<1>4. \A l : Step(l)' = Step(l)
  BY DEF Step
<1>5. level \in Full(lanes) => level \in tagged'
  <2>1. level \in Full(lanes) => lanes[level] # <<>>
    BY <1>2, ElemsOf DEF Full, TypeOK
  <2> QED
    BY <1>2, <2>1
<1>6. ASSUME NEW l \in Full(lanes)
      PROVE  NextTime(l)' = NextTime(l)
  <2>1. l \in Levels
    BY DEF Full
  <2>2. CASE l = level
    <3>1. NextTime(l) = e + Step(l)
      BY <1>1, <1>2, <2>2 DEF NextTime
    <3>2. vtime'[l] = e + Step(l) /\ l \in tagged'
      BY <1>2, <1>5, <1>6, <2>1, <2>2 DEF TypeOK
    <3> QED
      BY <1>2, <3>1, <3>2 DEF NextTime
  <2>3. CASE l # level
    <3>1. vtime'[l] = vtime[l] /\ (l \in tagged' <=> l \in tagged)
      BY <1>2, <2>1, <2>3 DEF TypeOK
    <3> QED
      BY <1>2, <1>3, <2>3, <3>1 DEF NextTime
  <2> QED
    BY <2>2, <2>3
<1>7. \A l \in Full(lanes) : Base(l)' = Base(l)
  BY <1>2, <1>4, <1>6 DEF Base
<1> QED
  BY <1>2, <1>4, <1>7 DEF Balanced

LEMMA FairStep ==
    ASSUME TypeOK, TypeOK', Near, Near', Fair, [Next]_vars
    PROVE  Fair'
<1>1. \A l \in Levels : lanes[l] \in Seq(1..offered)
  BY DEF TypeOK
<1>2. ASSUME Unserved', UNCHANGED <<takeAlgorithm, sched, poll>> \/ pc' = "settle" \/ pc' = "idle"
      PROVE  Fair'
  <2>1. Balanced'
    BY <1>2, FreshNext
  <2>2. Counting'
    BY <1>2, ZeroServed DEF Counting, Unserved, Zero
  <2>3. PickedEarliest' /\ FoundOrFresh'
    BY <1>2 DEF Fair, PickedEarliest, FoundOrFresh, sched, poll, Eff, Unserved
  <2> QED
    BY <2>1, <2>2, <2>3 DEF Fair
<1>3. ASSUME UNCHANGED <<takeAlgorithm, sched, served, poll>>,
             Full(lanes') \subseteq Full(lanes), stale => stale'
      PROVE  Fair'
  <2>1. Balanced'
    BY <1>3, SameBalance DEF Fair, poll
  <2>2. Counting' /\ PickedEarliest' /\ FoundOrFresh'
    BY <1>3 DEF Fair, Counting, PickedEarliest, FoundOrFresh, sched, poll, Eff, Unserved, Zero
  <2> QED
    BY <2>1, <2>2 DEF Fair
<1>4. (served' = Zero) => Unserved'
  BY DEF Unserved, Zero
<1>5. ASSUME NEW input \in Inputs, Offer(input)
      PROVE  Fair'
  <2>1. UNCHANGED <<takeAlgorithm, sched, poll, stale>>
    BY <1>5 DEF Offer
  <2>2. served' # Zero => Full(lanes') = Full(lanes) /\ served' = served
    BY <1>5, OfferFills
  <2> QED
    BY <1>2, <1>3, <1>4, <2>1, <2>2
<1>6. CASE StartPoll
  <2>1. /\ UNCHANGED <<takeAlgorithm, lanes, sched, level, stale, served>> /\ pc = "idle"
        /\ pc' = "scan" /\ scan' = 0
    BY <1>6 DEF StartPoll
  <2>2. Balanced'
    BY <2>1, SameBalance DEF Fair
  <2>3. \A l \in Full(lanes) : ~ (l < 0)
    BY LevelNumbers DEF Full
  <2>4. FoundOrFresh'
    BY <2>1, <2>3 DEF FoundOrFresh
  <2> QED
    BY <2>1, <2>2, <2>4 DEF Fair, Counting, PickedEarliest
<1>7. CASE Scan
  <2>1. /\ UNCHANGED <<takeAlgorithm, lanes, sched, level, stale, served>>
        /\ pc = "scan" /\ pc' = "scan" /\ scan < LevelCount /\ scan' = scan + 1
        /\ nonEmpty' = IF Len(lanes[scan]) > 0 THEN nonEmpty \cup {scan} ELSE nonEmpty
    BY <1>7 DEF Scan
  <2>2. Balanced'
    BY <2>1, SameBalance DEF Fair
  <2>3. FoundOrFresh'
    <3> SUFFICES ASSUME NEW l \in Full(lanes), l \notin nonEmpty', l < scan + 1
                 PROVE  Unserved
      BY <2>1 DEF FoundOrFresh, Unserved, Zero
    <3>1. l \in Levels /\ l \in Nat /\ scan \in Nat /\ Len(lanes[l]) > 0
      BY LevelNumbers DEF Full, TypeOK
    <3>2. l # scan /\ l \notin nonEmpty
      BY <2>1, <3>1
    <3>3. l < scan
      BY <3>1, <3>2
    <3> QED
      BY <2>1, <3>2, <3>3 DEF Fair, FoundOrFresh
  <2> QED
    BY <2>1, <2>2, <2>3 DEF Fair, Counting, PickedEarliest
<1>8. CASE Pick
  <2>1. /\ UNCHANGED <<takeAlgorithm, lanes, sched, nonEmpty, stale, served>>
        /\ pc = "scan" /\ scan = LevelCount
        /\ \/ nonEmpty # {} /\ level' \in Picks(nonEmpty) /\ pc' = "take"
           \/ pc' = "idle"
    BY <1>8 DEF Pick, Ended
  <2>2. Balanced'
    BY <2>1, SameBalance DEF Fair
  <2>3. FoundOrFresh'
    <3> SUFFICES ASSUME NEW l \in Full(lanes), l \notin nonEmpty
                 PROVE  Unserved
      BY <2>1 DEF FoundOrFresh, Unserved, Zero
    <3>1. l < scan
      BY <2>1, LevelNumbers DEF Full
    <3> QED
      BY <2>1, <3>1 DEF Fair, FoundOrFresh
  <2>4. PickedEarliest'
    <3> SUFFICES ASSUME pc' = "take", takeAlgorithm = "weighted", NEW l \in nonEmpty
                 PROVE  Eff(level') <= Eff(l)
      <4>1. Eff(level)' = Eff(level') /\ \A l : Eff(l)' = Eff(l)
        BY <2>1 DEF Eff, sched
      <4> QED
        BY <2>1, <4>1 DEF PickedEarliest
    <3>1. level' = Earliest(nonEmpty) /\ nonEmpty # {} /\ nonEmpty \subseteq Levels
      BY <2>1 DEF Picks, TypeOK
    <3> QED
      BY <3>1, EarliestPicked
  <2> QED
    BY <2>1, <2>2, <2>3, <2>4 DEF Fair, Counting
<1>9. CASE Take
  <2>1. CASE lanes[level] = <<>>
    <3>1. /\ UNCHANGED <<takeAlgorithm, lanes, sched, level, stale, served>>
          /\ pc = "take" /\ pc' = "idle"
      BY <1>9, <2>1 DEF Take, Ended
    <3>2. Balanced'
      BY <3>1, SameBalance DEF Fair
    <3> QED
      BY <3>1, <3>2 DEF Fair, Counting, PickedEarliest, FoundOrFresh
  <2>2. CASE lanes[level] # <<>> /\ Len(lanes[level]) = 1
    <3>1. served' = Zero /\ pc' = "settle"
      BY <1>9, <2>2 DEF Take
    <3> QED
      BY <1>2, <1>4, <3>1
  <2>3. CASE lanes[level] # <<>> /\ Len(lanes[level]) # 1
    <3>1. /\ served' = [served EXCEPT ![level] = @ + 1] /\ pc' = "settle"
          /\ UNCHANGED <<takeAlgorithm, stale>> /\ level \in Levels
      BY <1>9, <2>3 DEF Take, TypeOK
    <3>2. Counting'
      BY <3>1 DEF Fair, Counting
    <3>3. Balanced'
      <4>1. CASE takeAlgorithm = "weighted" /\ ~stale
        BY <1>9, <2>3, <4>1, TakeBalanced
      <4>2. CASE ~ (takeAlgorithm = "weighted" /\ ~stale)
        BY <3>1, <4>2 DEF Balanced
      <4> QED
        BY <4>1, <4>2
    <3> QED
      BY <3>1, <3>2, <3>3 DEF Fair, PickedEarliest, FoundOrFresh
  <2> QED
    BY <2>1, <2>2, <2>3
<1>10. CASE Settle
  <2>1. pc' = "idle" /\ UNCHANGED <<takeAlgorithm, stale, served>>
    BY <1>10 DEF Settle, Ended
  <2>2. Balanced'
    <3>1. CASE takeAlgorithm = "weighted" /\ ~stale
      BY <1>10, <3>1, SettleBalanced DEF Fair
    <3>2. CASE ~ (takeAlgorithm = "weighted" /\ ~stale)
      BY <2>1, <3>2 DEF Balanced
    <3> QED
      BY <3>1, <3>2
  <2> QED
    BY <2>1, <2>2 DEF Fair, Counting, PickedEarliest, FoundOrFresh
<1>11. CASE StartExtract
  <2>1. UNCHANGED <<takeAlgorithm, lanes, sched, poll, stale, served>>
    BY <1>11 DEF StartExtract
  <2> QED
    BY <1>3, <2>1
<1>12. CASE ExtractPoll
  <2>1. UNCHANGED <<takeAlgorithm, sched, poll>> /\ lane \in Levels
    BY <1>12 DEF ExtractPoll, TypeOK
  <2>2. CASE lanes[lane] = <<>>
    <3>1. UNCHANGED <<lanes, stale, served>>
      BY <1>12, <2>2 DEF ExtractPoll
    <3> QED
      BY <1>3, <2>1, <3>1
  <2>3. CASE lanes[lane] # <<>> /\ Len(lanes[lane]) = 1
    <3>1. served' = Zero
      BY <1>12, <2>3 DEF ExtractPoll
    <3> QED
      BY <1>2, <1>4, <2>1, <3>1
  <2>4. CASE lanes[lane] # <<>> /\ Len(lanes[lane]) # 1
    <3>1. /\ lanes' = [lanes EXCEPT ![lane] = Tail(@)] /\ served' = served
          /\ stale => stale'
      BY <1>12, <2>4 DEF ExtractPoll
    <3>2. \A l \in Levels \ {lane} : lanes'[l] = lanes[l]
      BY <2>1, <3>1 DEF TypeOK
    <3>3. Len(lanes[lane]) > 0
      BY <1>1, <2>1, <2>4, ElemsOf
    <3>4. Full(lanes') \subseteq Full(lanes)
      BY <2>1, <3>2, <3>3 DEF Full
    <3> QED
      BY <1>3, <2>1, <3>1, <3>4
  <2> QED
    BY <2>2, <2>3, <2>4
<1>13. CASE ExtractRestore
  <2>1. UNCHANGED <<takeAlgorithm, sched, poll, stale>>
    BY <1>13 DEF ExtractRestore
  <2>2. served' # Zero => Full(lanes') = Full(lanes) /\ served' = served
    BY <1>13, RestoreFills
  <2> QED
    BY <1>2, <1>3, <1>4, <2>1, <2>2
<1>14. CASE ExtractReset
  <2>1. served' = Zero /\ pc' = "idle"
    BY <1>14 DEF ExtractReset, poll
  <2> QED
    BY <1>2, <1>4, <2>1
<1>15. CASE UNCHANGED vars
  BY <1>3, <1>15 DEF vars
<1> QED
  BY <1>5, <1>6, <1>7, <1>8, <1>9, <1>10, <1>11, <1>12, <1>13, <1>14, <1>15 DEF Next

(* The weighted algorithm shares the polls between the lanes that stay       *)
(* non-empty by their weights, to one item of each: also while offers and    *)
(* extractions come between the scan of a poll, its pick and its take,       *)
(* unless an extraction emptied a lane with a virtual time since the drain.  *)
THEOREM LanesShareFairly == Spec => []Shares
<1>1. TypeOK /\ Near /\ Init => Fair
  <2> SUFFICES ASSUME TypeOK, Near, Init
               PROVE  Fair
    OBVIOUS
  <2>1. Unserved /\ pc = "idle"
    BY DEF Init, Unserved
  <2>2. Counting
    BY <2>1, ZeroServed DEF Counting, Unserved
  <2> QED
    BY <2>1, <2>2, FreshBalanced DEF Fair, PickedEarliest, FoundOrFresh
<1>2. TypeOK /\ TypeOK' /\ Near /\ Near' /\ Fair /\ [Next]_vars => Fair'
  BY FairStep
<1>3. TypeOK /\ Near /\ Fair => Shares
  BY SharesFollow DEF Fair
<1> QED
  BY <1>1, <1>2, <1>3, NearHolds, PTL DEF Spec
=============================================================================
