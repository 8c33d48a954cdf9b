------------------------- MODULE DurableQueueProofs -------------------------
(* The durable queue keeps its types, leases a row a bounded number of times, *)
(* lets none be leased that nobody works on, keeps a row whose add was          *)
(* acknowledged until it ends, runs an entry again only for a reason, and moves  *)
(* every entry the way DurableLifecycle does (the last three while no id is      *)
(* given out twice).                                                         *)
EXTENDS DurableQueue, FiniteSetTheorems, SequenceTheorems, TLAPS

Allowed == MaxAttempts + Used("crash") + Used("expire")

(* A row has attempts for what it is: a row that can be taken, now or after     *)
(* recover, has one left. Either fail left it pending with one, or its last     *)
(* holder ended in a crash or an expiry, which Allowed counts.                *)
Fits(r, b, n) ==
    /\ DOMAIN r = DOMAIN NoRow
    /\ r.attempts \in Nat /\ r.attempts <= n
    /\ r.status = "pending" /\ (r.lease # "held" \/ b # "up") => r.attempts < n

RowsFit == DOMAIN rows = RowIds /\ \A i \in RowIds : Fits(rows[i], boot, Allowed)
BudgetOK == left \in [Events -> Nat] /\ \A e \in Events : left[e] <= Budget[e]
FibersOK == DOMAIN fib = Fibers /\ \A f \in Fibers : DOMAIN fib[f] = {"pc", "copy", "taken"}

(* Only the feeder of an engine that is up is past its check.                 *)
FeederIsUp == At(Feeder, "lease") => boot = "up"

IInv == RowsFit /\ BudgetOK /\ FibersOK /\ FeederIsUp

(* No event comes back.                                                      *)
Spends == BudgetOK' /\ \A e \in Events : left'[e] <= left[e]

----------------------------------------------------------------------------
(* A step that spends one event at most gives none back.                     *)
LEMMA SpendSpends ==
    ASSUME BudgetOK, UNCHANGED left \/ \E e \in Events : Spend(e)
    PROVE  Spends
BY DurableAssumption DEF BudgetOK, Spends, Spend

(* What is allowed covers a row without a crash, and never shrinks.          *)
LEMMA AllowedGrows ==
    ASSUME BudgetOK, Spends
    PROVE  /\ Allowed \in Nat /\ Allowed' \in Nat
           /\ MaxAttempts \in Nat \ {0} /\ MaxAttempts <= Allowed
           /\ Allowed <= Allowed'
  <1>1. {"crash", "expire"} \subseteq Events
    BY DEF Events
  <1>2. Budget \in [Events -> Nat] /\ Attempts \in Nat
    BY DurableAssumption
  <1> QED
    BY <1>1, <1>2 DEF BudgetOK, Spends, Allowed, MaxAttempts, Used

(* A step that leaves the rows alone, and the engine where it was or new.      *)
LEMMA RowsAlone ==
    ASSUME RowsFit, BudgetOK, Spends, UNCHANGED rows,
           UNCHANGED boot \/ (boot # "up" /\ boot' # "up")
    PROVE  RowsFit'
BY AllowedGrows DEF RowsFit, Fits

(* A row that is deleted (complete, clear, drain) has nothing to take.       *)
LEMMA DeleteFits ==
    ASSUME RowsFit, BudgetOK, Spends, UNCHANGED boot, NEW ids, Delete(ids)
    PROVE  RowsFit'
BY AllowedGrows DEF RowsFit, Fits, Delete, NoRow

(* fail keeps a row pending only while it has an attempt left.               *)
LEMMA FailFits ==
    ASSUME RowsFit, BudgetOK, Spends, UNCHANGED boot, NEW i, FailRow(i)
    PROVE  RowsFit'
  <1> SUFFICES ASSUME NEW j \in RowIds
               PROVE  Fits(rows[j], boot, Allowed)'
    BY DEF RowsFit, FailRow
  <1>1. Fits(rows[j], boot, Allowed) /\ DOMAIN rows = RowIds
    BY DEF RowsFit
  <1>2. CASE j # i
    BY <1>1, <1>2, AllowedGrows DEF Fits, FailRow
  <1>3. CASE j = i
    BY <1>1, <1>3, AllowedGrows DEF Fits, FailRow, NoRow
  <1> QED
    BY <1>2, <1>3

(* A new row has every attempt left; a raised priority adds none.            *)
LEMMA OfferFits ==
    ASSUME RowsFit, BudgetOK, Spends, UNCHANGED boot,
           NEW id, NEW w, NEW level, Offer(id, w, level)
    PROVE  RowsFit'
  <1> SUFFICES ASSUME NEW j \in RowIds
               PROVE  Fits(rows[j], boot, Allowed)'
    BY DEF RowsFit, Offer
  <1>1. Fits(rows[j], boot, Allowed) /\ DOMAIN rows = RowIds
    BY DEF RowsFit
  <1>2. CASE UNCHANGED rows
    BY <1>1, <1>2, AllowedGrows DEF Fits
  <1>3. CASE rows' = [i \in RowIds |->
                        IF i \in LiveWith(KeyOf[w]) /\ rows[i].rank > level
                        THEN [rows[i] EXCEPT !.rank = level] ELSE rows[i]]
    BY <1>1, <1>3, AllowedGrows DEF Fits, NoRow
  <1>4. CASE rows' = [rows EXCEPT ![id] =
                        [NoRow EXCEPT !.status = "pending", !.work = w, !.key = KeyOf[w],
                                      !.rank = level, !.seq = NextSeq]]
    BY <1>1, <1>4, AllowedGrows DEF Fits, NoRow
  <1> QED
    BY <1>2, <1>3, <1>4 DEF Offer

(* A fiber goes to another place, and the feeder to "lease" only when it may.  *)
Moves(f) ==
    \E frame :
        /\ fib' = [fib EXCEPT ![f] = frame]
        /\ DOMAIN frame = {"pc", "copy", "taken"}
        /\ f = Feeder /\ frame.pc = "lease" => boot' = "up"

(* A fiber that moves leaves the others where they are.                      *)
LEMMA MovesKeep ==
    ASSUME FibersOK, FeederIsUp, NEW f \in Fibers,
           Moves(f), UNCHANGED boot \/ boot' = "up"
    PROVE  FibersOK' /\ FeederIsUp'
  <1>1. PICK frame :
            /\ fib' = [fib EXCEPT ![f] = frame]
            /\ DOMAIN frame = {"pc", "copy", "taken"}
            /\ f = Feeder /\ frame.pc = "lease" => boot' = "up"
    BY DEF Moves
  <1>2. Feeder \in Fibers
    BY DEF Fibers
  <1> QED
    BY <1>1, <1>2 DEF FibersOK, FeederIsUp, At

(* No fiber moves.                                                           *)
LEMMA StaysKeep ==
    ASSUME FibersOK, FeederIsUp, UNCHANGED fib, UNCHANGED boot \/ boot' = "up"
    PROVE  FibersOK' /\ FeederIsUp'
BY DEF FibersOK, FeederIsUp, At

(* The two ways the steps write a fiber's frame.                             *)
LEMMA GoToMoves ==
    ASSUME FibersOK, NEW f \in Fibers, NEW pc,
           GoTo(f, pc) \/ DropsCopy(f, pc),
           f = Feeder /\ pc = "lease" => boot' = "up"
    PROVE  Moves(f)
  <1>1. CASE GoTo(f, pc)
    <2> DEFINE frame == [fib[f] EXCEPT !.pc = pc]
    <2>1. fib' = [fib EXCEPT ![f] = frame] /\ DOMAIN frame = {"pc", "copy", "taken"}
      BY <1>1 DEF GoTo, FibersOK
    <2>2. frame.pc = pc
      BY DEF FibersOK
    <2> QED
      BY <2>1, <2>2 DEF Moves
  <1>2. CASE DropsCopy(f, pc)
    <2> DEFINE frame == [fib[f] EXCEPT !.pc = pc, !.copy = NoCopy]
    <2>1. fib' = [fib EXCEPT ![f] = frame] /\ DOMAIN frame = {"pc", "copy", "taken"}
      BY <1>2 DEF DropsCopy, FibersOK
    <2>2. frame.pc = pc
      BY DEF FibersOK
    <2> QED
      BY <2>1, <2>2 DEF Moves
  <1> QED
    BY <1>1, <1>2

(* Who is not the feeder does not become it.                                 *)
LEMMA OthersMove ==
    ASSUME FibersOK, NEW f \in Workers \cup Clients, NEW frame,
           DOMAIN frame = {"pc", "copy", "taken"}, fib' = [fib EXCEPT ![f] = frame]
    PROVE  f \in Fibers /\ f # Feeder /\ Moves(f)
BY DurableAssumption DEF Moves, Fibers

----------------------------------------------------------------------------
(* What every step but the feeder's and the engine's start is made of.        *)
Settles == UNCHANGED rows \/ (\E ids : Delete(ids)) \/ (\E i : FailRow(i))
             \/ (\E id, w, level : Offer(id, w, level))
Proceeds == UNCHANGED fib \/ \E f \in Fibers : Moves(f)

(* Such steps keep the invariant; the rest are named one by one below.       *)
LEMMA StepKeeps ==
    ASSUME IInv, Spends, UNCHANGED boot, Settles, Proceeds
    PROVE  IInv'
  <1>1. RowsFit'
    BY RowsAlone, DeleteFits, FailFits, OfferFits DEF IInv, Settles
  <1>2. FibersOK' /\ FeederIsUp'
    BY MovesKeep, StaysKeep DEF IInv, Proceeds
  <1>3. BudgetOK'
    BY DEF Spends
  <1> QED
    BY <1>1, <1>2, <1>3 DEF IInv

(* The calls of the handle.                                                  *)
LEMMA ClientKeeps ==
    ASSUME IInv, NEW c \in Clients, ClientCall(c) \/ ClientStep(c)
    PROVE  IInv'
  <1> USE DEF IInv
  <1>0. c \in Fibers /\ c # Feeder /\ c \notin Workers
    BY DurableAssumption DEF Fibers
  <1>1. CASE CallAdd(c)
    <2>1. Spends
      BY <1>1, SpendSpends DEF CallAdd, Events
    <2>2. Proceeds
      <3>1. CASE UNCHANGED fib
        BY <3>1 DEF Proceeds
      <3>2. ASSUME NEW l \in Levels,
                   fib' = [fib EXCEPT ![c].pc = "offer",
                             ![c].copy = [id |-> 0, work |-> Used("add") + 1, level |-> l]]
            PROVE  Proceeds
        <4> DEFINE frame == [fib[c] EXCEPT !.pc = "offer",
                               !.copy = [id |-> 0, work |-> Used("add") + 1, level |-> l]]
        <4>1. fib' = [fib EXCEPT ![c] = frame] /\ DOMAIN frame = {"pc", "copy", "taken"}
          BY <1>0, <3>2 DEF FibersOK
        <4> QED
          BY <1>0, <4>1, OthersMove DEF Proceeds
      <3> QED
        BY <1>1, <3>1, <3>2 DEF CallAdd
    <2>3. Settles /\ UNCHANGED boot
      BY <1>1 DEF CallAdd, Settles, engine
    <2> QED
      BY <2>1, <2>2, <2>3, StepKeeps
  <1>2. CASE OfferRow(c)
    <2>1. Spends
      BY <1>2, SpendSpends DEF OfferRow, Events
    <2>2. Proceeds
      BY <1>0, <1>2, GoToMoves DEF OfferRow, Proceeds
    <2>3. Settles /\ UNCHANGED boot
      BY <1>2 DEF OfferRow, Settles
    <2> QED
      BY <2>1, <2>2, <2>3, StepKeeps
  <1>3. CASE CallShutdown(c)
    <2>1. Spends
      BY <1>3, SpendSpends DEF CallShutdown, Events
    <2>2. Proceeds
      BY <1>0, <1>3, GoToMoves DEF CallShutdown, Proceeds
    <2>3. Settles /\ UNCHANGED boot
      BY <1>3 DEF CallShutdown, Settles
    <2> QED
      BY <2>1, <2>2, <2>3, StepKeeps
  <1>4. CASE WindDown(c) \/ PurgeLanes(c)
    <2>1. Spends
      BY <1>4, SpendSpends DEF WindDown, PurgeLanes
    <2>2. Proceeds
      BY <1>0, <1>4, GoToMoves DEF WindDown, PurgeLanes, Proceeds
    <2>3. Settles /\ UNCHANGED boot
      BY <1>4 DEF WindDown, PurgeLanes, Settles, engine
    <2> QED
      BY <2>1, <2>2, <2>3, StepKeeps
  <1>5. CASE CallClear(c)
    <2>1. Spends
      <3>1. "clear" \in Events /\ "fault" \in Events /\ left["clear"] > 0
        BY <1>5 DEF CallClear, Events
      <3> QED
        BY <1>5, <3>1, DurableAssumption DEF CallClear, Spends, BudgetOK
    <2>2. Proceeds
      BY <1>0, <1>5, GoToMoves DEF CallClear, Proceeds
    <2>3. Settles /\ UNCHANGED boot
      BY <1>5 DEF CallClear, Settles, engine
    <2> QED
      BY <2>1, <2>2, <2>3, StepKeeps
  <1>6. CASE CallExtract(c)
    <2>1. PICK drained \in Matching :
            /\ Delete(drained)
            /\ \/ UNCHANGED fib
                  /\ left' = [left EXCEPT !["extract"] = @ - 1]
               \/ /\ left["encodeError"] > 0
                  /\ left' = [left EXCEPT !["extract"] = @ - 1, !["encodeError"] = @ - 1]
                  /\ fib' = [fib EXCEPT ![c].pc = "restore",
                               ![c].taken = {[id |-> i, row |-> rows[i]] : i \in drained}]
      BY <1>6, Zenon DEF CallExtract
    <2>2. Spends
      <3>1. "extract" \in Events /\ "encodeError" \in Events /\ left["extract"] > 0
        BY <1>6 DEF CallExtract, Events
      <3> QED
        BY <2>1, <3>1, DurableAssumption DEF Spends, BudgetOK
    <2>3. Proceeds
      <3> DEFINE frame == [fib[c] EXCEPT !.pc = "restore",
                             !.taken = {[id |-> i, row |-> rows[i]] : i \in drained}]
      <3>1. DOMAIN frame = {"pc", "copy", "taken"}
        BY <1>0 DEF FibersOK
      <3>2. UNCHANGED fib \/ fib' = [fib EXCEPT ![c] = frame]
        BY <1>0, <2>1 DEF FibersOK
      <3> QED
        BY <1>0, <3>1, <3>2, OthersMove DEF Proceeds
    <2>4. Settles /\ UNCHANGED boot
      BY <1>6, <2>1 DEF CallExtract, Settles, engine
    <2> QED
      BY <2>2, <2>3, <2>4, StepKeeps
  <1>7. CASE RestorePending(c)
    <2>1. PICK t \in fib[c].taken :
            /\ \/ Offer(t.id, t.row.work, t.row.rank) /\ UNCHANGED left
               \/ Spend("fault") /\ UNCHANGED <<rows, stored, ended>>
            /\ fib' = [fib EXCEPT ![c].taken = @ \ {t},
                         ![c].pc = IF fib[c].taken = {t} THEN "idle" ELSE @]
      BY <1>7, Zenon DEF RestorePending
    <2>2. Spends
      BY <2>1, SpendSpends DEF Events
    <2>3. Proceeds
      <3> DEFINE frame == [fib[c] EXCEPT !.taken = @ \ {t},
                             !.pc = IF fib[c].taken = {t} THEN "idle" ELSE @]
      <3>1. fib' = [fib EXCEPT ![c] = frame] /\ DOMAIN frame = {"pc", "copy", "taken"}
        BY <1>0, <2>1 DEF FibersOK
      <3> QED
        BY <1>0, <3>1, OthersMove DEF Proceeds
    <2>4. Settles /\ UNCHANGED boot
      BY <1>7, <2>1 DEF RestorePending, Settles, engine
    <2> QED
      BY <2>2, <2>3, <2>4, StepKeeps
  <1>8. CASE FinalizeRead(c) \/ FinalizeSet(c)
    <2>1. Spends
      BY <1>8, SpendSpends DEF FinalizeRead, FinalizeSet, Events
    <2>2. Proceeds
      BY <1>0, <1>8, GoToMoves DEF FinalizeRead, FinalizeSet, Proceeds
    <2>3. Settles /\ UNCHANGED boot
      BY <1>8 DEF FinalizeRead, FinalizeSet, Settles, engine
    <2> QED
      BY <2>1, <2>2, <2>3, StepKeeps
  <1> QED
    BY <1>1, <1>2, <1>3, <1>4, <1>5, <1>6, <1>7, <1>8 DEF ClientCall, ClientStep

(* The workers.                                                              *)
LEMMA WorkerKeeps ==
    ASSUME IInv, NEW w \in Workers, WorkerStep(w)
    PROVE  IInv'
  <1> USE DEF IInv
  <1>0. w \in Fibers /\ w # Feeder
    BY DurableAssumption DEF Fibers
  <1>1. CASE WorkerLoop(w) \/ TakeNextEmpty(w)
    <2>1. Spends
      BY <1>1, SpendSpends DEF WorkerLoop, TakeNextEmpty
    <2>2. Proceeds
      BY <1>0, <1>1, GoToMoves DEF WorkerLoop, TakeNextEmpty, Proceeds
    <2>3. Settles /\ UNCHANGED boot
      BY <1>1 DEF WorkerLoop, TakeNextEmpty, Settles, engine
    <2> QED
      BY <2>1, <2>2, <2>3, StepKeeps
  <1>2. CASE TakeNext(w)
    <2>1. PICK l \in Levels :
            fib' = [fib EXCEPT ![w].pc = "took", ![w].copy = Head(lanes[l])]
      BY <1>2 DEF TakeNext
    <2>2. Spends
      BY <1>2, SpendSpends DEF TakeNext
    <2>3. Proceeds
      <3> DEFINE frame == [fib[w] EXCEPT !.pc = "took", !.copy = Head(lanes[l])]
      <3>1. fib' = [fib EXCEPT ![w] = frame] /\ DOMAIN frame = {"pc", "copy", "taken"}
        BY <1>0, <2>1 DEF FibersOK
      <3> QED
        BY <1>0, <3>1, OthersMove DEF Proceeds
    <2>4. Settles /\ UNCHANGED boot
      BY <1>2 DEF TakeNext, Settles, engine
    <2> QED
      BY <2>2, <2>3, <2>4, StepKeeps
  <1>3. CASE SkipRateLimitedItem(w)
    <2>1. Spends
      BY <1>3, SpendSpends DEF SkipRateLimitedItem, Events
    <2>2. Proceeds
      BY <1>0, <1>3, GoToMoves DEF SkipRateLimitedItem, Proceeds
    <2>3. Settles /\ UNCHANGED boot
      BY <1>3 DEF SkipRateLimitedItem, Settles, engine
    <2> QED
      BY <2>1, <2>2, <2>3, StepKeeps
  <1>4. CASE StartItem(w)
    <2>1. Spends
      BY <1>4, SpendSpends DEF StartItem
    <2>2. Proceeds
      BY <1>0, <1>4, GoToMoves DEF StartItem, Proceeds
    <2>3. Settles /\ UNCHANGED boot
      BY <1>4 DEF StartItem, Settles
    <2> QED
      BY <2>1, <2>2, <2>3, StepKeeps
  <1>5. CASE EffectExits(w)
    <2>1. Spends
      BY <1>5, SpendSpends DEF EffectExits, Events
    <2>2. Proceeds
      BY <1>0, <1>5, GoToMoves DEF EffectExits, Proceeds
    <2>3. Settles /\ UNCHANGED boot
      BY <1>5 DEF EffectExits, Settles
    <2> QED
      BY <2>1, <2>2, <2>3, StepKeeps
  <1>6. CASE Complete(w)
    <2>1. Spends
      BY <1>6, SpendSpends DEF Complete, Events
    <2>2. Proceeds
      BY <1>0, <1>6, GoToMoves DEF Complete, Proceeds
    <2>3. Settles /\ UNCHANGED boot
      BY <1>6 DEF Complete, Settles, engine
    <2> QED
      BY <2>1, <2>2, <2>3, StepKeeps
  <1>7. CASE PersistFail(w)
    <2>1. Spends
      BY <1>7, SpendSpends DEF PersistFail, Events
    <2>2. Proceeds
      BY <1>0, <1>7, GoToMoves DEF PersistFail, Proceeds
    <2>3. Settles /\ UNCHANGED boot
      BY <1>7 DEF PersistFail, Settles, engine
    <2> QED
      BY <2>1, <2>2, <2>3, StepKeeps
  <1>8. CASE FinalizeRead(w) \/ FinalizeSet(w)
    <2>1. Spends
      BY <1>8, SpendSpends DEF FinalizeRead, FinalizeSet, Events
    <2>2. Proceeds
      BY <1>0, <1>8, GoToMoves DEF FinalizeRead, FinalizeSet, Proceeds
    <2>3. Settles /\ UNCHANGED boot
      BY <1>8 DEF FinalizeRead, FinalizeSet, Settles, engine
    <2> QED
      BY <2>1, <2>2, <2>3, StepKeeps
  <1> QED
    BY <1>1, <1>2, <1>3, <1>4, <1>5, <1>6, <1>7, <1>8 DEF WorkerStep

(* The feeder: the attempt it adds is the one the row had left.                 *)
LEMMA FeederKeeps ==
    ASSUME IInv, FeederStep
    PROVE  IInv'
  <1> USE DEF IInv
  <1>0. Feeder \in Fibers
    BY DEF Fibers
  <1>1. CASE FeederCheck
    <2>1. Spends
      BY <1>1, SpendSpends DEF FeederCheck
    <2>2. Settles /\ boot' = boot /\ boot = "up"
      BY <1>1 DEF FeederCheck, Settles, engine
    <2>3. Proceeds
      BY <1>0, <1>1, <2>2, GoToMoves DEF FeederCheck, Proceeds
    <2> QED
      BY <2>1, <2>2, <2>3, StepKeeps
  <1>2. CASE FeederTake
    <2>1. PICK i \in RowIds, pc \in {"put", "poisoned"} :
            /\ IsTop(i) /\ Take(i)
            /\ fib' = [fib EXCEPT ![Feeder].pc = pc,
                         ![Feeder].copy = [id |-> i, work |-> rows[i].work,
                                           level |-> rows[i].rank]]
            /\ IF pc = "put" THEN UNCHANGED left ELSE Spend("poison")
      BY <1>2, Zenon DEF FeederTake
    <2>2. Spends
      BY <2>1, SpendSpends DEF Events
    <2>3. boot' = boot
      BY <1>2 DEF FeederTake, engine
    <2>4. FibersOK' /\ FeederIsUp'
      <3> DEFINE frame == [fib[Feeder] EXCEPT !.pc = pc,
                             !.copy = [id |-> i, work |-> rows[i].work, level |-> rows[i].rank]]
      <3>1. fib' = [fib EXCEPT ![Feeder] = frame] /\ DOMAIN frame = {"pc", "copy", "taken"}
        BY <1>0, <2>1 DEF FibersOK
      <3>2. frame.pc = pc /\ pc # "lease"
        BY <1>0, <2>1 DEF FibersOK
      <3> QED
        BY <1>0, <2>3, <3>1, <3>2, MovesKeep DEF Moves
    <2>5. rows[i].attempts < Allowed
      BY <1>2, <2>1 DEF FeederTake, IsTop, Available, Pending, RowsFit, Fits
    <2>6. RowsFit'
      <3> SUFFICES ASSUME NEW j \in RowIds
                   PROVE  Fits(rows[j], boot, Allowed)'
        BY <2>1 DEF RowsFit, Take
      <3>1. Fits(rows[j], boot, Allowed) /\ DOMAIN rows = RowIds
        BY DEF RowsFit
      <3>2. boot = "up"
        BY <1>2 DEF FeederTake, FeederIsUp
      <3>3. Allowed \in Nat /\ Allowed' \in Nat /\ Allowed <= Allowed'
        BY <2>2, AllowedGrows
      <3>4. CASE j # i
        BY <2>1, <2>3, <3>1, <3>3, <3>4 DEF Take, Fits
      <3>5. CASE j = i
        <4>1. rows'[i] = [rows[i] EXCEPT !.lease = "held", !.attempts = @ + 1]
          BY <2>1, <3>1 DEF Take
        <4> QED
          BY <2>3, <2>5, <3>1, <3>2, <3>3, <3>5, <4>1 DEF Fits, NoRow
      <3> QED
        BY <3>4, <3>5
    <2> QED
      BY <2>2, <2>4, <2>6 DEF Spends
  <1>3. CASE FeederFindsNone
    <2>1. Spends
      BY <1>3, SpendSpends DEF FeederFindsNone, Events
    <2>2. Proceeds
      BY <1>0, <1>3, GoToMoves DEF FeederFindsNone, Proceeds
    <2>3. Settles /\ UNCHANGED boot
      BY <1>3 DEF FeederFindsNone, Settles, engine
    <2> QED
      BY <2>1, <2>2, <2>3, StepKeeps
  <1>4. CASE FeederPut
    <2>1. Spends
      BY <1>4, SpendSpends DEF FeederPut
    <2>2. Proceeds
      BY <1>0, <1>4, GoToMoves DEF FeederPut, Proceeds
    <2>3. Settles /\ UNCHANGED boot
      BY <1>4 DEF FeederPut, Settles, engine
    <2> QED
      BY <2>1, <2>2, <2>3, StepKeeps
  <1>5. CASE Complete(Feeder)
    <2>1. Spends
      BY <1>5, SpendSpends DEF Complete, Events
    <2>2. Proceeds
      BY <1>0, <1>5, GoToMoves DEF Complete, Proceeds
    <2>3. Settles /\ UNCHANGED boot
      BY <1>5 DEF Complete, Settles, engine
    <2> QED
      BY <2>1, <2>2, <2>3, StepKeeps
  <1> QED
    BY <1>1, <1>2, <1>3, <1>4, <1>5 DEF FeederStep

(* The start of an engine frees what a dead one had leased.                    *)
LEMMA StartKeeps ==
    ASSUME IInv, Start
    PROVE  IInv'
  <1> USE DEF IInv
  <1>1. Spends
    BY SpendSpends DEF Start, ClaimStart, RecoverAndFork, Events
  <1>2. FibersOK' /\ FeederIsUp'
    BY StaysKeep DEF Start, ClaimStart, RecoverAndFork, FeederIsUp, FibersOK, At
  <1>3. RowsFit'
    <2>1. CASE ClaimStart
      BY <1>1, <2>1, RowsAlone DEF ClaimStart
    <2>2. CASE RecoverAndFork
      <3> SUFFICES ASSUME NEW j \in RowIds
                   PROVE  Fits(rows[j], boot, Allowed)'
        BY <2>2 DEF RowsFit, RecoverAndFork, Recover
      <3>1. Fits(rows[j], boot, Allowed) /\ DOMAIN rows = RowIds /\ boot # "up"
        BY <2>2 DEF RowsFit, RecoverAndFork
      <3>2. Allowed \in Nat /\ Allowed' \in Nat /\ Allowed <= Allowed'
        BY <1>1, AllowedGrows
      <3>3. CASE Recover
        BY <3>1, <3>2, <3>3 DEF Recover, Fits, NoRow
      <3>4. CASE UNCHANGED rows
        BY <3>1, <3>2, <3>4 DEF Fits
      <3> QED
        BY <2>2, <3>3, <3>4 DEF RecoverAndFork
    <2> QED
      BY <2>1, <2>2 DEF Start
  <1> QED
    BY <1>1, <1>2, <1>3 DEF Spends

(* A crash or an expiry allows every row one attempt more.                   *)
LEMMA OneMoreAllowed ==
    ASSUME BudgetOK, Spend("crash") \/ Spend("expire")
    PROVE  Allowed \in Nat /\ Allowed' = Allowed + 1
  <1>1. "crash" \in Events /\ "expire" \in Events
    BY DEF Events
  <1>2. left \in [Events -> Nat] /\ Budget \in [Events -> Nat] /\ Attempts \in Nat
    BY DurableAssumption DEF BudgetOK
  <1>3. Allowed \in Nat
    BY <1>1, <1>2 DEF BudgetOK, Allowed, MaxAttempts, Used
  <1>4. CASE Spend("crash")
    <2>1. left'["crash"] = left["crash"] - 1 /\ left'["expire"] = left["expire"]
      BY <1>1, <1>2, <1>4 DEF Spend
    <2> QED
      BY <1>1, <1>2, <1>3, <2>1 DEF Allowed, MaxAttempts, Used
  <1>5. CASE Spend("expire")
    <2>1. left'["expire"] = left["expire"] - 1 /\ left'["crash"] = left["crash"]
      BY <1>1, <1>2, <1>5 DEF Spend
    <2> QED
      BY <1>1, <1>2, <1>3, <2>1 DEF Allowed, MaxAttempts, Used
  <1> QED
    BY <1>3, <1>4, <1>5

(* A lease that runs out: Allowed grows by the attempt that fail will not see.  *)
LEMMA ExpiryKeeps ==
    ASSUME IInv, NEW i \in RowIds, LeaseExpires(i)
    PROVE  IInv'
  <1> USE DEF IInv
  <1>1. Spends
    BY SpendSpends DEF LeaseExpires, Events
  <1>2. FibersOK' /\ FeederIsUp'
    BY StaysKeep DEF LeaseExpires, engine
  <1>3. Allowed \in Nat /\ Allowed' = Allowed + 1
    BY OneMoreAllowed DEF LeaseExpires
  <1>4. RowsFit'
    <2> SUFFICES ASSUME NEW j \in RowIds
                 PROVE  Fits(rows[j], boot, Allowed)'
      BY DEF RowsFit, LeaseExpires
    <2>1. Fits(rows[j], boot, Allowed) /\ DOMAIN rows = RowIds /\ boot' = boot
      BY DEF RowsFit, LeaseExpires, engine
    <2>2. rows' = [rows EXCEPT ![i].lease = "expired"]
      BY DEF LeaseExpires
    <2>3. CASE j # i
      BY <1>3, <2>1, <2>2, <2>3 DEF Fits
    <2>4. CASE j = i
      BY <1>3, <2>1, <2>2, <2>4 DEF Fits, NoRow
    <2> QED
      BY <2>3, <2>4
  <1> QED
    BY <1>1, <1>2, <1>4 DEF Spends

(* A crash: no engine is up, and every row may be taken again.                 *)
LEMMA CrashKeeps ==
    ASSUME IInv, Crash
    PROVE  IInv'
  <1> USE DEF IInv
  <1>1. Spends
    BY SpendSpends DEF Crash, Events
  <1>2. FibersOK' /\ FeederIsUp'
    BY DEF Crash, AtStart, FirstPc, FibersOK, FeederIsUp, At, Fibers
  <1>3. Allowed \in Nat /\ Allowed' = Allowed + 1
    BY OneMoreAllowed DEF Crash
  <1>4. RowsFit'
    BY <1>3 DEF Crash, RowsFit, Fits
  <1> QED
    BY <1>1, <1>2, <1>4 DEF Spends

(* An empty table.                                                           *)
LEMMA InitInv ==
    ASSUME Init
    PROVE  IInv
  <1>1. BudgetOK
    BY DurableAssumption DEF Init, BudgetOK
  <1>2. Allowed \in Nat /\ Allowed > 0
    <2>1. Used("crash") = 0 /\ Used("expire") = 0
      BY DurableAssumption DEF Init, Used, Events
    <2> QED
      BY <2>1, DurableAssumption DEF Allowed, MaxAttempts
  <1>3. RowsFit
    BY <1>2 DEF Init, RowsFit, Fits, NoRow
  <1>4. FibersOK /\ FeederIsUp
    BY DEF Init, AtStart, FirstPc, FibersOK, FeederIsUp, At, Fibers
  <1> QED
    BY <1>1, <1>3, <1>4 DEF IInv

(* The inductive invariant of the durable queue.                               *)
THEOREM AttemptsInvariant == Spec => []IInv
  <1>1. IInv /\ [Next]_vars => IInv'
    <2> SUFFICES ASSUME IInv, [Next]_vars
                 PROVE  IInv'
      OBVIOUS
    <2>1. CASE UNCHANGED vars
      BY <2>1 DEF vars, engine, IInv, RowsFit, BudgetOK, FibersOK, FeederIsUp, At,
                  Allowed, Used
    <2>2. CASE Next
      BY <2>2, ClientKeeps, WorkerKeeps, FeederKeeps, StartKeeps, ExpiryKeeps, CrashKeeps
         DEF Next
    <2> QED
      BY <2>1, <2>2
  <1> QED
    BY <1>1, InitInv, PTL DEF Spec

(* A row is taken MaxAttempts times, and once more for each crash and each      *)
(* lease that ran out (durableQueue.ts, take and fail).                       *)
THEOREM BoundedAttempts == Spec => []AttemptsBounded
  <1>1. IInv => AttemptsBounded
    BY DEF IInv, RowsFit, Fits, Allowed, AttemptsBounded
  <1> QED
    BY <1>1, AttemptsInvariant, PTL

----------------------------------------------------------------------------
(* The types of the variables (TypeOK).                                      *)

CopyRecords == [id : RowIds, work : Works, level : Levels]
QueuedIn(l) == [id : RowIds, work : Works, level : {l}]

RowTyped(r) ==
    /\ DOMAIN r = DOMAIN NoRow
    /\ r.status \in {"none", "pending", "dead"} /\ r.lease \in {"free", "held", "expired"}
    /\ r.attempts \in Nat /\ r.seq \in Nat
    /\ r.status # "none" => r.work \in Works /\ r.rank \in Levels
TableTyped ==
    /\ DOMAIN rows = RowIds /\ \A i \in RowIds : RowTyped(rows[i])
    /\ \A i, j \in RowIds : i # j /\ rows[i].seq = rows[j].seq => rows[i].seq = 0
LanesTyped == DOMAIN lanes = Levels /\ \A l \in Levels : lanes[l] \in Seq(QueuedIn(l))
FrameTyped(r) ==
    /\ DOMAIN r = {"pc", "copy", "taken"}
    /\ r.pc \in Holding => r.copy \in CopyRecords
    /\ r.pc = "offer" => r.copy.work \in Works /\ r.copy.level \in Levels
    /\ \A t \in r.taken :
         t.id \in RowIds /\ t.row.work \in Works /\ t.row.rank \in Levels
FramesTyped == DOMAIN fib = Fibers /\ \A f \in Fibers : FrameTyped(fib[f])
EngineTyped ==
    /\ boot \in {"new", "recovering", "up"}
    /\ isShutdown \in BOOLEAN /\ phase \in {"running", "draining", "off"}
WorksKnown == accepted \cup ended \cup abandoned \subseteq Works

(* An id was made for an add, and an add that has not offered makes one yet.    *)
Running == {w \in Workers : At(w, "running")}
Offering == {c \in Clients : At(c, "offer")}
Counted ==
    /\ inFlight = Cardinality(Running)
    /\ entrySeq \in Nat /\ entrySeq + Cardinality(Offering) <= Used("add")

Typed == /\ TableTyped /\ LanesTyped /\ FramesTyped /\ EngineTyped /\ WorksKnown
         /\ BudgetOK /\ Counted
----------------------------------------------------------------------------
(* The table.                                                                *)

(* A finite set of numbers has a largest one: above it is the least.          *)
LEMMA LargestExists ==
    ASSUME NEW S \in SUBSET Nat, S # {}, IsFiniteSet(S)
    PROVE  Max(S) \in S /\ \A s \in S : s <= Max(S)
  <1> DEFINE From(n) == {s \in S : s >= n}
             Tops == {From(n) : n \in S}
  <1>1. Tops \subseteq FiniteSubsetsOf(S) /\ Tops # {}
    <2>1. \A n \in S : From(n) \in SUBSET S
      OBVIOUS
    <2>2. \A n \in S : IsFiniteSet(From(n))
      BY <2>1, FS_Subset
    <2> QED
      BY <2>1, <2>2 DEF FiniteSubsetsOf
  <1>2. PICK top \in Tops : \A t \in Tops : <<t, top>> \notin StrictSubsetOrdering(S)
    BY <1>1, FS_StrictSubsetOrderingWellFounded, WFMin
  <1>3. PICK n \in S : top = From(n)
    BY <1>2
  <1>4. ASSUME NEW m \in S, m > n
        PROVE  FALSE
    <2>1. m \in Nat /\ n \in Nat
      OBVIOUS
    <2>2. From(m) \in Tops
      OBVIOUS
    <2>3. From(m) \subseteq From(n)
      <3>1. ASSUME NEW s \in S, s >= m
            PROVE  s >= n
        BY <1>4, <2>1, <3>1
      <3> QED
        BY <3>1
    <2>4. n \in From(n) /\ n \notin From(m)
      BY <1>4, <2>1
    <2>5. From(m) \in SUBSET S /\ From(n) \in SUBSET S
      OBVIOUS
    <2> QED
      BY <1>2, <1>3, <2>2, <2>3, <2>4, <2>5 DEF StrictSubsetOrdering
  <1>5. n \in Nat /\ \A m \in S : m \in Nat /\ n >= m
    BY <1>4
  <1> QED
    BY <1>5 DEF Max

(* The number of a new row is larger than any other.                         *)
LEMMA NextSeqIsNew ==
    ASSUME TableTyped
    PROVE  NextSeq \in Nat \ {0} /\ \A i \in RowIds : rows[i].seq < NextSeq
  <1> DEFINE seqs == {rows[i].seq : i \in RowIds}
  <1>1. Budget["add"] \in Int
    BY DurableAssumption DEF Events
  <1>2. IsFiniteSet(RowIds)
    BY <1>1, FS_Interval DEF RowIds
  <1>3. IsFiniteSet(seqs)
    <2> DEFINE numbers == [i \in RowIds |-> rows[i].seq]
    <2>1. numbers \in Surjection(RowIds, seqs)
      BY DEF Surjection
    <2> QED
      BY <1>2, <2>1, FS_Surjection
  <1>4. IsFiniteSet({0} \cup seqs)
    BY <1>3, FS_Singleton, FS_Union
  <1>5. {0} \cup seqs \in SUBSET Nat
    BY DEF TableTyped, RowTyped
  <1>6. Max({0} \cup seqs) \in {0} \cup seqs /\ \A s \in {0} \cup seqs : s <= Max({0} \cup seqs)
    BY <1>4, <1>5, LargestExists
  <1>7. \A i \in RowIds : rows[i].seq \in seqs
    OBVIOUS
  <1> DEFINE top == Max({0} \cup seqs)
  <1>8. top \in Nat /\ \A i \in RowIds : rows[i].seq \in Nat /\ rows[i].seq <= top
    BY <1>5, <1>6, <1>7
  <1>9. NextSeq = 1 + top
    BY DEF NextSeq
  <1> HIDE DEF top
  <1> QED
    BY <1>8, <1>9
(* A deleted row, a failed one.                                              *)
LEMMA DeleteTyped ==
    ASSUME TableTyped, NEW ids, Delete(ids)
    PROVE  TableTyped'
  <1>1. \A i \in RowIds : rows'[i] = IF i \in ids THEN NoRow ELSE rows[i]
    BY DEF Delete
  <1> QED
    BY <1>1 DEF TableTyped, RowTyped, Delete, NoRow

LEMMA FailTyped ==
    ASSUME TableTyped, NEW i, FailRow(i)
    PROVE  TableTyped'
  <1>1. DOMAIN rows' = RowIds /\ \A j \in RowIds :
           rows'[j].seq = rows[j].seq /\ RowTyped(rows'[j])
    <2> SUFFICES ASSUME NEW j \in RowIds
                 PROVE  rows'[j].seq = rows[j].seq /\ RowTyped(rows'[j])
      BY DEF TableTyped, FailRow
    <2>1. CASE j # i
      BY <2>1 DEF TableTyped, FailRow, RowTyped
    <2>2. CASE j = i
      BY <2>2 DEF TableTyped, FailRow, RowTyped, NoRow
    <2> QED
      BY <2>1, <2>2
  <1> QED
    BY <1>1 DEF TableTyped

(* What is written in place keeps its number.                                *)
Retouched(i, r) ==
    /\ rows' = [rows EXCEPT ![i] = r]
    /\ RowTyped(r) /\ r.seq = rows[i].seq

LEMMA RetouchTyped ==
    ASSUME TableTyped, NEW i \in RowIds, NEW r, Retouched(i, r)
    PROVE  TableTyped'
  <1>1. \A j \in RowIds : rows'[j].seq = rows[j].seq /\ RowTyped(rows'[j])
    BY DEF TableTyped, Retouched
  <1> QED
    BY <1>1 DEF TableTyped, Retouched

LEMMA OfferTyped ==
    ASSUME TableTyped, NEW id, NEW w \in Works, NEW level \in Levels, Offer(id, w, level)
    PROVE  TableTyped'
  <1>1. CASE UNCHANGED rows
    BY <1>1 DEF TableTyped
  <1>2. CASE rows' = [i \in RowIds |->
                        IF i \in LiveWith(KeyOf[w]) /\ rows[i].rank > level
                        THEN [rows[i] EXCEPT !.rank = level] ELSE rows[i]]
    <2>1. \A i \in RowIds : rows'[i].seq = rows[i].seq /\ RowTyped(rows'[i])
      BY <1>2 DEF TableTyped, RowTyped, NoRow
    <2> QED
      BY <1>2, <2>1 DEF TableTyped
  <1>3. CASE rows' = [rows EXCEPT ![id] =
                        [NoRow EXCEPT !.status = "pending", !.work = w, !.key = KeyOf[w],
                                      !.rank = level, !.seq = NextSeq]]
    <2>1. NextSeq \in Nat \ {0} /\ \A i \in RowIds : rows[i].seq < NextSeq
      BY NextSeqIsNew
    <2> DEFINE n == NextSeq
    <2>2. \A i \in RowIds : i # id => rows'[i] = rows[i]
      BY <1>3 DEF TableTyped
    <2>3. id \in RowIds => RowTyped(rows'[id]) /\ rows'[id].seq = n
      BY <1>3, <2>1 DEF TableTyped, RowTyped, NoRow
    <2> HIDE DEF n
    <2>4. n \in Nat \ {0} /\ \A i \in RowIds : rows[i].seq < n
      BY <2>1 DEF n
    <2>5. DOMAIN rows' = RowIds
      BY <1>3 DEF TableTyped
    <2>6. \A i \in RowIds : RowTyped(rows'[i])
      BY <2>2, <2>3 DEF TableTyped
    <2>7. \A i, j \in RowIds : i # j /\ rows'[i].seq = rows'[j].seq => rows'[i].seq = 0
      <3> SUFFICES ASSUME NEW i \in RowIds, NEW j \in RowIds, i # j,
                          rows'[i].seq = rows'[j].seq
                   PROVE  rows'[i].seq = 0
        OBVIOUS
      <3>1. rows[i].seq \in Nat /\ rows[j].seq \in Nat
        BY DEF TableTyped, RowTyped
      <3> QED
        BY <2>2, <2>3, <2>4, <3>1 DEF TableTyped
    <2> QED
      BY <2>5, <2>6, <2>7 DEF TableTyped
  <1> QED
    BY <1>1, <1>2, <1>3 DEF Offer

LEMMA TakeTyped ==
    ASSUME TableTyped, NEW i \in RowIds, Take(i)
    PROVE  TableTyped'
  <1>1. Retouched(i, [rows[i] EXCEPT !.lease = "held", !.attempts = @ + 1])
    BY DEF TableTyped, RowTyped, Take, Retouched, NoRow
  <1> QED
    BY <1>1, RetouchTyped

LEMMA RecoverTyped ==
    ASSUME TableTyped, Recover
    PROVE  TableTyped'
  <1>1. \A i \in RowIds : rows'[i].seq = rows[i].seq /\ RowTyped(rows'[i])
    BY DEF TableTyped, RowTyped, NoRow, Recover
  <1> QED
    BY <1>1 DEF TableTyped, Recover

----------------------------------------------------------------------------
(* The frames of the fibers.                                                 *)

(* A fiber goes on, its frame well typed.                                    *)
Goes(f, frame) == fib' = [fib EXCEPT ![f] = frame] /\ FrameTyped(frame)

LEMMA GoesTyped ==
    ASSUME FramesTyped, NEW f \in Fibers, NEW frame, Goes(f, frame)
    PROVE  /\ FramesTyped' /\ fib'[f] = frame
           /\ \A g \in Fibers \ {f} : fib'[g] = fib[g]
BY DEF FramesTyped, Goes

(* GoTo: what the fiber holds stays as it was.                               *)
LEMMA GoToTyped ==
    ASSUME FramesTyped, NEW f \in Fibers, NEW pc, GoTo(f, pc), pc # "offer",
           pc \in Holding => fib[f].pc \in Holding
    PROVE  /\ FramesTyped'
           /\ fib'[f].pc = pc /\ fib'[f].copy = fib[f].copy /\ fib'[f].taken = fib[f].taken
           /\ \A g \in Fibers \ {f} : fib'[g] = fib[g]
  <1> DEFINE frame == [fib[f] EXCEPT !.pc = pc]
  <1>1. /\ DOMAIN frame = {"pc", "copy", "taken"} /\ frame.pc = pc
        /\ frame.copy = fib[f].copy /\ frame.taken = fib[f].taken
    BY DEF FramesTyped, FrameTyped
  <1>2. fib' = [fib EXCEPT ![f] = frame]
    BY DEF GoTo
  <1> HIDE DEF frame
  <1>3. FrameTyped(frame)
    BY <1>1 DEF FramesTyped, FrameTyped
  <1> QED
    BY <1>1, <1>2, <1>3, GoesTyped DEF Goes

(* DropsCopy: it holds nothing any more.                                     *)
LEMMA DropsTyped ==
    ASSUME FramesTyped, NEW f \in Fibers, NEW pc, DropsCopy(f, pc),
           pc \notin Holding \cup {"offer"}
    PROVE  /\ FramesTyped'
           /\ fib'[f].pc = pc /\ fib'[f].taken = fib[f].taken
           /\ \A g \in Fibers \ {f} : fib'[g] = fib[g]
  <1> DEFINE frame == [fib[f] EXCEPT !.pc = pc, !.copy = NoCopy]
  <1>1. /\ DOMAIN frame = {"pc", "copy", "taken"} /\ frame.pc = pc
        /\ frame.taken = fib[f].taken
    BY DEF FramesTyped, FrameTyped
  <1>2. fib' = [fib EXCEPT ![f] = frame]
    BY DEF DropsCopy
  <1> HIDE DEF frame
  <1>3. FrameTyped(frame)
    BY <1>1 DEF FramesTyped, FrameTyped
  <1> QED
    BY <1>1, <1>2, <1>3, GoesTyped DEF Goes
----------------------------------------------------------------------------
(* The lanes.                                                                *)

LEMMA PutTyped ==
    ASSUME LanesTyped, NEW copy \in CopyRecords,
           lanes' = [lanes EXCEPT ![copy.level] = Append(@, copy)]
    PROVE  LanesTyped'
  <1>1. copy.level \in Levels /\ copy \in QueuedIn(copy.level)
    BY DEF CopyRecords, QueuedIn
  <1>2. Append(lanes[copy.level], copy) \in Seq(QueuedIn(copy.level))
    BY <1>1, AppendProperties DEF LanesTyped
  <1> QED
    BY <1>1, <1>2 DEF LanesTyped

LEMMA TailTyped ==
    ASSUME LanesTyped, NEW l \in Levels, lanes[l] # <<>>,
           lanes' = [lanes EXCEPT ![l] = Tail(@)]
    PROVE  LanesTyped' /\ Head(lanes[l]) \in CopyRecords
  <1>1. lanes[l] \in Seq(QueuedIn(l))
    BY DEF LanesTyped
  <1>2. Head(lanes[l]) \in QueuedIn(l) /\ Tail(lanes[l]) \in Seq(QueuedIn(l))
    BY <1>1, HeadTailProperties
  <1>3. \A copy \in QueuedIn(l) : copy \in CopyRecords
    BY DEF CopyRecords, QueuedIn
  <1> QED
    BY <1>2, <1>3 DEF LanesTyped

LEMMA EmptyTyped ==
    ASSUME LanesTyped, EmptyLanes
    PROVE  LanesTyped' /\ WorksInLanes \subseteq Works
  <1>1. WorksInLanes \subseteq Works
    <2> SUFFICES ASSUME NEW l \in Levels, NEW n \in DOMAIN lanes[l]
                 PROVE  lanes[l][n].work \in Works
      BY DEF WorksInLanes
    <2>1. lanes[l][n] \in QueuedIn(l)
      BY ElementOfSeq DEF LanesTyped
    <2> QED
      BY <2>1 DEF QueuedIn
  <1>2. \A l \in Levels : <<>> \in Seq(QueuedIn(l))
    OBVIOUS
  <1> QED
    BY <1>1, <1>2 DEF LanesTyped, EmptyLanes

LEMMA PendingTyped ==
    ASSUME TableTyped
    PROVE  \A i \in Pending : i \in RowIds /\ rows[i].work \in Works /\ rows[i].rank \in Levels
BY DEF TableTyped, RowTyped, Pending

----------------------------------------------------------------------------
(* What is counted.                                                          *)

LEMMA CountsFinite ==
    /\ IsFiniteSet(Workers) /\ IsFiniteSet(Clients)
    /\ IsFiniteSet(Running) /\ IsFiniteSet(Offering)
  <1>1. IsFiniteSet(Workers) /\ IsFiniteSet(Clients)
    BY DurableAssumption, FS_Subset
  <1> QED
    BY <1>1, FS_Subset DEF Running, Offering

(* A fiber that neither runs an effect nor offers, before or after.           *)
Quiet(f) ==
    /\ fib[f].pc \notin {"running", "offer"} /\ fib'[f].pc \notin {"running", "offer"}
    /\ \A g \in Fibers \ {f} : fib'[g] = fib[g]

LEMMA QuietCounts ==
    ASSUME Counted, BudgetOK, Spends, UNCHANGED <<inFlight, entrySeq>>,
           UNCHANGED fib \/ \E f \in Fibers : Quiet(f)
    PROVE  Counted'
  <1>1. Running' = Running /\ Offering' = Offering
    BY DEF Quiet, Running, Offering, At, Fibers
  <1>2. Used("add") \in Int /\ Used("add")' \in Int /\ Used("add") <= Used("add")'
    BY DurableAssumption DEF BudgetOK, Spends, Used, Events
  <1>3. Cardinality(Offering) \in Nat
    BY CountsFinite, FS_CardinalityType
  <1> QED
    BY <1>1, <1>2, <1>3 DEF Counted

(* A step of one fiber, its parts put together.                              *)
LEMMA StepTyped ==
    ASSUME Typed, Spends, TableTyped', LanesTyped', FramesTyped', EngineTyped', WorksKnown',
           UNCHANGED <<inFlight, entrySeq>>,
           UNCHANGED fib \/ \E f \in Fibers : Quiet(f)
    PROVE  Typed'
BY QuietCounts DEF Typed, Spends

----------------------------------------------------------------------------
(* Every step keeps the types.                                               *)

LEMMA SameTyped ==
    ASSUME Typed
    PROVE  /\ UNCHANGED rows => TableTyped'
           /\ UNCHANGED lanes => LanesTyped'
           /\ UNCHANGED fib => FramesTyped'
           /\ UNCHANGED engine => EngineTyped' /\ UNCHANGED <<inFlight, entrySeq>>
           /\ UNCHANGED <<accepted, ended, abandoned>> => WorksKnown'
           /\ UNCHANGED left => Spends
BY SpendSpends
   DEF Typed, TableTyped, LanesTyped, FramesTyped, EngineTyped, WorksKnown, engine

(* Steps that move one fiber only.                                           *)
LEMMA MoverTyped ==
    ASSUME Typed, NEW f \in Fibers, NEW pc, GoTo(f, pc) \/ DropsCopy(f, pc),
           pc \notin Holding \cup {"offer"}, fib[f].pc \notin {"running", "offer"}
    PROVE  FramesTyped' /\ \E g \in Fibers : Quiet(g)
  <1>1. pc # "running"
    BY DEF Holding
  <1> QED
    BY <1>1, GoToTyped, DropsTyped DEF Quiet, Typed

(* add is asked: the caller has the number of its entry.                       *)
LEMMA CallAddTyped ==
    ASSUME Typed, NEW c \in Clients, CallAdd(c)
    PROVE  Typed'
  <1>0. c \in Fibers /\ c \notin Workers
    BY DurableAssumption DEF Fibers
  <1>1. Spends
    BY SpendSpends DEF Typed, CallAdd, Events
  <1>2. TableTyped' /\ LanesTyped' /\ EngineTyped' /\ WorksKnown'
    BY SameTyped DEF CallAdd, asked
  <1>3. CASE UNCHANGED fib
    <2>1. FramesTyped'
      BY <1>3, SameTyped
    <2> QED
      BY <1>1, <1>2, <1>3, <2>1, StepTyped DEF CallAdd, engine
  <1>4. ASSUME NEW l \in Levels,
               fib' = [fib EXCEPT ![c].pc = "offer",
                         ![c].copy = [id |-> 0, work |-> Used("add") + 1, level |-> l]]
        PROVE  Typed'
    <2> DEFINE frame == [fib[c] EXCEPT !.pc = "offer",
                           !.copy = [id |-> 0, work |-> Used("add") + 1, level |-> l]]
    <2>1. Budget["add"] \in Nat /\ left["add"] \in Nat /\ left["add"] <= Budget["add"]
          /\ left["add"] > 0 /\ left'["add"] = left["add"] - 1
      BY DurableAssumption DEF Typed, BudgetOK, CallAdd, Spend, Events
    <2>2. Used("add") \in Nat /\ Used("add") + 1 \in Works /\ Used("add")' = Used("add") + 1
      BY <2>1 DEF Used, Works
    <2>3. /\ DOMAIN frame = {"pc", "copy", "taken"} /\ frame.pc = "offer"
          /\ frame.copy.work = Used("add") + 1 /\ frame.copy.level = l
          /\ frame.taken = fib[c].taken
      BY <1>0 DEF Typed, FramesTyped, FrameTyped
    <2>4. fib' = [fib EXCEPT ![c] = frame]
      BY <1>4
    <2> HIDE DEF frame
    <2>5. FrameTyped(frame)
      BY <1>0, <2>2, <2>3 DEF Typed, FramesTyped, FrameTyped, Holding
    <2>6. FramesTyped' /\ fib'[c].pc = "offer" /\ \A g \in Fibers \ {c} : fib'[g] = fib[g]
      BY <1>0, <2>3, <2>4, <2>5, GoesTyped DEF Goes, Typed
    <2>7. Running' = Running /\ Offering' = Offering \cup {c} /\ c \notin Offering
      BY <1>0, <2>6 DEF Running, Offering, At, CallAdd, Fibers
    <2>8. Cardinality(Offering') = Cardinality(Offering) + 1 /\ Cardinality(Offering) \in Nat
      BY <2>7, CountsFinite, FS_AddElement, FS_CardinalityType
    <2>9. Counted'
      BY <2>2, <2>7, <2>8 DEF Counted, Typed, CallAdd, engine
    <2> QED
      BY <1>1, <1>2, <2>6, <2>9 DEF Typed, Spends
  <1> QED
    BY <1>3, <1>4 DEF CallAdd

(* The id of an offer is one of the table.                                   *)
LEMMA OfferedId ==
    ASSUME Typed, NEW c \in Clients, At(c, "offer")
    PROVE  /\ entrySeq + 1 \in RowIds
           /\ fib[c].copy.work \in Works /\ fib[c].copy.level \in Levels
  <1>1. c \in Offering /\ c \in Fibers
    BY DEF Offering, Fibers
  <1>2. Cardinality(Offering) # 0 /\ Cardinality(Offering) \in Nat
    BY <1>1, CountsFinite, FS_EmptySet, FS_CardinalityType
  <1>3. Budget["add"] \in Nat /\ left["add"] \in Nat
    BY DurableAssumption DEF Typed, BudgetOK, Events
  <1>4. entrySeq \in Nat /\ entrySeq + 1 <= Budget["add"]
    BY <1>2, <1>3 DEF Typed, Counted, Used
  <1> QED
    BY <1>1, <1>3, <1>4 DEF RowIds, Typed, FramesTyped, FrameTyped, At

LEMMA OfferRowTyped ==
    ASSUME Typed, NEW c \in Clients, OfferRow(c)
    PROVE  Typed'
  <1>0. c \in Fibers /\ c \notin Workers /\ At(c, "offer")
    BY DurableAssumption DEF Fibers, OfferRow
  <1>1. Spends
    BY SpendSpends DEF Typed, OfferRow, Events
  <1>2. fib[c].copy.work \in Works /\ fib[c].copy.level \in Levels
    BY <1>0, OfferedId
  <1>3. TableTyped' /\ WorksKnown'
    <2>1. CASE UNCHANGED <<rows, asked, ended>>
      BY <2>1, SameTyped DEF asked, OfferRow
    <2>2. CASE Offer(entrySeq', fib[c].copy.work, fib[c].copy.level)
               /\ accepted' = accepted \cup {fib[c].copy.work}
      <3>1. TableTyped'
        BY <1>2, <2>2, OfferTyped DEF Typed
      <3>2. ended' \subseteq ended \cup {fib[c].copy.work}
        BY <2>2 DEF Offer
      <3> QED
        BY <1>2, <2>2, <3>1, <3>2 DEF Typed, WorksKnown, OfferRow
    <2> QED
      BY <2>1, <2>2 DEF OfferRow
  <1>4. LanesTyped' /\ EngineTyped'
    BY SameTyped DEF OfferRow, Typed, EngineTyped
  <1>5. FramesTyped' /\ fib'[c].pc = "idle" /\ \A g \in Fibers \ {c} : fib'[g] = fib[g]
    BY <1>0, DropsTyped DEF OfferRow, Holding, Typed
  <1>6. Running' = Running /\ Offering' = Offering \ {c} /\ c \in Offering
    BY <1>0, <1>5 DEF Running, Offering, At, Fibers
  <1>7. Cardinality(Offering') = Cardinality(Offering) - 1 /\ Cardinality(Offering) \in Nat
    BY <1>6, CountsFinite, FS_RemoveElement, FS_CardinalityType
  <1>8. Used("add") \in Int /\ Used("add")' \in Int /\ Used("add") <= Used("add")'
    BY <1>1, DurableAssumption DEF Typed, BudgetOK, Spends, Used, Events
  <1>9. Counted'
    BY <1>6, <1>7, <1>8 DEF Counted, Typed, OfferRow
  <1> QED
    BY <1>1, <1>3, <1>4, <1>5, <1>9 DEF Typed, Spends

LEMMA ClientTyped ==
    ASSUME Typed, NEW c \in Clients, ClientCall(c) \/ ClientStep(c)
    PROVE  Typed'
  <1>0. c \in Fibers
    BY DEF Fibers
  <1>1. CASE CallShutdown(c)
    <2>1. Spends
      BY <1>1, SpendSpends DEF Typed, CallShutdown, Events
    <2>2. FramesTyped' /\ \E g \in Fibers : Quiet(g)
      BY <1>0, <1>1, MoverTyped DEF CallShutdown, At, Holding
    <2>3. TableTyped' /\ LanesTyped' /\ WorksKnown'
      BY <1>1, SameTyped DEF CallShutdown, asked
    <2>4. EngineTyped'
      BY <1>1 DEF CallShutdown, Typed, EngineTyped
    <2> QED
      BY <1>1, <2>1, <2>2, <2>3, <2>4, StepTyped DEF CallShutdown
  <1>2. CASE WindDown(c) \/ PurgeLanes(c)
    <2>1. Spends /\ TableTyped' /\ EngineTyped' /\ UNCHANGED <<inFlight, entrySeq>>
      BY <1>2, SameTyped DEF WindDown, PurgeLanes
    <2>2. FramesTyped' /\ \E g \in Fibers : Quiet(g)
      BY <1>0, <1>2, MoverTyped DEF WindDown, PurgeLanes, At, Holding
    <2>3. LanesTyped' /\ WorksKnown'
      <3>1. CASE EmptyLanes
        <4>1. LanesTyped' /\ abandoned' \subseteq abandoned \cup Works
          BY <3>1, EmptyTyped DEF Typed, EmptyLanes
        <4> QED
          BY <1>2, <4>1 DEF Typed, WorksKnown, WindDown, PurgeLanes, asked
      <3>2. CASE UNCHANGED <<lanes, abandoned>>
        BY <1>2, <3>2, SameTyped DEF WindDown, PurgeLanes, asked
      <3> QED
        BY <1>2, <3>1, <3>2 DEF WindDown, PurgeLanes
    <2> QED
      BY <2>1, <2>2, <2>3, StepTyped
  <1>3. CASE CallClear(c)
    <2>1. Spends
      <3>1. "clear" \in Events /\ "fault" \in Events /\ left["clear"] > 0
        BY <1>3 DEF CallClear, Events
      <3> QED
        BY <1>3, <3>1, DurableAssumption DEF CallClear, Spends, Typed, BudgetOK
    <2>2. FramesTyped' /\ \E g \in Fibers : Quiet(g)
      BY <1>0, <1>3, MoverTyped DEF CallClear, At, Holding
    <2>3. LanesTyped' /\ EngineTyped' /\ UNCHANGED <<inFlight, entrySeq>>
      BY <1>3, SameTyped DEF CallClear
    <2>4. TableTyped' /\ ended' \subseteq ended \cup Works
      BY <1>3, SameTyped, DeleteTyped, PendingTyped DEF CallClear, Typed, WorksOf
    <2>5. WorksKnown'
      BY <1>3, <2>4 DEF Typed, WorksKnown, CallClear, asked
    <2> QED
      BY <2>1, <2>2, <2>3, <2>4, <2>5, StepTyped
  <1>4. CASE CallExtract(c)
    <2>1. PICK drained \in Matching :
            /\ Delete(drained)
            /\ ended' = ended \cup WorksOf(drained)
            /\ \/ UNCHANGED fib
                  /\ left' = [left EXCEPT !["extract"] = @ - 1]
               \/ /\ left["encodeError"] > 0
                  /\ left' = [left EXCEPT !["extract"] = @ - 1, !["encodeError"] = @ - 1]
                  /\ fib' = [fib EXCEPT ![c].pc = "restore",
                               ![c].taken = {[id |-> i, row |-> rows[i]] : i \in drained}]
      BY <1>4, Zenon DEF CallExtract
    <2>2. Spends
      <3>1. "extract" \in Events /\ "encodeError" \in Events /\ left["extract"] > 0
        BY <1>4 DEF CallExtract, Events
      <3> QED
        BY <2>1, <3>1, DurableAssumption DEF Spends, Typed, BudgetOK
    <2>3. drained \subseteq Pending
      BY <2>1 DEF Matching, Available
    <2>4. TableTyped' /\ WorksKnown'
      <3>1. WorksOf(drained) \subseteq Works
        BY <2>3, PendingTyped DEF Typed, WorksOf
      <3> QED
        BY <1>4, <2>1, <3>1, DeleteTyped DEF Typed, WorksKnown, CallExtract, asked
    <2>5. LanesTyped' /\ EngineTyped' /\ UNCHANGED <<inFlight, entrySeq>>
      BY <1>4, SameTyped DEF CallExtract
    <2>6. FramesTyped' /\ (UNCHANGED fib \/ \E g \in Fibers : Quiet(g))
      <3> DEFINE frame == [fib[c] EXCEPT !.pc = "restore",
                             !.taken = {[id |-> i, row |-> rows[i]] : i \in drained}]
      <3>1. CASE UNCHANGED fib
        BY <3>1, SameTyped
      <3>2. CASE fib' = [fib EXCEPT ![c].pc = "restore",
                           ![c].taken = {[id |-> i, row |-> rows[i]] : i \in drained}]
        <4>1. /\ DOMAIN frame = {"pc", "copy", "taken"} /\ frame.pc = "restore"
              /\ frame.taken = {[id |-> i, row |-> rows[i]] : i \in drained}
          BY <1>0 DEF Typed, FramesTyped, FrameTyped
        <4>2. fib' = [fib EXCEPT ![c] = frame]
          BY <3>2
        <4> HIDE DEF frame
        <4>3. FrameTyped(frame)
          BY <2>3, <4>1, PendingTyped DEF FrameTyped, Typed, Holding
        <4> QED
          BY <1>0, <1>4, <4>1, <4>2, <4>3, GoesTyped DEF Goes, Quiet, CallExtract, At, Typed
      <3> QED
        BY <2>1, <3>1, <3>2
    <2> QED
      BY <2>2, <2>4, <2>5, <2>6, StepTyped
  <1>5. CASE RestorePending(c)
    <2>1. PICK t \in fib[c].taken :
            /\ \/ Offer(t.id, t.row.work, t.row.rank) /\ UNCHANGED left
               \/ Spend("fault") /\ UNCHANGED <<rows, stored, ended>>
            /\ fib' = [fib EXCEPT ![c].taken = @ \ {t},
                         ![c].pc = IF fib[c].taken = {t} THEN "idle" ELSE @]
      BY <1>5, Zenon DEF RestorePending
    <2>2. Spends
      BY <2>1, SpendSpends DEF Events, Typed
    <2>3. t.row.work \in Works /\ t.row.rank \in Levels
      BY <1>0 DEF Typed, FramesTyped, FrameTyped
    <2>4. TableTyped' /\ WorksKnown'
      <3>1. CASE Offer(t.id, t.row.work, t.row.rank)
        <4>1. ended' \subseteq ended \cup {t.row.work}
          BY <3>1 DEF Offer
        <4> QED
          BY <1>5, <2>3, <3>1, <4>1, OfferTyped DEF Typed, WorksKnown, RestorePending
      <3>2. CASE UNCHANGED <<rows, stored, ended>>
        BY <1>5, <3>2, SameTyped DEF RestorePending
      <3> QED
        BY <2>1, <3>1, <3>2
    <2>5. LanesTyped' /\ EngineTyped' /\ UNCHANGED <<inFlight, entrySeq>>
      BY <1>5, SameTyped DEF RestorePending
    <2>6. FramesTyped' /\ Quiet(c)
      <3> DEFINE frame == [fib[c] EXCEPT !.taken = @ \ {t},
                             !.pc = IF fib[c].taken = {t} THEN "idle" ELSE @]
      <3>1. /\ DOMAIN frame = {"pc", "copy", "taken"} /\ frame.pc \in {"idle", "restore"}
            /\ frame.taken \subseteq fib[c].taken
        BY <1>0, <1>5 DEF Typed, FramesTyped, FrameTyped, RestorePending, At
      <3>2. fib' = [fib EXCEPT ![c] = frame]
        BY <2>1
      <3> HIDE DEF frame
      <3>3. FrameTyped(frame)
        BY <1>0, <3>1 DEF FrameTyped, Typed, FramesTyped, Holding
      <3> QED
        BY <1>0, <1>5, <3>1, <3>2, <3>3, GoesTyped DEF Goes, Quiet, RestorePending, At, Typed
    <2> QED
      BY <1>0, <2>2, <2>4, <2>5, <2>6, StepTyped
  <1>6. CASE FinalizeRead(c) \/ FinalizeSet(c)
    <2>1. Spends
      BY <1>6, SpendSpends DEF Typed, FinalizeRead, FinalizeSet, Events
    <2>2. FramesTyped' /\ \E g \in Fibers : Quiet(g)
      BY <1>0, <1>6, MoverTyped DEF FinalizeRead, FinalizeSet, AfterFinalize, At, Holding
    <2>3. TableTyped' /\ LanesTyped' /\ WorksKnown' /\ UNCHANGED <<inFlight, entrySeq>>
      BY <1>6, SameTyped DEF FinalizeRead, FinalizeSet, asked, engine
    <2>4. EngineTyped'
      BY <1>6 DEF FinalizeRead, FinalizeSet, Typed, EngineTyped, engine
    <2> QED
      BY <2>1, <2>2, <2>3, <2>4, StepTyped
  <1> QED
    BY <1>1, <1>2, <1>3, <1>4, <1>5, <1>6, CallAddTyped, OfferRowTyped
       DEF ClientCall, ClientStep

(* The effect begins and exits: inFlight counts it.                           *)
LEMMA StartItemTyped ==
    ASSUME Typed, NEW w \in Workers, StartItem(w)
    PROVE  Typed'
  <1>0. w \in Fibers /\ w \notin Clients
    BY DurableAssumption DEF Fibers
  <1>1. Spends /\ TableTyped' /\ LanesTyped' /\ WorksKnown'
    BY SameTyped DEF StartItem, asked
  <1>2. EngineTyped'
    BY DEF StartItem, Typed, EngineTyped
  <1>3. FramesTyped' /\ fib'[w].pc = "running" /\ \A g \in Fibers \ {w} : fib'[g] = fib[g]
    BY <1>0, GoToTyped DEF StartItem, At, Holding, Typed
  <1>4. Offering' = Offering /\ Running' = Running \cup {w} /\ w \notin Running
    BY <1>0, <1>3 DEF Running, Offering, At, StartItem, Fibers
  <1>5. Cardinality(Running') = Cardinality(Running) + 1
    BY <1>4, CountsFinite, FS_AddElement
  <1>6. Counted'
    BY <1>4, <1>5 DEF Counted, Typed, StartItem, Used
  <1> QED
    BY <1>1, <1>2, <1>3, <1>6 DEF Typed, Spends

LEMMA EffectExitsTyped ==
    ASSUME Typed, NEW w \in Workers, EffectExits(w)
    PROVE  Typed'
  <1>0. w \in Fibers /\ w \notin Clients
    BY DurableAssumption DEF Fibers
  <1>1. Spends
    BY SpendSpends DEF Typed, EffectExits, Events
  <1>2. TableTyped' /\ LanesTyped' /\ WorksKnown'
    BY SameTyped DEF EffectExits, asked
  <1>3. EngineTyped'
    BY DEF EffectExits, Typed, EngineTyped
  <1>4. PICK pc \in {"complete", "fail"} : GoTo(w, pc)
    BY DEF EffectExits
  <1>5. FramesTyped' /\ fib'[w].pc = pc /\ \A g \in Fibers \ {w} : fib'[g] = fib[g]
    BY <1>0, <1>4, GoToTyped DEF EffectExits, At, Holding, Typed
  <1>6. Offering' = Offering /\ Running' = Running \ {w} /\ w \in Running
    BY <1>0, <1>5 DEF Running, Offering, At, EffectExits, Fibers
  <1>7. Cardinality(Running') = Cardinality(Running) - 1
    BY <1>6, CountsFinite, FS_RemoveElement
  <1>8. Used("add") \in Int /\ Used("add")' \in Int /\ Used("add") <= Used("add")'
    BY <1>1, DurableAssumption DEF Typed, BudgetOK, Spends, Used, Events
  <1>9. Cardinality(Offering) \in Nat
    BY CountsFinite, FS_CardinalityType
  <1>10. Counted'
    BY <1>6, <1>7, <1>8, <1>9 DEF Counted, Typed, EffectExits
  <1> QED
    BY <1>1, <1>2, <1>3, <1>5, <1>10 DEF Typed, Spends

(* A row is settled by who holds a copy of it.                                *)
LEMMA SettleTyped ==
    ASSUME Typed, NEW f \in Workers \cup {Feeder}, Complete(f) \/ PersistFail(f)
    PROVE  Typed'
  <1>0. f \in Fibers
    BY DEF Fibers
  <1>1. Spends
    BY SpendSpends DEF Typed, Complete, PersistFail, Events
  <1>2. LanesTyped' /\ EngineTyped' /\ UNCHANGED <<inFlight, entrySeq>>
    BY SameTyped DEF Complete, PersistFail
  <1>3. fib[f].copy \in CopyRecords
    BY <1>0 DEF Complete, PersistFail, At, Holding, Typed, FramesTyped, FrameTyped
  <1>4. fib[f].copy.work \in Works
    BY <1>3 DEF CopyRecords
  <1>5. TableTyped'
    BY SameTyped, DeleteTyped, FailTyped DEF Complete, PersistFail, Typed
  <1>6. WorksKnown'
    BY <1>4 DEF Typed, WorksKnown, Complete, PersistFail, asked
  <1>7. FramesTyped' /\ \E g \in Fibers : Quiet(g)
    BY <1>0, MoverTyped DEF Complete, PersistFail, At, Holding
  <1> QED
    BY <1>1, <1>2, <1>5, <1>6, <1>7, StepTyped

LEMMA WorkerTyped ==
    ASSUME Typed, NEW w \in Workers, WorkerStep(w)
    PROVE  Typed'
  <1>0. w \in Fibers
    BY DEF Fibers
  <1>1. CASE WorkerLoop(w) \/ TakeNextEmpty(w)
    <2>1. Spends /\ TableTyped' /\ LanesTyped' /\ EngineTyped' /\ WorksKnown'
          /\ UNCHANGED <<inFlight, entrySeq>>
      BY <1>1, SameTyped DEF WorkerLoop, TakeNextEmpty, asked
    <2>2. FramesTyped' /\ \E g \in Fibers : Quiet(g)
      BY <1>0, <1>1, MoverTyped DEF WorkerLoop, TakeNextEmpty, At, Holding
    <2> QED
      BY <2>1, <2>2, StepTyped
  <1>2. CASE TakeNext(w)
    <2>1. PICK l \in Levels :
            /\ lanes[l] # <<>>
            /\ fib' = [fib EXCEPT ![w].pc = "took", ![w].copy = Head(lanes[l])]
            /\ lanes' = [lanes EXCEPT ![l] = Tail(@)]
      BY <1>2 DEF TakeNext
    <2>2. Spends /\ TableTyped' /\ EngineTyped' /\ WorksKnown' /\ UNCHANGED <<inFlight, entrySeq>>
      BY <1>2, SameTyped DEF TakeNext, asked
    <2>3. LanesTyped' /\ Head(lanes[l]) \in CopyRecords
      BY <2>1, TailTyped DEF Typed
    <2>4. FramesTyped' /\ Quiet(w)
      <3> DEFINE frame == [fib[w] EXCEPT !.pc = "took", !.copy = Head(lanes[l])]
      <3>1. /\ DOMAIN frame = {"pc", "copy", "taken"} /\ frame.pc = "took"
            /\ frame.copy = Head(lanes[l]) /\ frame.taken = fib[w].taken
        BY <1>0 DEF Typed, FramesTyped, FrameTyped
      <3>2. fib' = [fib EXCEPT ![w] = frame]
        BY <2>1
      <3> HIDE DEF frame
      <3>3. FrameTyped(frame)
        BY <1>0, <2>3, <3>1 DEF FrameTyped, Typed, FramesTyped
      <3>4. FramesTyped' /\ fib'[w] = frame /\ \A g \in Fibers \ {w} : fib'[g] = fib[g]
        BY <1>0, <3>2, <3>3, GoesTyped DEF Goes, Typed
      <3>5. fib[w].pc = "take"
        BY <1>2 DEF TakeNext, At
      <3> QED
        BY <3>1, <3>4, <3>5 DEF Quiet
    <2> QED
      BY <1>0, <2>2, <2>3, <2>4, StepTyped
  <1>3. CASE SkipRateLimitedItem(w)
    <2>1. Spends
      BY <1>3, SpendSpends DEF Typed, SkipRateLimitedItem, Events
    <2>2. TableTyped' /\ LanesTyped' /\ EngineTyped' /\ UNCHANGED <<inFlight, entrySeq>>
      BY <1>3, SameTyped DEF SkipRateLimitedItem
    <2>3. fib[w].copy \in CopyRecords
      BY <1>0, <1>3 DEF SkipRateLimitedItem, At, Holding, Typed, FramesTyped, FrameTyped
    <2>4. WorksKnown'
      BY <1>3, <2>3 DEF Typed, WorksKnown, SkipRateLimitedItem, asked, CopyRecords
    <2>5. FramesTyped' /\ \E g \in Fibers : Quiet(g)
      BY <1>0, <1>3, MoverTyped DEF SkipRateLimitedItem, At, Holding
    <2> QED
      BY <2>1, <2>2, <2>4, <2>5, StepTyped
  <1>4. CASE FinalizeRead(w) \/ FinalizeSet(w)
    <2>1. Spends
      BY <1>4, SpendSpends DEF Typed, FinalizeRead, FinalizeSet, Events
    <2>2. FramesTyped' /\ \E g \in Fibers : Quiet(g)
      BY <1>0, <1>4, MoverTyped DEF FinalizeRead, FinalizeSet, AfterFinalize, At, Holding
    <2>3. TableTyped' /\ LanesTyped' /\ WorksKnown' /\ UNCHANGED <<inFlight, entrySeq>>
      BY <1>4, SameTyped DEF FinalizeRead, FinalizeSet, asked, engine
    <2>4. EngineTyped'
      BY <1>4 DEF FinalizeRead, FinalizeSet, Typed, EngineTyped, engine
    <2> QED
      BY <2>1, <2>2, <2>3, <2>4, StepTyped
  <1> QED
    BY <1>1, <1>2, <1>3, <1>4, StartItemTyped, EffectExitsTyped, SettleTyped DEF WorkerStep

(* The copy the feeder takes is one of the row.                               *)
LEMMA FeederTyped ==
    ASSUME Typed, FeederStep
    PROVE  Typed'
  <1>0. Feeder \in Fibers
    BY DEF Fibers
  <1>1. CASE FeederCheck \/ FeederFindsNone
    <2>1. Spends
      BY <1>1, SpendSpends DEF Typed, FeederCheck, FeederFindsNone, Events
    <2>2. TableTyped' /\ LanesTyped' /\ EngineTyped' /\ WorksKnown'
          /\ UNCHANGED <<inFlight, entrySeq>>
      BY <1>1, SameTyped DEF FeederCheck, FeederFindsNone, asked
    <2>3. FramesTyped' /\ \E g \in Fibers : Quiet(g)
      BY <1>0, <1>1, MoverTyped DEF FeederCheck, FeederFindsNone, At, Holding
    <2> QED
      BY <2>1, <2>2, <2>3, StepTyped
  <1>2. CASE FeederTake
    <2>1. PICK i \in RowIds, pc \in {"put", "poisoned"} :
            /\ IsTop(i) /\ Take(i)
            /\ fib' = [fib EXCEPT ![Feeder].pc = pc,
                         ![Feeder].copy = [id |-> i, work |-> rows[i].work,
                                           level |-> rows[i].rank]]
            /\ IF pc = "put" THEN UNCHANGED left ELSE Spend("poison")
      BY <1>2, Zenon DEF FeederTake
    <2>2. Spends
      BY <2>1, SpendSpends DEF Typed, Events
    <2>3. LanesTyped' /\ EngineTyped' /\ WorksKnown' /\ UNCHANGED <<inFlight, entrySeq>>
      BY <1>2, SameTyped DEF FeederTake, asked
    <2>4. TableTyped'
      BY <2>1, TakeTyped DEF Typed
    <2>5. FramesTyped' /\ Quiet(Feeder)
      <3> DEFINE copy == [id |-> i, work |-> rows[i].work, level |-> rows[i].rank]
                 frame == [fib[Feeder] EXCEPT !.pc = pc, !.copy = copy]
      <3>1. /\ DOMAIN frame = {"pc", "copy", "taken"} /\ frame.pc = pc
            /\ frame.copy = copy /\ frame.taken = fib[Feeder].taken
        BY <1>0 DEF Typed, FramesTyped, FrameTyped
      <3>2. copy \in CopyRecords
        BY <2>1, PendingTyped DEF Typed, IsTop, Available, CopyRecords
      <3>3. fib' = [fib EXCEPT ![Feeder] = frame]
        BY <2>1
      <3> HIDE DEF frame, copy
      <3>4. FrameTyped(frame)
        BY <1>0, <2>1, <3>1, <3>2 DEF FrameTyped, Typed, FramesTyped, Holding
      <3> QED
        BY <1>0, <1>2, <2>1, <3>1, <3>3, <3>4, GoesTyped DEF Goes, Quiet, FeederTake, At, Typed
    <2> QED
      BY <1>0, <2>2, <2>3, <2>4, <2>5, StepTyped
  <1>3. CASE FeederPut
    <2>1. Spends /\ TableTyped' /\ EngineTyped' /\ WorksKnown' /\ UNCHANGED <<inFlight, entrySeq>>
      BY <1>3, SameTyped DEF FeederPut, asked
    <2>2. fib[Feeder].copy \in CopyRecords
      BY <1>0, <1>3 DEF FeederPut, At, Holding, Typed, FramesTyped, FrameTyped
    <2>3. LanesTyped'
      BY <1>3, <2>2, PutTyped DEF FeederPut, Typed
    <2>4. FramesTyped' /\ \E g \in Fibers : Quiet(g)
      BY <1>0, <1>3, MoverTyped DEF FeederPut, At, Holding
    <2> QED
      BY <2>1, <2>3, <2>4, StepTyped
  <1> QED
    BY <1>1, <1>2, <1>3, SettleTyped DEF FeederStep

LEMMA StartTyped ==
    ASSUME Typed, Start
    PROVE  Typed'
  <1>1. Spends
    BY SpendSpends DEF Typed, Start, ClaimStart, RecoverAndFork, Events
  <1>2. LanesTyped' /\ FramesTyped' /\ UNCHANGED <<inFlight, entrySeq>> /\ UNCHANGED fib
    BY SameTyped DEF Start, ClaimStart, RecoverAndFork
  <1>3. TableTyped'
    BY SameTyped, RecoverTyped DEF Start, ClaimStart, RecoverAndFork, Typed
  <1>4. WorksOf(Pending \ Available) \subseteq Works
    BY PendingTyped DEF Typed, WorksOf
  <1>5. WorksKnown'
    BY <1>4 DEF Start, ClaimStart, RecoverAndFork, Typed, WorksKnown, asked
  <1>6. EngineTyped'
    BY DEF Start, ClaimStart, RecoverAndFork, Typed, EngineTyped
  <1> QED
    BY <1>1, <1>2, <1>3, <1>5, <1>6, StepTyped

LEMMA ExpiryTyped ==
    ASSUME Typed, NEW i \in RowIds, LeaseExpires(i)
    PROVE  Typed'
  <1>1. Spends
    BY SpendSpends DEF Typed, LeaseExpires, Events
  <1>2. Retouched(i, [rows[i] EXCEPT !.lease = "expired"])
    BY DEF Typed, TableTyped, RowTyped, LeaseExpires, Retouched, NoRow
  <1>3. TableTyped'
    BY <1>2, RetouchTyped DEF Typed
  <1>4. /\ LanesTyped' /\ FramesTyped' /\ UNCHANGED <<inFlight, entrySeq>> /\ UNCHANGED fib
        /\ EngineTyped' /\ WorksKnown'
    BY SameTyped DEF LeaseExpires, asked
  <1> QED
    BY <1>1, <1>3, <1>4, StepTyped

(* What a new engine starts with.                                            *)
LEMMA FreshTyped ==
    ASSUME NEW f \in Fibers
    PROVE  FrameTyped(AtStart[f]) /\ AtStart[f].pc \notin Holding \cup {"offer"}
           /\ AtStart[f].taken = {}
BY DEF AtStart, FirstPc, FrameTyped, Holding

LEMMA CrashTyped ==
    ASSUME Typed, Crash
    PROVE  Typed'
  <1>1. Spends
    BY SpendSpends DEF Typed, Crash, Events
  <1>2. TableTyped' /\ WorksKnown'
    BY SameTyped DEF Crash, asked
  <1>3. \A l \in Levels : <<>> \in Seq(QueuedIn(l))
    OBVIOUS
  <1>4. LanesTyped' /\ EngineTyped'
    BY <1>3 DEF Crash, LanesTyped, EngineTyped
  <1>5. FramesTyped'
    BY FreshTyped DEF Crash, FramesTyped, AtStart
  <1>6. \A f \in Fibers : fib'[f].pc \notin {"running", "offer"}
    BY FreshTyped DEF Crash, Holding
  <1>7. Running' = {} /\ Offering' = {}
    BY <1>6 DEF Running, Offering, At, Fibers
  <1>8. Used("add") \in Nat /\ Used("add")' \in Nat
    BY <1>1, DurableAssumption DEF Typed, BudgetOK, Spends, Used, Events
  <1>9. Counted'
    BY <1>7, <1>8, FS_EmptySet DEF Counted, Crash
  <1> QED
    BY <1>1, <1>2, <1>4, <1>5, <1>9 DEF Typed, Spends

LEMMA InitTyped ==
    ASSUME Init
    PROVE  Typed
  <1>1. BudgetOK /\ Used("add") = 0
    BY DurableAssumption DEF Init, BudgetOK, Used, Events
  <1>2. TableTyped /\ EngineTyped /\ WorksKnown
    BY DEF Init, TableTyped, RowTyped, NoRow, EngineTyped, WorksKnown
  <1>3. \A l \in Levels : <<>> \in Seq(QueuedIn(l))
    OBVIOUS
  <1>4. LanesTyped
    BY <1>3 DEF Init, LanesTyped
  <1>5. FramesTyped
    BY FreshTyped DEF Init, FramesTyped, AtStart
  <1>6. \A f \in Fibers : fib[f].pc \notin {"running", "offer"}
    BY FreshTyped DEF Init, Holding
  <1>7. Running = {} /\ Offering = {}
    BY <1>6 DEF Running, Offering, At, Fibers
  <1>8. Counted
    BY <1>1, <1>7, FS_EmptySet DEF Counted, Init
  <1> QED
    BY <1>1, <1>2, <1>4, <1>5, <1>8 DEF Typed

LEMMA NextTyped ==
    ASSUME Typed, [Next]_vars
    PROVE  Typed'
  <1>1. CASE UNCHANGED vars
    BY <1>1, SameTyped, StepTyped DEF vars, asked, engine
  <1>2. CASE Next
    BY <1>2, ClientTyped, WorkerTyped, FeederTyped, StartTyped, ExpiryTyped, CrashTyped
       DEF Next
  <1> QED
    BY <1>1, <1>2

THEOREM TypedAlways == Spec => []Typed
  <1> QED
    BY InitTyped, NextTyped, PTL DEF Spec

(* The types of the variables hold in every state, and the counters count what  *)
(* they name (durableQueue.ts; queueResource.ts, makeQueueEngine).              *)
THEOREM TypeCorrect == Spec => []TypeOK
  <1>1. Typed => TypeOK
    <2> SUFFICES ASSUME Typed
                 PROVE  TypeOK
      OBVIOUS
    <2>1. entrySeq \in 0 .. Cardinality(RowIds)
      <3> "add" \in Events
        BY DEF Events
      <3>1. Budget["add"] \in Nat /\ left["add"] \in Nat
        BY DurableAssumption DEF Typed, BudgetOK
      <3>2. Cardinality(RowIds) = Budget["add"]
        BY <3>1, FS_Interval DEF RowIds
      <3>3. Cardinality(Offering) \in Nat
        BY CountsFinite, FS_CardinalityType
      <3> QED
        BY <3>1, <3>2, <3>3 DEF Typed, Counted, Used
    <2>2. \A l \in Levels : lanes[l] \in Seq([id : RowIds, work : Works, level : {l}])
      BY DEF Typed, LanesTyped, QueuedIn
    <2>3. \A f \in Fibers :
            fib[f].pc \in Holding => fib[f].copy.id \in RowIds /\ fib[f].copy.work \in Works
      BY DEF Typed, FramesTyped, FrameTyped, CopyRecords
    <2>4. inFlight = Cardinality({w \in Workers : At(w, "running")})
      BY DEF Typed, Counted, Running
    <2>5. \A i \in RowIds :
            /\ rows[i].status \in {"none", "pending", "dead"}
            /\ rows[i].status # "none" => rows[i].work \in Works
            /\ rows[i].lease \in {"free", "held", "expired"}
            /\ rows[i].attempts \in Nat
            /\ \A j \in RowIds \ {i} : rows[i].seq = rows[j].seq => rows[i].seq = 0
      BY DEF Typed, TableTyped, RowTyped
    <2> QED
      BY <2>1, <2>2, <2>3, <2>4, <2>5
         DEF TypeOK, Typed, EngineTyped, WorksKnown, BudgetOK, Holding
  <1> QED
    BY <1>1, TypedAlways, PTL

----------------------------------------------------------------------------
(* A lease has a holder (NoOrphanLease).                                     *)

(* The copies in the lanes and in the hands of the feeder and the workers.     *)
Copies(s) == {s[n] : n \in DOMAIN s}
LaneCopies == UNION {Copies(lanes[l]) : l \in Levels}
HandOf(f) ==
    IF f \in Workers \cup {Feeder} /\ fib[f].pc \in Holding THEN {fib[f].copy} ELSE {}
Held == LaneCopies \cup UNION {HandOf(f) : f \in Fibers}

LeasedRow(i) == i \in Pending /\ rows[i].lease = "held"

(* While an engine is up, a row that is leased has a copy of its own id and     *)
(* its own work that somebody holds, or one that was given up.                 *)
Leased ==
    boot = "up" =>
        \A i \in RowIds : LeasedRow(i) =>
            \/ rows[i].work \in abandoned
            \/ \E copy \in Held : copy.id = i /\ copy.work = rows[i].work

----------------------------------------------------------------------------
(* Where the copies go.                                                      *)

LEMMA AppendCopies ==
    ASSUME NEW S, NEW s \in Seq(S), NEW x \in S
    PROVE  Copies(Append(s, x)) = Copies(s) \cup {x}
  <1>1. /\ Len(s) \in Nat /\ Len(Append(s, x)) = Len(s) + 1
        /\ Append(s, x)[Len(s) + 1] = x
        /\ \A n \in 1 .. Len(s) : Append(s, x)[n] = s[n]
    BY AppendProperties, LenProperties
  <1>2. DOMAIN s = 1 .. Len(s) /\ DOMAIN Append(s, x) = 1 .. Len(s) + 1
    BY <1>1, LenProperties, AppendProperties
  <1>3. 1 .. Len(s) + 1 = (1 .. Len(s)) \cup {Len(s) + 1}
    BY <1>1
  <1> QED
    BY <1>1, <1>2, <1>3 DEF Copies

LEMMA TailCopies ==
    ASSUME NEW S, NEW s \in Seq(S), s # <<>>
    PROVE  Copies(s) = Copies(Tail(s)) \cup {Head(s)}
  <1>1. /\ Len(s) \in Nat \ {0} /\ DOMAIN s = 1 .. Len(s) /\ Head(s) = s[1]
        /\ DOMAIN Tail(s) = 1 .. Len(s) - 1
        /\ \A n \in 1 .. Len(s) - 1 : Tail(s)[n] = s[n + 1]
    BY HeadTailProperties, LenProperties, EmptySeq
  <1>2. Copies(Tail(s)) \cup {Head(s)} \subseteq Copies(s)
    <2>1. 1 \in DOMAIN s /\ \A n \in DOMAIN Tail(s) : n + 1 \in DOMAIN s
      BY <1>1
    <2> QED
      BY <1>1, <2>1 DEF Copies
  <1>3. Copies(s) \subseteq Copies(Tail(s)) \cup {Head(s)}
    <2> SUFFICES ASSUME NEW n \in DOMAIN s, n # 1
                 PROVE  s[n] \in Copies(Tail(s))
      BY <1>1 DEF Copies
    <2>1. n - 1 \in DOMAIN Tail(s) /\ (n - 1) + 1 = n
      BY <1>1
    <2>2. Tail(s)[n - 1] = s[n]
      BY <1>1, <2>1
    <2> QED
      BY <2>1, <2>2 DEF Copies
  <1> QED
    BY <1>2, <1>3

LEMMA PutCopies ==
    ASSUME LanesTyped, NEW copy \in CopyRecords,
           lanes' = [lanes EXCEPT ![copy.level] = Append(@, copy)]
    PROVE  LaneCopies' = LaneCopies \cup {copy}
  <1>1. copy.level \in Levels /\ copy \in QueuedIn(copy.level)
    BY DEF CopyRecords, QueuedIn
  <1>2. Copies(lanes'[copy.level]) = Copies(lanes[copy.level]) \cup {copy}
    BY <1>1, AppendCopies DEF LanesTyped
  <1>3. \A l \in Levels : l # copy.level => lanes'[l] = lanes[l]
    BY DEF LanesTyped
  <1>4. LaneCopies \cup {copy} \subseteq LaneCopies'
    BY <1>1, <1>2, <1>3 DEF LaneCopies
  <1>5. LaneCopies' \subseteq LaneCopies \cup {copy}
    BY <1>1, <1>2, <1>3 DEF LaneCopies
  <1> QED
    BY <1>4, <1>5

LEMMA TakeCopies ==
    ASSUME LanesTyped, NEW l \in Levels, lanes[l] # <<>>,
           lanes' = [lanes EXCEPT ![l] = Tail(@)]
    PROVE  LaneCopies = LaneCopies' \cup {Head(lanes[l])}
  <1>1. Copies(lanes[l]) = Copies(lanes'[l]) \cup {Head(lanes[l])}
    BY TailCopies DEF LanesTyped
  <1>2. \A m \in Levels : m # l => lanes'[m] = lanes[m]
    BY DEF LanesTyped
  <1>3. LaneCopies \subseteq LaneCopies' \cup {Head(lanes[l])}
    BY <1>1, <1>2 DEF LaneCopies
  <1>4. LaneCopies' \cup {Head(lanes[l])} \subseteq LaneCopies
    BY <1>1, <1>2 DEF LaneCopies
  <1> QED
    BY <1>3, <1>4

LEMMA EmptyCopies ==
    ASSUME EmptyLanes
    PROVE  LaneCopies' = {} /\ \A copy \in LaneCopies : copy.work \in abandoned'
  <1>1. LaneCopies' = {}
    BY DEF LaneCopies, Copies, EmptyLanes
  <1>2. \A copy \in LaneCopies : copy.work \in WorksInLanes
    BY DEF LaneCopies, Copies, WorksInLanes
  <1> QED
    BY <1>1, <1>2 DEF EmptyLanes

(* A step that moves one fiber keeps what the others hold.                     *)
LEMMA OneHand ==
    ASSUME NEW f \in Fibers, \A g \in Fibers \ {f} : fib'[g] = fib[g]
    PROVE  /\ Held \subseteq LaneCopies \cup HandOf(f) \cup Held'
           /\ Held' \subseteq LaneCopies' \cup HandOf(f)' \cup Held
           /\ LaneCopies' \cup HandOf(f)' \subseteq Held'
           /\ LaneCopies \cup HandOf(f) \subseteq Held
  <1>1. \A g \in Fibers \ {f} : HandOf(g)' = HandOf(g)
    BY DEF HandOf
  <1> QED
    BY <1>1 DEF Held

(* GoTo between two places where the copy is held, or two where none is.       *)
LEMMA GoToHeld ==
    ASSUME FramesTyped, NEW f \in Fibers, NEW pc, GoTo(f, pc),
           pc \in Holding <=> fib[f].pc \in Holding, pc # "offer", UNCHANGED lanes
    PROVE  Held' = Held
  <1>1. /\ fib'[f].pc = pc /\ fib'[f].copy = fib[f].copy
        /\ \A g \in Fibers \ {f} : fib'[g] = fib[g]
    BY GoToTyped
  <1>2. \A g \in Fibers : HandOf(g)' = HandOf(g)
    BY <1>1 DEF HandOf
  <1>3. LaneCopies' = LaneCopies
    BY DEF LaneCopies
  <1> QED
    BY <1>2, <1>3 DEF Held

(* A client, whatever it does with its frame, holds no copy.                   *)
LEMMA ClientHeld ==
    ASSUME NEW c \in Clients, \A g \in Fibers \ {c} : fib'[g] = fib[g], UNCHANGED lanes
    PROVE  Held' = Held
  <1>1. c \notin Workers \cup {Feeder}
    BY DurableAssumption
  <1>2. \A g \in Fibers : HandOf(g)' = HandOf(g)
    BY <1>1 DEF HandOf
  <1>3. LaneCopies' = LaneCopies
    BY DEF LaneCopies
  <1> QED
    BY <1>2, <1>3 DEF Held

(* Who drops its copy drops that one only.                                   *)
LEMMA DropsHeld ==
    ASSUME FramesTyped, NEW f \in Workers \cup {Feeder}, NEW pc, DropsCopy(f, pc),
           pc \notin Holding \cup {"offer"}, UNCHANGED lanes
    PROVE  Held' \subseteq Held /\ Held \subseteq Held' \cup HandOf(f)
  <1>0. f \in Fibers
    BY DEF Fibers
  <1>1. fib'[f].pc = pc /\ \A g \in Fibers \ {f} : fib'[g] = fib[g]
    BY <1>0, DropsTyped
  <1>2. HandOf(f)' = {} /\ LaneCopies' = LaneCopies
    BY <1>1 DEF HandOf, LaneCopies
  <1> QED
    BY <1>0, <1>1, <1>2, OneHand

----------------------------------------------------------------------------
(* What a step does to the leases.                                           *)

(* No row is leased anew, and who was keeps its work.                         *)
NoNewLease ==
    \A i \in RowIds : LeasedRow(i)' => LeasedRow(i) /\ rows'[i].work = rows[i].work

LEMMA TableLeases ==
    ASSUME TableTyped
    PROVE  /\ UNCHANGED rows => NoNewLease
           /\ \A ids : Delete(ids) => NoNewLease /\ \A i \in RowIds \cap ids : ~LeasedRow(i)'
           /\ \A i : FailRow(i) => NoNewLease /\ ~LeasedRow(i)'
           /\ \A id, w, level : Offer(id, w, level) => NoNewLease
  <1>1. UNCHANGED rows => NoNewLease
    BY DEF NoNewLease, LeasedRow, Pending
  <1>2. ASSUME NEW ids, Delete(ids)
        PROVE  NoNewLease /\ \A i \in RowIds \cap ids : ~LeasedRow(i)'
    <2>1. \A i \in RowIds : rows'[i] = IF i \in ids THEN NoRow ELSE rows[i]
      BY <1>2 DEF Delete
    <2> QED
      BY <2>1 DEF NoNewLease, LeasedRow, Pending, NoRow
  <1>3. ASSUME NEW i, FailRow(i)
        PROVE  NoNewLease /\ ~LeasedRow(i)'
    <2>1. ASSUME NEW j \in RowIds, j # i
          PROVE  rows'[j] = rows[j]
      BY <1>3, <2>1 DEF FailRow, TableTyped
    <2>2. i \in RowIds => rows'[i].lease = "free"
      BY <1>3 DEF FailRow, TableTyped, RowTyped, NoRow
    <2> QED
      BY <2>1, <2>2 DEF NoNewLease, LeasedRow, Pending
  <1>4. ASSUME NEW id, NEW w, NEW level, Offer(id, w, level)
        PROVE  NoNewLease
    <2>1. CASE UNCHANGED rows
      BY <1>1, <2>1
    <2>2. CASE rows' = [i \in RowIds |->
                          IF i \in LiveWith(KeyOf[w]) /\ rows[i].rank > level
                          THEN [rows[i] EXCEPT !.rank = level] ELSE rows[i]]
      <3>1. \A i \in RowIds : rows'[i].status = rows[i].status
              /\ rows'[i].lease = rows[i].lease /\ rows'[i].work = rows[i].work
        BY <2>2 DEF TableTyped, RowTyped, NoRow
      <3> QED
        BY <3>1 DEF NoNewLease, LeasedRow, Pending
    <2>3. CASE rows' = [rows EXCEPT ![id] =
                          [NoRow EXCEPT !.status = "pending", !.work = w, !.key = KeyOf[w],
                                        !.rank = level, !.seq = NextSeq]]
      <3>1. \A i \in RowIds : i # id => rows'[i] = rows[i]
        BY <2>3 DEF TableTyped
      <3>2. id \in RowIds => rows'[id].lease = "free"
        BY <2>3 DEF TableTyped, NoRow
      <3> QED
        BY <3>1, <3>2 DEF NoNewLease, LeasedRow, Pending
    <2> QED
      BY <1>4, <2>1, <2>2, <2>3 DEF Offer
  <1> QED
    BY <1>1, <1>2, <1>3, <1>4

(* A copy that goes away goes with its lease, or is known as given up.         *)
LEMMA LeaseKeeps ==
    ASSUME Leased, NoNewLease, UNCHANGED boot, abandoned \subseteq abandoned',
           \A copy \in Held : \/ copy \in Held' \/ copy.work \in abandoned'
                              \/ ~LeasedRow(copy.id)'
    PROVE  Leased'
  <1> SUFFICES ASSUME boot = "up", NEW i \in RowIds, LeasedRow(i)'
               PROVE  \/ rows'[i].work \in abandoned'
                      \/ \E copy \in Held' : copy.id = i /\ copy.work = rows'[i].work
    BY DEF Leased
  <1>1. LeasedRow(i) /\ rows'[i].work = rows[i].work
    BY DEF NoNewLease
  <1> QED
    BY <1>1 DEF Leased

(* A call moves its caller only.                                             *)
LEMMA ClientAlone ==
    ASSUME Typed, NEW c \in Clients, ClientCall(c) \/ ClientStep(c)
    PROVE  \A g \in Fibers \ {c} : fib'[g] = fib[g]
  <1>1. DOMAIN fib = Fibers
    BY DEF Typed, FramesTyped
  <1> QED
    BY <1>1
       DEF ClientCall, ClientStep, CallAdd, CallShutdown, CallClear, CallExtract,
           OfferRow, WindDown, PurgeLanes, RestorePending, FinalizeRead, FinalizeSet,
           GoTo, DropsCopy

LEMMA ClientLeased ==
    ASSUME Typed, Leased, NEW c \in Clients, ClientCall(c) \/ ClientStep(c)
    PROVE  Leased'
  <1>0. c \in Fibers /\ FramesTyped /\ TableTyped
    BY DEF Fibers, Typed
  <1>1. UNCHANGED boot
    BY DEF ClientCall, ClientStep, CallAdd, CallShutdown, CallClear, CallExtract, OfferRow,
           WindDown, PurgeLanes, RestorePending, FinalizeRead, FinalizeSet, engine
  <1>2. NoNewLease
    <2>1. \/ UNCHANGED rows \/ (\E ids : Delete(ids))
          \/ \E id, w, level : Offer(id, w, level)
      BY DEF ClientCall, ClientStep, CallAdd, CallShutdown, CallClear, CallExtract, OfferRow,
             WindDown, PurgeLanes, RestorePending, FinalizeRead, FinalizeSet, asked
    <2> QED
      BY <1>0, <2>1, TableLeases
  <1>3. \A g \in Fibers \ {c} : fib'[g] = fib[g]
    BY ClientAlone
  <1>4. CASE EmptyLanes
    <2>1. \A copy \in LaneCopies : copy.work \in abandoned'
      BY <1>4, EmptyCopies
    <2>2. HandOf(c) = {}
      BY DurableAssumption DEF HandOf
    <2>3. \A copy \in Held : copy \in Held' \/ copy.work \in abandoned'
      BY <1>0, <1>3, <2>1, <2>2, OneHand
    <2>4. abandoned \subseteq abandoned'
      BY <1>4 DEF EmptyLanes
    <2> QED
      BY <1>1, <1>2, <2>3, <2>4, LeaseKeeps
  <1>5. CASE UNCHANGED <<lanes, abandoned>>
    <2>1. Held' = Held
      BY <1>3, <1>5, ClientHeld
    <2> QED
      BY <1>1, <1>2, <1>5, <2>1, LeaseKeeps
  <1>6. EmptyLanes \/ UNCHANGED <<lanes, abandoned>>
    BY DEF ClientCall, ClientStep, CallAdd, CallShutdown, CallClear, CallExtract, OfferRow,
           WindDown, PurgeLanes, RestorePending, FinalizeRead, FinalizeSet
  <1> QED
    BY <1>4, <1>5, <1>6

(* complete and fail end the lease of the copy, or the copy is known.          *)
LEMMA SettleLeased ==
    ASSUME Typed, Leased, NEW f \in Workers \cup {Feeder}, Complete(f) \/ PersistFail(f)
    PROVE  Leased'
  <1>0. f \in Fibers /\ FramesTyped /\ TableTyped /\ fib[f].pc \in Holding
    BY DEF Fibers, Typed, Complete, PersistFail, At, Holding
  <1>1. PICK copy \in CopyRecords : copy = fib[f].copy
    BY <1>0 DEF FramesTyped, FrameTyped
  <1>2. Held \subseteq Held' \cup {copy}
    <2>1. HandOf(f) = {copy}
      BY <1>0, <1>1 DEF HandOf
    <2> QED
      BY <1>0, <2>1, DropsHeld DEF Complete, PersistFail, Holding
  <1>3. NoNewLease /\ (~LeasedRow(copy.id)' \/ copy.work \in abandoned')
    <2>1. \/ UNCHANGED rows /\ abandoned' = abandoned \cup {copy.work}
          \/ Delete({copy.id}) \/ FailRow(copy.id)
      BY <1>1 DEF Complete, PersistFail
    <2>2. copy.id \in RowIds
      BY DEF CopyRecords
    <2>3. copy.work \in abandoned \cup {copy.work}
      OBVIOUS
    <2>4. CASE Delete({copy.id})
      BY <1>0, <2>2, <2>4, TableLeases
    <2>5. CASE FailRow(copy.id)
      BY <1>0, <2>2, <2>5, TableLeases
    <2> QED
      BY <1>0, <2>1, <2>3, <2>4, <2>5, TableLeases
  <1>4. UNCHANGED boot /\ abandoned \subseteq abandoned'
    BY DEF Complete, PersistFail, engine
  <1> QED
    BY <1>1, <1>2, <1>3, <1>4, LeaseKeeps

LEMMA WorkerLeased ==
    ASSUME Typed, Leased, NEW w \in Workers, WorkerStep(w)
    PROVE  Leased'
  <1>0. w \in Fibers /\ FramesTyped /\ TableTyped /\ LanesTyped
    BY DEF Fibers, Typed
  <1>1. CASE WorkerLoop(w) \/ TakeNextEmpty(w) \/ FinalizeRead(w) \/ FinalizeSet(w)
    <2>1. PICK pc \in {"gone", "take", "finish", "loop"} : GoTo(w, pc)
      BY <1>1 DEF WorkerLoop, TakeNextEmpty, FinalizeRead, FinalizeSet, AfterFinalize
    <2>2. fib[w].pc \notin Holding /\ pc \notin Holding /\ pc # "offer"
      BY <1>1, <2>1 DEF WorkerLoop, TakeNextEmpty, FinalizeRead, FinalizeSet, At, Holding
    <2>3. UNCHANGED <<rows, lanes, boot, abandoned>>
      BY <1>1 DEF WorkerLoop, TakeNextEmpty, FinalizeRead, FinalizeSet, engine
    <2>4. Held' = Held
      BY <1>0, <2>1, <2>2, <2>3, GoToHeld
    <2> QED
      BY <1>0, <2>3, <2>4, TableLeases, LeaseKeeps
  <1>2. CASE StartItem(w) \/ EffectExits(w)
    <2>1. PICK pc \in {"running", "complete", "fail"} : GoTo(w, pc)
      BY <1>2 DEF StartItem, EffectExits
    <2>2. fib[w].pc \in Holding /\ pc \in Holding /\ pc # "offer"
      BY <1>2, <2>1 DEF StartItem, EffectExits, At, Holding
    <2>3. UNCHANGED <<rows, lanes, boot, abandoned>>
      BY <1>2 DEF StartItem, EffectExits
    <2>4. Held' = Held
      BY <1>0, <2>1, <2>2, <2>3, GoToHeld
    <2> QED
      BY <1>0, <2>3, <2>4, TableLeases, LeaseKeeps
  <1>3. CASE TakeNext(w)
    <2>1. PICK l \in Levels :
            /\ lanes[l] # <<>>
            /\ fib' = [fib EXCEPT ![w].pc = "took", ![w].copy = Head(lanes[l])]
            /\ lanes' = [lanes EXCEPT ![l] = Tail(@)]
      BY <1>3 DEF TakeNext
    <2>2. /\ fib'[w].pc = "took" /\ fib'[w].copy = Head(lanes[l])
          /\ \A g \in Fibers \ {w} : fib'[g] = fib[g]
      BY <1>0, <2>1 DEF FramesTyped, FrameTyped
    <2>3. HandOf(w)' = {Head(lanes[l])} /\ HandOf(w) = {}
      BY <1>3, <2>2 DEF HandOf, TakeNext, At, Holding
    <2>4. LaneCopies = LaneCopies' \cup {Head(lanes[l])}
      BY <1>0, <2>1, TakeCopies
    <2>5. Held \subseteq Held'
      BY <1>0, <2>2, <2>3, <2>4, OneHand
    <2>6. UNCHANGED <<rows, boot, abandoned>>
      BY <1>3 DEF TakeNext, engine
    <2> QED
      BY <1>0, <2>5, <2>6, TableLeases, LeaseKeeps
  <1>4. CASE SkipRateLimitedItem(w)
    <2>1. fib[w].pc \in Holding
      BY <1>4 DEF SkipRateLimitedItem, At, Holding
    <2>2. HandOf(w) = {fib[w].copy}
      BY <2>1 DEF HandOf
    <2>3. Held \subseteq Held' \cup HandOf(w)
      BY <1>0, <1>4, DropsHeld DEF SkipRateLimitedItem, Holding
    <2>4. UNCHANGED <<rows, boot>> /\ abandoned' = abandoned \cup {fib[w].copy.work}
      BY <1>4 DEF SkipRateLimitedItem, engine
    <2> QED
      BY <1>0, <2>2, <2>3, <2>4, TableLeases, LeaseKeeps
  <1> QED
    BY <1>1, <1>2, <1>3, <1>4, SettleLeased DEF WorkerStep

(* The lease the feeder takes is for the copy it holds.                        *)
LEMMA FeederLeased ==
    ASSUME Typed, Leased, FeederStep
    PROVE  Leased'
  <1>0. Feeder \in Fibers /\ FramesTyped /\ TableTyped /\ LanesTyped
    BY DEF Fibers, Typed
  <1>1. CASE FeederCheck \/ FeederFindsNone
    <2>1. PICK pc \in {"gone", "lease", "feed"} : GoTo(Feeder, pc)
      BY <1>1 DEF FeederCheck, FeederFindsNone
    <2>2. fib[Feeder].pc \notin Holding /\ pc \notin Holding /\ pc # "offer"
      BY <1>1, <2>1 DEF FeederCheck, FeederFindsNone, At, Holding
    <2>3. UNCHANGED <<rows, lanes, boot, abandoned>>
      BY <1>1 DEF FeederCheck, FeederFindsNone, engine
    <2>4. Held' = Held
      BY <1>0, <2>1, <2>2, <2>3, GoToHeld
    <2> QED
      BY <1>0, <2>3, <2>4, TableLeases, LeaseKeeps
  <1>2. CASE FeederTake
    <2>1. PICK i \in RowIds, pc \in {"put", "poisoned"} :
            /\ IsTop(i) /\ Take(i)
            /\ fib' = [fib EXCEPT ![Feeder].pc = pc,
                         ![Feeder].copy = [id |-> i, work |-> rows[i].work,
                                           level |-> rows[i].rank]]
            /\ IF pc = "put" THEN UNCHANGED left ELSE Spend("poison")
      BY <1>2, Zenon DEF FeederTake
    <2> DEFINE copy == [id |-> i, work |-> rows[i].work, level |-> rows[i].rank]
    <2>2. /\ fib'[Feeder].pc = pc /\ fib'[Feeder].copy = copy
          /\ \A g \in Fibers \ {Feeder} : fib'[g] = fib[g]
      BY <1>0, <2>1 DEF FramesTyped, FrameTyped
    <2>3. HandOf(Feeder)' = {copy} /\ HandOf(Feeder) = {}
      BY <1>2, <2>1, <2>2 DEF HandOf, FeederTake, At, Holding
    <2>4. UNCHANGED <<lanes, boot, abandoned>> /\ LaneCopies' = LaneCopies
      BY <1>2 DEF FeederTake, engine, LaneCopies
    <2>5. Held \subseteq Held' /\ copy \in Held'
      BY <1>0, <2>2, <2>3, <2>4, OneHand
    <2>6. rows' = [rows EXCEPT ![i].lease = "held", ![i].attempts = @ + 1]
      BY <2>1 DEF Take
    <2>7. rows'[i].work = rows[i].work /\ \A j \in RowIds : j # i => rows'[j] = rows[j]
      BY <1>0, <2>6 DEF TableTyped, RowTyped, NoRow
    <2>8. \A j \in RowIds : LeasedRow(j)' /\ j # i => LeasedRow(j)
      BY <2>7 DEF LeasedRow, Pending
    <2>9. copy.id = i /\ copy.work = rows[i].work
      OBVIOUS
    <2> HIDE DEF copy
    <2> QED
      BY <2>4, <2>5, <2>7, <2>8, <2>9 DEF Leased
  <1>3. CASE FeederPut
    <2>1. fib[Feeder].pc \in Holding /\ fib[Feeder].copy \in CopyRecords
      BY <1>0, <1>3 DEF FeederPut, At, Holding, FramesTyped, FrameTyped
    <2>2. LaneCopies' = LaneCopies \cup {fib[Feeder].copy}
      BY <1>0, <1>3, <2>1, PutCopies DEF FeederPut
    <2>3. fib'[Feeder].pc = "feed" /\ \A g \in Fibers \ {Feeder} : fib'[g] = fib[g]
      BY <1>0, <1>3, DropsTyped DEF FeederPut, Holding
    <2>4. HandOf(Feeder) = {fib[Feeder].copy}
      BY <2>1 DEF HandOf
    <2>5. Held \subseteq Held'
      BY <1>0, <2>2, <2>3, <2>4, OneHand
    <2>6. UNCHANGED <<rows, boot, abandoned>>
      BY <1>3 DEF FeederPut, engine
    <2> QED
      BY <1>0, <2>5, <2>6, TableLeases, LeaseKeeps
  <1> QED
    BY <1>1, <1>2, <1>3, SettleLeased DEF FeederStep

(* An engine comes up when nothing is leased, or all that is is known.         *)
LEMMA NextLeased ==
    ASSUME Typed, Leased, [Next]_vars
    PROVE  Leased'
  <1>0. TableTyped
    BY DEF Typed
  <1>1. CASE UNCHANGED vars
    <2>1. Held' = Held
      BY <1>1 DEF vars, Held, HandOf, LaneCopies
    <2>2. UNCHANGED <<rows, boot, abandoned>>
      BY <1>1 DEF vars, engine
    <2> QED
      BY <1>0, <2>1, <2>2, TableLeases, LeaseKeeps
  <1>2. CASE ClaimStart \/ Crash
    BY <1>2 DEF ClaimStart, Crash, Leased
  <1>3. CASE RecoverAndFork
    <2>1. CASE Recover
      <3>1. \A i \in RowIds : ~LeasedRow(i)'
        <4> SUFFICES ASSUME NEW i \in RowIds
                     PROVE  ~LeasedRow(i)'
          OBVIOUS
        <4>1. rows'[i] = IF i \in Pending THEN [rows[i] EXCEPT !.lease = "free"] ELSE rows[i]
          BY <2>1 DEF Recover
        <4>2. CASE i \in Pending
          BY <1>0, <4>1, <4>2 DEF TableTyped, RowTyped, NoRow, LeasedRow
        <4>3. CASE i \notin Pending
          BY <4>1, <4>3 DEF LeasedRow, Pending
        <4> QED
          BY <4>2, <4>3
      <3> QED
        BY <3>1 DEF Leased
    <2>2. CASE UNCHANGED rows /\ abandoned' = abandoned \cup WorksOf(Pending \ Available)
      BY <2>2 DEF Leased, LeasedRow, Pending, Available, WorksOf
    <2> QED
      BY <1>3, <2>1, <2>2 DEF RecoverAndFork
  <1>4. CASE \E i \in RowIds : LeaseExpires(i)
    <2>1. PICK i \in RowIds : LeaseExpires(i)
      BY <1>4
    <2>2. \A j \in RowIds : rows'[j].status = rows[j].status /\ rows'[j].work = rows[j].work
            /\ (rows'[j].lease = "held" => rows[j].lease = "held")
      BY <1>0, <2>1 DEF LeaseExpires, TableTyped, RowTyped, NoRow
    <2>3. NoNewLease
      BY <2>2 DEF NoNewLease, LeasedRow, Pending
    <2>4. Held' = Held /\ UNCHANGED <<boot, abandoned>>
      BY <2>1 DEF LeaseExpires, Held, HandOf, LaneCopies, engine
    <2> QED
      BY <2>3, <2>4, LeaseKeeps
  <1> QED
    BY <1>1, <1>2, <1>3, <1>4, ClientLeased, WorkerLeased, FeederLeased DEF Next, Start

(* No row waits for a lease to run out that nobody will settle: once the engine *)
(* is up, a leased row is in a lane or in somebody's hands, or its copy went    *)
(* away in one of the ways `abandoned' records (queueResource.ts, feederLoop,   *)
(* processItem; durableQueue.ts, recover).                                     *)
THEOREM LeasesAreHeld == Spec => []NoOrphanLease
  <1>1. Init => Leased
    BY DEF Init, Leased
  <1>2. Typed /\ Leased => NoOrphanLease
    <2> SUFFICES ASSUME Typed, Leased, boot = "up", NEW i \in Pending, rows[i].lease = "held"
                 PROVE  rows[i].work \in HeldCopies \cup abandoned
      BY DEF NoOrphanLease
    <2>1. \A copy \in LaneCopies : copy.work \in HeldCopies
      BY DEF LaneCopies, Copies, HeldCopies, WorksInLanes
    <2>2. \A f \in Fibers : \A copy \in HandOf(f) : copy.work \in HeldCopies
      BY DEF HandOf, HeldCopies
    <2>3. i \in RowIds /\ LeasedRow(i)
      BY DEF Pending, LeasedRow
    <2> QED
      BY <2>1, <2>2, <2>3 DEF Leased, Held
  <1> QED
    BY <1>1, <1>2, InitTyped, NextTyped, NextLeased, PTL DEF Spec

----------------------------------------------------------------------------
(* At least once (NothingVanishes), as long as an id names one entry.          *)

(* Who is called what: the rows, the copies, and what a caller took out of the  *)
(* table and may put back.                                                     *)
RowNames == {<<i, rows[i].work>> : i \in LiveRows}
TakenNames(f) == {<<t.id, t.row.work>> : t \in fib[f].taken}
Names == RowNames \cup {<<copy.id, copy.work>> : copy \in Held}
           \cup UNION {TakenNames(f) : f \in Fibers}

OneEntryPerId == \A m, n \in Names : m[1] = n[1] => m[2] = n[2]

(* The ids so far were made by this engine, or by one that died, and then no id *)
(* is made any more.                                                         *)
Early == Used("crash") = 0
IdsSpent ==
    /\ Early => \A m \in Names : m[1] <= entrySeq
    /\ ~Early => Offering = {}

Named == OneEntryPerId /\ IdsSpent

(* Entries are added before the first crash only: an engine that starts over    *)
(* counts its ids from one again, and would use those of the table.             *)
AddsNoMore == ~Early => UNCHANGED left["add"]
AddsBeforeCrash == [][AddsNoMore]_vars

----------------------------------------------------------------------------
(* What a step does to the table.                                            *)

LEMMA OfferNames ==
    ASSUME TableTyped, NEW id \in RowIds, NEW w, NEW level, Offer(id, w, level)
    PROVE  /\ RowNames' \subseteq RowNames \cup {<<id, w>>}
           /\ NothingVanishes => NothingVanishes'
  <1>1. CASE UNCHANGED <<rows, stored, ended>>
    BY <1>1 DEF RowNames, LiveRows, NothingVanishes, InStore
  <1>2. CASE /\ rows' = [i \in RowIds |->
                          IF i \in LiveWith(KeyOf[w]) /\ rows[i].rank > level
                          THEN [rows[i] EXCEPT !.rank = level] ELSE rows[i]]
             /\ ended' = ended \cup {w}
             /\ UNCHANGED stored
    <2>1. \A i \in RowIds : rows'[i].status = rows[i].status /\ rows'[i].work = rows[i].work
      BY <1>2 DEF TableTyped, RowTyped, NoRow
    <2>2. LiveRows' = LiveRows /\ RowNames' = RowNames
      BY <2>1 DEF LiveRows, RowNames
    <2>3. InStore' = InStore
      BY <2>1 DEF InStore, LiveRows
    <2> QED
      BY <1>2, <2>2, <2>3 DEF NothingVanishes
  <1>3. CASE /\ rows[id].status = "none"
             /\ rows' = [rows EXCEPT ![id] =
                          [NoRow EXCEPT !.status = "pending", !.work = w, !.key = KeyOf[w],
                                        !.rank = level, !.seq = NextSeq]]
             /\ stored' = stored \cup {w}
             /\ ended' = ended \ {w}
    <2>1. /\ rows'[id].status = "pending" /\ rows'[id].work = w
          /\ \A i \in RowIds : i # id => rows'[i] = rows[i]
      BY <1>3 DEF TableTyped, NoRow
    <2>2. RowNames' \subseteq RowNames \cup {<<id, w>>}
      BY <2>1 DEF RowNames, LiveRows
    <2>3. InStore \cup {w} \subseteq InStore'
      BY <1>3, <2>1 DEF InStore, LiveRows
    <2> QED
      BY <1>3, <2>2, <2>3 DEF NothingVanishes
  <1> QED
    BY <1>1, <1>2, <1>3 DEF Offer

(* What is deleted and known as ended does not vanish.                        *)
LEMMA DeleteNames ==
    ASSUME TableTyped, NEW ids, Delete(ids)
    PROVE  /\ RowNames' \subseteq RowNames
           /\ NothingVanishes /\ UNCHANGED stored /\ ended \subseteq ended'
              /\ (\A i \in LiveRows \cap ids : rows[i].work \in ended') => NothingVanishes'
  <1>1. \A i \in RowIds : rows'[i] = IF i \in ids THEN NoRow ELSE rows[i]
    BY DEF Delete
  <1>2. \A i \in LiveRows' : i \in LiveRows /\ rows'[i] = rows[i]
    BY <1>1 DEF LiveRows, NoRow
  <1>3. RowNames' \subseteq RowNames
    BY <1>2 DEF RowNames
  <1>4. \A i \in LiveRows : i \notin ids => i \in LiveRows' /\ rows'[i] = rows[i]
    BY <1>1 DEF LiveRows
  <1>5. InStore = {rows[i].work : i \in LiveRows} /\ InStore' = {rows'[i].work : i \in LiveRows'}
    BY DEF InStore, LiveRows
  <1> QED
    BY <1>3, <1>4, <1>5 DEF NothingVanishes

(* Leases, attempts and the dead keep their entry.                           *)
SameEntries ==
    \A i \in RowIds : /\ rows'[i].status = "none" <=> rows[i].status = "none"
                      /\ rows'[i].work = rows[i].work

LEMMA SameNames ==
    ASSUME SameEntries
    PROVE  /\ RowNames' = RowNames
           /\ NothingVanishes /\ UNCHANGED stored /\ ended \subseteq ended' => NothingVanishes'
  <1>1. LiveRows' = LiveRows /\ \A i \in LiveRows : rows'[i].work = rows[i].work
    BY DEF SameEntries, LiveRows
  <1>2. RowNames' = RowNames
    BY <1>1 DEF RowNames
  <1>3. InStore = {rows[i].work : i \in LiveRows} /\ InStore' = {rows'[i].work : i \in LiveRows'}
    BY DEF InStore, LiveRows
  <1> QED
    BY <1>1, <1>2, <1>3 DEF NothingVanishes

LEMMA TableEntries ==
    ASSUME TableTyped
    PROVE  /\ UNCHANGED rows => SameEntries
           /\ Recover => SameEntries
           /\ \A i : FailRow(i) => SameEntries
           /\ \A i \in RowIds : Take(i) => SameEntries
           /\ \A i \in RowIds : LeaseExpires(i) => SameEntries
  <1>1. UNCHANGED rows => SameEntries
    BY DEF SameEntries
  <1>2. Recover => SameEntries
    BY DEF SameEntries, Recover, TableTyped, RowTyped, NoRow
  <1>3. ASSUME NEW i, FailRow(i)
        PROVE  SameEntries
    <2> SUFFICES ASSUME NEW j \in RowIds
                 PROVE  /\ rows'[j].status = "none" <=> rows[j].status = "none"
                        /\ rows'[j].work = rows[j].work
      BY DEF SameEntries
    <2>1. CASE j # i
      BY <1>3, <2>1 DEF FailRow, TableTyped
    <2>2. CASE j = i
      BY <1>3, <2>2 DEF FailRow, TableTyped, RowTyped, NoRow
    <2> QED
      BY <2>1, <2>2
  <1>4. ASSUME NEW i \in RowIds, Take(i)
        PROVE  SameEntries
    BY <1>4 DEF SameEntries, Take, TableTyped, RowTyped, NoRow
  <1>5. ASSUME NEW i \in RowIds, LeaseExpires(i)
        PROVE  SameEntries
    BY <1>5 DEF SameEntries, LeaseExpires, TableTyped, RowTyped, NoRow
  <1> QED
    BY <1>1, <1>2, <1>3, <1>4, <1>5

----------------------------------------------------------------------------
(* No step gives an id a second entry.                                       *)

(* Names come from names.                                                    *)
LEMMA NamesShrink ==
    ASSUME RowNames' \subseteq Names,
           \A copy \in Held' : copy \in Held \/ <<copy.id, copy.work>> \in Names,
           \A f \in Fibers : TakenNames(f)' \subseteq Names
    PROVE  Names' \subseteq Names
  <1>1. \A copy \in Held : <<copy.id, copy.work>> \in Names
    BY DEF Names
  <1>2. \A m \in Names' : \/ m \in RowNames' \/ \E copy \in Held' : m = <<copy.id, copy.work>>
                          \/ \E f \in Fibers : m \in TakenNames(f)'
    BY DEF Names
  <1> QED
    BY <1>1, <1>2

LEMMA NamedKeeps ==
    ASSUME Named, Names' \subseteq Names, UNCHANGED entrySeq, Early' = Early,
           Offering' \subseteq Offering
    PROVE  Named'
BY DEF Named, OneEntryPerId, IdsSpent

(* A step that moves one fiber, which takes nothing out of the table.           *)
LEMMA SameTaken ==
    ASSUME NEW f \in Fibers, \A g \in Fibers \ {f} : fib'[g] = fib[g],
           fib'[f].taken \subseteq fib[f].taken
    PROVE  \A g \in Fibers : TakenNames(g)' \subseteq Names
  <1>1. \A g \in Fibers : TakenNames(g)' \subseteq TakenNames(g)
    BY DEF TakenNames
  <1> QED
    BY <1>1 DEF Names

LEMMA SameEarly ==
    ASSUME BudgetOK, UNCHANGED left["crash"]
    PROVE  Early' = Early
BY DEF Early, Used

(* An event other than a crash leaves the crashes alone.                      *)
LEMMA OtherEvent ==
    ASSUME BudgetOK, UNCHANGED left \/ \E e \in Events \ {"crash"} : Spend(e)
    PROVE  Early' = Early
  <1>1. UNCHANGED left["crash"]
    BY DEF BudgetOK, Spend, Events
  <1> QED
    BY <1>1, SameEarly

(* An id is made for one entry: it is larger than any so far.                  *)
LEMMA OfferRowNamed ==
    ASSUME Typed, Named, NEW c \in Clients, OfferRow(c)
    PROVE  Named'
  <1>0. c \in Fibers /\ At(c, "offer") /\ TableTyped /\ FramesTyped
    BY DEF Fibers, OfferRow, Typed
  <1>1. PICK id \in RowIds, w \in Works, level \in Levels :
           id = entrySeq + 1 /\ w = fib[c].copy.work /\ level = fib[c].copy.level
    BY <1>0, OfferedId
  <1>2. c \in Offering /\ Early
    BY <1>0 DEF Offering, Named, IdsSpent
  <1>3. Early'
    BY <1>2, OtherEvent DEF OfferRow, Events, Typed
  <1>4. \A g \in Fibers \ {c} : fib'[g] = fib[g]
    BY ClientAlone DEF ClientStep
  <1>5. fib'[c].taken = fib[c].taken
    BY <1>0, DropsTyped DEF OfferRow, Holding
  <1>6. Held' = Held
    BY <1>4, ClientHeld DEF OfferRow
  <1>7. \A f \in Fibers : TakenNames(f)' \subseteq Names
    BY <1>0, <1>4, <1>5, SameTaken
  <1>8. RowNames' \subseteq RowNames \cup {<<id, w>>}
    <2>1. CASE Offer(id, w, level)
      BY <1>0, <2>1, OfferNames
    <2>2. CASE UNCHANGED rows
      BY <1>0, <2>2, TableEntries, SameNames
    <2> QED
      BY <1>1, <2>1, <2>2 DEF OfferRow, asked
  <1>9. Names' \subseteq Names \cup {<<id, w>>}
    <2>1. RowNames \subseteq Names /\ \A copy \in Held : <<copy.id, copy.work>> \in Names
      BY DEF Names
    <2>2. \A m \in Names' : \/ m \in RowNames' \/ \E copy \in Held' : m = <<copy.id, copy.work>>
                            \/ \E f \in Fibers : m \in TakenNames(f)'
      BY DEF Names
    <2> QED
      BY <1>6, <1>7, <1>8, <2>1, <2>2
  <1>10. \A m \in Names : m[1] <= entrySeq
    BY <1>2 DEF Named, IdsSpent
  <1>11. entrySeq' = id /\ entrySeq \in Nat
    BY <1>1 DEF OfferRow, Typed, Counted
  <1>12. \A m \in Names : m[1] \in Nat /\ m[1] # id /\ m[1] <= id
    <2>1. \A m \in Names : m[1] \in Nat
      <3>1. \A i \in LiveRows : i \in Nat
        BY DEF LiveRows, RowIds
      <3>2. \A copy \in Held : copy.id \in Nat
        <4>1. \A copy \in LaneCopies : copy.id \in Nat
          <5> SUFFICES ASSUME NEW l \in Levels, NEW n \in DOMAIN lanes[l]
                       PROVE  lanes[l][n].id \in Nat
            BY DEF LaneCopies, Copies
          <5>1. lanes[l][n] \in QueuedIn(l)
            BY ElementOfSeq DEF LanesTyped, Typed
          <5> QED
            BY <5>1 DEF QueuedIn, RowIds
        <4>2. \A f \in Fibers : \A copy \in HandOf(f) : copy.id \in Nat
          BY <1>0 DEF HandOf, FramesTyped, FrameTyped, CopyRecords, RowIds
        <4> QED
          BY <4>1, <4>2 DEF Held
      <3>3. \A f \in Fibers : \A t \in fib[f].taken : t.id \in Nat
        BY <1>0 DEF FramesTyped, FrameTyped, RowIds
      <3> QED
        BY <3>1, <3>2, <3>3 DEF Names, RowNames, TakenNames
    <2> QED
      BY <1>1, <1>10, <1>11, <2>1
  <1>13. OneEntryPerId'
    BY <1>9, <1>12 DEF OneEntryPerId, Named
  <1>14. \A m \in Names' : m[1] <= entrySeq'
    <2>1. \A m \in Names' : m \in Names \/ m[1] = id
      BY <1>9
    <2>2. id \in Nat
      BY DEF RowIds
    <2> QED
      BY <1>11, <1>12, <2>1, <2>2
  <1> QED
    BY <1>3, <1>13, <1>14 DEF Named, IdsSpent

(* A call hands out no copy, and lets those of the lanes go.                  *)
LEMMA ClientCopies ==
    ASSUME Typed, NEW c \in Clients, ClientCall(c) \/ ClientStep(c)
    PROVE  Held' \subseteq Held
  <1>0. c \in Fibers /\ \A g \in Fibers \ {c} : fib'[g] = fib[g]
    BY ClientAlone DEF Fibers
  <1>1. CASE UNCHANGED lanes
    BY <1>0, <1>1, ClientHeld
  <1>2. CASE EmptyLanes
    <2>1. LaneCopies' = {}
      BY <1>2, EmptyCopies
    <2>2. HandOf(c)' = {}
      BY DurableAssumption DEF HandOf
    <2> QED
      BY <1>0, <2>1, <2>2, OneHand
  <1> QED
    BY <1>1, <1>2
       DEF ClientCall, ClientStep, CallAdd, CallShutdown, CallClear, CallExtract, OfferRow,
           WindDown, PurgeLanes, RestorePending, FinalizeRead, FinalizeSet

LEMMA ClientNamed ==
    ASSUME Typed, Named, AddsNoMore, NEW c \in Clients, ClientCall(c) \/ ClientStep(c)
    PROVE  Named'
  <1>0. c \in Fibers /\ TableTyped /\ FramesTyped /\ BudgetOK
    BY DEF Fibers, Typed
  <1>1. \A g \in Fibers \ {c} : fib'[g] = fib[g]
    BY ClientAlone
  <1>2. Held' \subseteq Held
    BY ClientCopies
  <1>3. CASE CallAdd(c)
    <2>1. left["add"] \in Nat /\ left["add"] > 0 /\ left'["add"] = left["add"] - 1
      BY <1>0, <1>3 DEF CallAdd, Spend, BudgetOK, Events
    <2>2. Early
      BY <2>1 DEF AddsNoMore
    <2>3. Early'
      BY <1>0, <1>3, <2>2, OtherEvent DEF CallAdd, Events
    <2>4. fib'[c].taken = fib[c].taken
      BY <1>0, <1>3 DEF CallAdd, FramesTyped, FrameTyped
    <2>5. \A f \in Fibers : TakenNames(f)' \subseteq Names
      BY <1>0, <1>1, <2>4, SameTaken
    <2>6. RowNames' \subseteq Names
      BY <1>0, <1>3, TableEntries, SameNames DEF CallAdd, Names
    <2>7. Names' \subseteq Names
      BY <1>2, <2>5, <2>6, NamesShrink
    <2> QED
      BY <1>3, <2>2, <2>3, <2>7 DEF Named, OneEntryPerId, IdsSpent, CallAdd, engine
  <1>4. CASE CallShutdown(c) \/ WindDown(c) \/ PurgeLanes(c) \/ CallClear(c)
               \/ FinalizeRead(c) \/ FinalizeSet(c)
    <2>1. PICK pc \in {"windDown", "idle", "final", "purge", "finish", "loop"} : GoTo(c, pc)
      BY <1>4 DEF CallShutdown, WindDown, PurgeLanes, CallClear, FinalizeRead, FinalizeSet,
                  AfterFinalize
    <2>2. fib'[c].pc = pc /\ fib'[c].taken = fib[c].taken
      BY <1>0, <2>1, GoToTyped DEF Holding
    <2>3. \A f \in Fibers : TakenNames(f)' \subseteq Names
      BY <1>0, <1>1, <2>2, SameTaken
    <2>4. UNCHANGED rows \/ Delete(Pending)
      BY <1>4 DEF CallShutdown, WindDown, PurgeLanes, CallClear, FinalizeRead, FinalizeSet
    <2>5. RowNames' \subseteq Names
      BY <1>0, <2>4, TableEntries, SameNames, DeleteNames DEF Names
    <2>6. Names' \subseteq Names
      BY <1>2, <2>3, <2>5, NamesShrink
    <2>7. Early' = Early
      <3>1. CASE CallClear(c)
        <4>1. UNCHANGED left["crash"]
          BY <1>0, <3>1 DEF CallClear, BudgetOK, Events
        <4> QED
          BY <1>0, <4>1, SameEarly
      <3>2. CASE ~CallClear(c)
        BY <1>0, <1>4, <3>2, OtherEvent
           DEF CallShutdown, WindDown, PurgeLanes, FinalizeRead, FinalizeSet, Events
      <3> QED
        BY <3>1, <3>2
    <2>8. Offering' \subseteq Offering
      BY <1>1, <2>1, <2>2 DEF Offering, At, Fibers
    <2>9. UNCHANGED entrySeq
      BY <1>4 DEF CallShutdown, WindDown, PurgeLanes, CallClear, FinalizeRead, FinalizeSet,
                  engine
    <2> QED
      BY <2>6, <2>7, <2>8, <2>9, NamedKeeps
  <1>5. CASE CallExtract(c)
    <2>1. PICK drained \in Matching :
            /\ Delete(drained)
            /\ \/ UNCHANGED fib
                  /\ left' = [left EXCEPT !["extract"] = @ - 1]
               \/ /\ left["encodeError"] > 0
                  /\ left' = [left EXCEPT !["extract"] = @ - 1, !["encodeError"] = @ - 1]
                  /\ fib' = [fib EXCEPT ![c].pc = "restore",
                               ![c].taken = {[id |-> i, row |-> rows[i]] : i \in drained}]
      BY <1>5, Zenon DEF CallExtract
    <2>2. drained \subseteq LiveRows
      BY <2>1 DEF Matching, Available, Pending, LiveRows
    <2>3. \/ UNCHANGED fib
          \/ /\ fib'[c].pc = "restore"
             /\ fib'[c].taken = {[id |-> i, row |-> rows[i]] : i \in drained}
      BY <1>0, <2>1 DEF FramesTyped, FrameTyped
    <2>4. \A f \in Fibers : TakenNames(f)' \subseteq Names
      <3>1. TakenNames(c)' \subseteq Names
        <4>1. CASE UNCHANGED fib
          BY <1>0, <4>1 DEF TakenNames, Names
        <4>2. CASE fib'[c].taken = {[id |-> i, row |-> rows[i]] : i \in drained}
          <5> SUFFICES ASSUME NEW t \in fib'[c].taken
                       PROVE  <<t.id, t.row.work>> \in Names
            BY DEF TakenNames
          <5>1. PICK i \in drained : t = [id |-> i, row |-> rows[i]]
            BY <4>2
          <5> QED
            BY <2>2, <5>1 DEF Names, RowNames
        <4> QED
          BY <2>3, <4>1, <4>2
      <3>2. \A f \in Fibers \ {c} : TakenNames(f)' \subseteq Names
        BY <1>1 DEF TakenNames, Names
      <3> QED
        BY <3>1, <3>2
    <2>5. RowNames' \subseteq Names
      BY <1>0, <2>1, DeleteNames DEF Names
    <2>6. Names' \subseteq Names
      BY <1>2, <2>4, <2>5, NamesShrink
    <2>7. Early' = Early
      <3>1. UNCHANGED left["crash"]
        BY <1>0, <2>1 DEF BudgetOK, Events
      <3> QED
        BY <1>0, <3>1, SameEarly
    <2>8. Offering' \subseteq Offering
      BY <1>1, <2>3 DEF Offering, At, Fibers
    <2>9. UNCHANGED entrySeq
      BY <1>5 DEF CallExtract, engine
    <2> QED
      BY <2>6, <2>7, <2>8, <2>9, NamedKeeps
  <1>6. CASE RestorePending(c)
    <2>1. PICK t \in fib[c].taken :
            /\ \/ Offer(t.id, t.row.work, t.row.rank) /\ UNCHANGED left
               \/ Spend("fault") /\ UNCHANGED <<rows, stored, ended>>
            /\ fib' = [fib EXCEPT ![c].taken = @ \ {t},
                         ![c].pc = IF fib[c].taken = {t} THEN "idle" ELSE @]
      BY <1>6, Zenon DEF RestorePending
    <2>2. fib'[c].taken \subseteq fib[c].taken /\ fib'[c].pc \in {"idle", "restore"}
      BY <1>0, <1>6, <2>1 DEF FramesTyped, FrameTyped, RestorePending, At
    <2>3. \A f \in Fibers : TakenNames(f)' \subseteq Names
      BY <1>0, <1>1, <2>2, SameTaken
    <2>4. <<t.id, t.row.work>> \in Names /\ t.id \in RowIds
      BY <1>0 DEF Names, TakenNames, FramesTyped, FrameTyped
    <2>5. RowNames' \subseteq Names
      BY <1>0, <2>1, <2>4, TableEntries, SameNames, OfferNames DEF Names
    <2>6. Names' \subseteq Names
      BY <1>2, <2>3, <2>5, NamesShrink
    <2>7. Early' = Early
      BY <1>0, <2>1, OtherEvent DEF Events
    <2>8. Offering' \subseteq Offering
      BY <1>1, <2>2 DEF Offering, At, Fibers
    <2>9. UNCHANGED entrySeq
      BY <1>6 DEF RestorePending, engine
    <2> QED
      BY <2>6, <2>7, <2>8, <2>9, NamedKeeps
  <1> QED
    BY <1>3, <1>4, <1>5, <1>6, OfferRowNamed DEF ClientCall, ClientStep

(* The feeder and the workers hand copies on.                                  *)
LEMMA HandsNamed ==
    ASSUME Typed, Named, NEW f \in Workers \cup {Feeder},
           \A g \in Fibers \ {f} : fib'[g] = fib[g], fib'[f].taken = fib[f].taken,
           RowNames' \subseteq Names,
           \A copy \in Held' : copy \in Held \/ <<copy.id, copy.work>> \in Names,
           UNCHANGED entrySeq, UNCHANGED left \/ \E e \in Events \ {"crash"} : Spend(e)
    PROVE  Named'
  <1>1. f \in Fibers /\ f \notin Clients
    BY DurableAssumption DEF Fibers
  <1>2. \A g \in Fibers : TakenNames(g)' \subseteq Names
    BY <1>1, SameTaken
  <1>3. Names' \subseteq Names
    BY <1>2, NamesShrink
  <1>4. Early' = Early
    BY OtherEvent DEF Typed
  <1>5. Offering' \subseteq Offering
    BY <1>1 DEF Offering, At, Fibers
  <1> QED
    BY <1>3, <1>4, <1>5, NamedKeeps

(* A worker takes a copy of the lanes, keeps it, and lets it go.               *)
LEMMA WorkerCopies ==
    ASSUME Typed, NEW w \in Workers, WorkerStep(w)
    PROVE  /\ Held' \subseteq Held
           /\ fib'[w].taken = fib[w].taken /\ \A g \in Fibers \ {w} : fib'[g] = fib[g]
  <1>0. w \in Fibers /\ w # Feeder /\ FramesTyped /\ LanesTyped
    BY DurableAssumption DEF Fibers, Typed
  <1>1. CASE WorkerLoop(w) \/ TakeNextEmpty(w) \/ FinalizeRead(w) \/ FinalizeSet(w)
    <2>1. PICK pc \in {"gone", "take", "finish", "loop"} : GoTo(w, pc)
      BY <1>1 DEF WorkerLoop, TakeNextEmpty, FinalizeRead, FinalizeSet, AfterFinalize
    <2>2. fib[w].pc \notin Holding /\ pc \notin Holding /\ pc # "offer" /\ UNCHANGED lanes
      BY <1>1, <2>1 DEF WorkerLoop, TakeNextEmpty, FinalizeRead, FinalizeSet, At, Holding
    <2> QED
      BY <1>0, <2>1, <2>2, GoToHeld, GoToTyped
  <1>2. CASE StartItem(w) \/ EffectExits(w)
    <2>1. PICK pc \in {"running", "complete", "fail"} : GoTo(w, pc)
      BY <1>2 DEF StartItem, EffectExits
    <2>2. fib[w].pc \in Holding /\ pc \in Holding /\ pc # "offer" /\ UNCHANGED lanes
      BY <1>2, <2>1 DEF StartItem, EffectExits, At, Holding
    <2> QED
      BY <1>0, <2>1, <2>2, GoToHeld, GoToTyped
  <1>3. CASE TakeNext(w)
    <2>1. PICK l \in Levels :
            /\ lanes[l] # <<>>
            /\ fib' = [fib EXCEPT ![w].pc = "took", ![w].copy = Head(lanes[l])]
            /\ lanes' = [lanes EXCEPT ![l] = Tail(@)]
      BY <1>3 DEF TakeNext
    <2>2. /\ fib'[w].pc = "took" /\ fib'[w].copy = Head(lanes[l])
          /\ fib'[w].taken = fib[w].taken
          /\ \A g \in Fibers \ {w} : fib'[g] = fib[g]
      BY <1>0, <2>1 DEF FramesTyped, FrameTyped
    <2>3. HandOf(w)' = {Head(lanes[l])}
      BY <2>2 DEF HandOf, Holding
    <2>4. LaneCopies = LaneCopies' \cup {Head(lanes[l])}
      BY <1>0, <2>1, TakeCopies
    <2> QED
      BY <1>0, <2>2, <2>3, <2>4, OneHand
  <1>4. CASE SkipRateLimitedItem(w) \/ Complete(w) \/ PersistFail(w)
    <2>1. DropsCopy(w, "final") /\ UNCHANGED lanes
      BY <1>0, <1>4 DEF SkipRateLimitedItem, Complete, PersistFail
    <2> QED
      BY <1>0, <2>1, DropsHeld, DropsTyped DEF Holding
  <1> QED
    BY <1>1, <1>2, <1>3, <1>4 DEF WorkerStep

LEMMA WorkerNamed ==
    ASSUME Typed, Named, NEW w \in Workers, WorkerStep(w)
    PROVE  Named'
  <1>1. /\ Held' \subseteq Held
        /\ fib'[w].taken = fib[w].taken /\ \A g \in Fibers \ {w} : fib'[g] = fib[g]
    BY WorkerCopies
  <1>2. UNCHANGED rows \/ (\E ids : Delete(ids)) \/ (\E i : FailRow(i))
    BY DEF WorkerStep, WorkerLoop, TakeNext, TakeNextEmpty, SkipRateLimitedItem, StartItem,
           EffectExits, Complete, PersistFail, FinalizeRead, FinalizeSet
  <1>3. RowNames' \subseteq Names
    BY <1>2, TableEntries, SameNames, DeleteNames DEF Names, Typed
  <1>4. UNCHANGED entrySeq
    BY DEF WorkerStep, WorkerLoop, TakeNext, TakeNextEmpty, SkipRateLimitedItem, StartItem,
           EffectExits, Complete, PersistFail, FinalizeRead, FinalizeSet, engine
  <1>5. UNCHANGED left \/ \E e \in Events \ {"crash"} : Spend(e)
    BY DEF WorkerStep, WorkerLoop, TakeNext, TakeNextEmpty, SkipRateLimitedItem, StartItem,
           EffectExits, Complete, PersistFail, FinalizeRead, FinalizeSet, Events
  <1> QED
    BY <1>1, <1>3, <1>4, <1>5, HandsNamed

(* The feeder takes no copy but that of the row it leases, and hands it on.     *)
LEMMA FeederCopies ==
    ASSUME Typed, FeederStep
    PROVE  /\ FeederTake \/ Held' \subseteq Held
           /\ fib'[Feeder].taken = fib[Feeder].taken
           /\ \A g \in Fibers \ {Feeder} : fib'[g] = fib[g]
  <1>0. Feeder \in Fibers /\ FramesTyped /\ LanesTyped
    BY DEF Fibers, Typed
  <1>1. CASE FeederCheck \/ FeederFindsNone
    <2>1. PICK pc \in {"gone", "lease", "feed"} : GoTo(Feeder, pc)
      BY <1>1 DEF FeederCheck, FeederFindsNone
    <2>2. fib[Feeder].pc \notin Holding /\ pc \notin Holding /\ pc # "offer" /\ UNCHANGED lanes
      BY <1>1, <2>1 DEF FeederCheck, FeederFindsNone, At, Holding
    <2> QED
      BY <1>0, <2>1, <2>2, GoToHeld, GoToTyped
  <1>2. CASE FeederTake
    <2>1. PICK i \in RowIds, pc \in {"put", "poisoned"} :
            fib' = [fib EXCEPT ![Feeder].pc = pc,
                      ![Feeder].copy = [id |-> i, work |-> rows[i].work, level |-> rows[i].rank]]
      BY <1>2, Zenon DEF FeederTake
    <2> QED
      BY <1>0, <1>2, <2>1 DEF FramesTyped, FrameTyped
  <1>3. CASE FeederPut
    <2>1. fib[Feeder].pc \in Holding /\ fib[Feeder].copy \in CopyRecords
      BY <1>0, <1>3 DEF FeederPut, At, Holding, FramesTyped, FrameTyped
    <2>2. LaneCopies' = LaneCopies \cup {fib[Feeder].copy}
      BY <1>0, <1>3, <2>1, PutCopies DEF FeederPut
    <2>3. /\ fib'[Feeder].pc = "feed" /\ fib'[Feeder].taken = fib[Feeder].taken
          /\ \A g \in Fibers \ {Feeder} : fib'[g] = fib[g]
      BY <1>0, <1>3, DropsTyped DEF FeederPut, Holding
    <2>4. HandOf(Feeder) = {fib[Feeder].copy} /\ HandOf(Feeder)' = {}
      BY <2>1, <2>3 DEF HandOf, Holding
    <2> QED
      BY <1>0, <2>2, <2>3, <2>4, OneHand
  <1>4. CASE Complete(Feeder)
    <2>1. DropsCopy(Feeder, "feed") /\ UNCHANGED lanes
      BY <1>4 DEF Complete
    <2> QED
      BY <1>0, <2>1, DropsHeld, DropsTyped DEF Holding
  <1> QED
    BY <1>1, <1>2, <1>3, <1>4 DEF FeederStep

(* The copy it makes is called as the row.                                   *)
LEMMA FeederTakes ==
    ASSUME Typed, FeederTake
    PROVE  \E i \in RowIds :
             /\ IsTop(i) /\ Take(i)
             /\ Held' = Held \cup
                  {[id |-> i, work |-> rows[i].work, level |-> rows[i].rank]}
  <1>0. Feeder \in Fibers /\ FramesTyped
    BY DEF Fibers, Typed
  <1>1. PICK i \in RowIds, pc \in {"put", "poisoned"} :
          /\ IsTop(i) /\ Take(i)
          /\ fib' = [fib EXCEPT ![Feeder].pc = pc,
                       ![Feeder].copy = [id |-> i, work |-> rows[i].work,
                                         level |-> rows[i].rank]]
    BY Zenon DEF FeederTake
  <1> DEFINE copy == [id |-> i, work |-> rows[i].work, level |-> rows[i].rank]
  <1>2. /\ fib'[Feeder].pc = pc /\ fib'[Feeder].copy = copy
        /\ \A g \in Fibers \ {Feeder} : fib'[g] = fib[g]
    BY <1>0, <1>1 DEF FramesTyped, FrameTyped
  <1>3. HandOf(Feeder) = {} /\ HandOf(Feeder)' = {copy}
    BY <1>1, <1>2 DEF HandOf, FeederTake, At, Holding
  <1>4. LaneCopies' = LaneCopies
    BY DEF FeederTake, LaneCopies
  <1> HIDE DEF copy
  <1>5. Held' = Held \cup {copy}
    BY <1>0, <1>2, <1>3, <1>4, OneHand
  <1> USE DEF copy
  <1> QED
    BY <1>1, <1>5

LEMMA FeederNamed ==
    ASSUME Typed, Named, FeederStep
    PROVE  Named'
  <1>1. /\ FeederTake \/ Held' \subseteq Held
        /\ fib'[Feeder].taken = fib[Feeder].taken
        /\ \A g \in Fibers \ {Feeder} : fib'[g] = fib[g]
    BY FeederCopies
  <1>2. CASE FeederTake
    <2>1. PICK i \in RowIds :
            /\ IsTop(i) /\ Take(i)
            /\ Held' = Held \cup
                 {[id |-> i, work |-> rows[i].work, level |-> rows[i].rank]}
      BY <1>2, FeederTakes
    <2>2. <<i, rows[i].work>> \in Names
      BY <2>1 DEF IsTop, Available, Pending, Names, RowNames, LiveRows
    <2>3. \A held \in Held' : held \in Held \/ <<held.id, held.work>> \in Names
      BY <2>1, <2>2
    <2>4. RowNames' \subseteq Names
      BY <2>1, TableEntries, SameNames DEF Names, Typed
    <2>5. UNCHANGED entrySeq /\ (UNCHANGED left \/ \E e \in Events \ {"crash"} : Spend(e))
      BY <1>2 DEF FeederTake, engine, Events
    <2> QED
      BY <1>1, <2>3, <2>4, <2>5, HandsNamed
  <1>3. CASE FeederCheck \/ FeederFindsNone \/ FeederPut \/ Complete(Feeder)
    <2>1. UNCHANGED rows \/ \E ids : Delete(ids)
      BY <1>3 DEF FeederCheck, FeederFindsNone, FeederPut, Complete
    <2>2. RowNames' \subseteq Names
      BY <2>1, TableEntries, SameNames, DeleteNames DEF Names, Typed
    <2>3. UNCHANGED entrySeq /\ (UNCHANGED left \/ \E e \in Events \ {"crash"} : Spend(e))
      BY <1>3 DEF FeederCheck, FeederFindsNone, FeederPut, Complete, engine, Events
    <2> QED
      BY <1>1, <1>2, <2>2, <2>3, HandsNamed
  <1> QED
    BY <1>2, <1>3 DEF FeederStep

LEMMA NextNamed ==
    ASSUME Typed, Named, AddsNoMore, [Next]_vars
    PROVE  Named'
  <1>0. TableTyped /\ FramesTyped /\ BudgetOK
    BY DEF Typed
  <1>1. CASE UNCHANGED vars
    BY <1>1
       DEF vars, engine, Named, OneEntryPerId, IdsSpent, Names, RowNames, LiveRows, TakenNames,
           Held, HandOf, LaneCopies, Early, Used, Offering, At
  <1>2. CASE Start \/ \E i \in RowIds : LeaseExpires(i)
    <2>1. UNCHANGED <<lanes, fib, entrySeq>>
      BY <1>2 DEF Start, ClaimStart, RecoverAndFork, LeaseExpires, engine
    <2>2. SameEntries
      BY <1>0, <1>2, TableEntries DEF Start, ClaimStart, RecoverAndFork
    <2>3. RowNames' \subseteq Names
      BY <2>2, SameNames DEF Names
    <2>4. Held' = Held
      BY <2>1 DEF Held, HandOf, LaneCopies
    <2>5. \A f \in Fibers : TakenNames(f)' \subseteq Names
      BY <2>1 DEF TakenNames, Names
    <2>6. Names' \subseteq Names
      BY <2>3, <2>4, <2>5, NamesShrink
    <2>7. Early' = Early
      BY <1>0, <1>2, OtherEvent DEF Start, ClaimStart, RecoverAndFork, LeaseExpires, Events
    <2>8. Offering' \subseteq Offering
      BY <2>1 DEF Offering, At
    <2> QED
      BY <2>1, <2>6, <2>7, <2>8, NamedKeeps
  <1>3. CASE Crash
    <2>1. \A f \in Fibers : fib'[f].pc \notin Holding \cup {"offer"} /\ fib'[f].taken = {}
      BY <1>3, FreshTyped DEF Crash
    <2>2. Held' = {}
      BY <1>3, <2>1 DEF Crash, Held, HandOf, LaneCopies, Copies
    <2>3. \A f \in Fibers : TakenNames(f)' = {}
      BY <2>1 DEF TakenNames
    <2>4. RowNames' \subseteq Names
      BY <1>0, <1>3, TableEntries, SameNames DEF Names, Crash
    <2>5. Names' \subseteq Names
      BY <2>2, <2>3, <2>4, NamesShrink
    <2>6. Offering' = {}
      BY <2>1 DEF Offering, At, Fibers
    <2>7. ~Early'
      <3>1. /\ left["crash"] \in Nat /\ left["crash"] <= Budget["crash"]
            /\ Budget["crash"] \in Nat /\ left'["crash"] = left["crash"] - 1
        BY <1>0, <1>3, DurableAssumption DEF Crash, Spend, BudgetOK, Events
      <3> QED
        BY <3>1 DEF Early, Used
    <2> QED
      BY <2>5, <2>6, <2>7 DEF Named, OneEntryPerId, IdsSpent
  <1> QED
    BY <1>1, <1>2, <1>3, ClientNamed, WorkerNamed, FeederNamed DEF Next

----------------------------------------------------------------------------
(* No step loses an entry.                                                   *)

(* A row that is deleted for a copy is the row of its entry.                   *)
LEMMA SettleVanishes ==
    ASSUME Typed, Named, NothingVanishes, NEW f \in Workers \cup {Feeder},
           Complete(f) \/ PersistFail(f)
    PROVE  NothingVanishes'
  <1>0. f \in Fibers /\ TableTyped /\ FramesTyped /\ fib[f].pc \in Holding
    BY DEF Fibers, Typed, Complete, PersistFail, At, Holding
  <1>1. PICK copy \in CopyRecords : copy = fib[f].copy
    BY <1>0 DEF FramesTyped, FrameTyped
  <1>2. <<copy.id, copy.work>> \in Names
    BY <1>0, <1>1 DEF Names, Held, HandOf
  <1>3. CASE Delete({copy.id}) /\ ended' = ended \cup {copy.work}
    <2>1. ASSUME NEW i \in LiveRows \cap {copy.id}
          PROVE  rows[i].work = copy.work
      <3>1. <<i, rows[i].work>> \in Names /\ i = copy.id
        BY DEF Names, RowNames
      <3> QED
        BY <1>2, <3>1 DEF Named, OneEntryPerId
    <2>2. UNCHANGED stored
      BY DEF Complete, PersistFail, asked
    <2> QED
      BY <1>0, <1>3, <2>1, <2>2, DeleteNames
  <1>4. CASE (UNCHANGED rows \/ FailRow(copy.id)) /\ UNCHANGED ended
    <2>1. UNCHANGED stored
      BY DEF Complete, PersistFail, asked
    <2> QED
      BY <1>0, <1>4, <2>1, TableEntries, SameNames
  <1> QED
    BY <1>1, <1>3, <1>4 DEF Complete, PersistFail

LEMMA NextVanishes ==
    ASSUME Typed, Named, NothingVanishes, [Next]_vars
    PROVE  NothingVanishes'
  <1>0. TableTyped
    BY DEF Typed
  <1>1. CASE \E c \in Clients : OfferRow(c)
    <2>1. PICK c \in Clients : OfferRow(c)
      BY <1>1
    <2>2. PICK id \in RowIds, w \in Works, level \in Levels :
             id = entrySeq + 1 /\ w = fib[c].copy.work /\ level = fib[c].copy.level
      BY <2>1, OfferedId DEF OfferRow
    <2>3. Offer(id, w, level) \/ UNCHANGED <<rows, asked, ended>>
      BY <2>1, <2>2 DEF OfferRow
    <2> QED
      BY <1>0, <2>3, OfferNames, TableEntries, SameNames DEF asked
  <1>2. CASE \E c \in Clients : RestorePending(c)
    <2>1. PICK c \in Clients : RestorePending(c)
      BY <1>2
    <2>2. PICK t \in fib[c].taken :
            Offer(t.id, t.row.work, t.row.rank) \/ UNCHANGED <<rows, stored, ended>>
      BY <2>1, Zenon DEF RestorePending
    <2>3. t.id \in RowIds
      BY DEF Typed, FramesTyped, FrameTyped, Fibers
    <2> QED
      BY <1>0, <2>2, <2>3, OfferNames, TableEntries, SameNames
  <1>3. CASE \E c \in Clients : CallClear(c) \/ CallExtract(c)
    <2>1. PICK ids : /\ ids \subseteq Pending
                     /\ \/ Delete(ids) /\ ended' = ended \cup WorksOf(ids)
                        \/ UNCHANGED <<rows, ended>>
                     /\ UNCHANGED stored
      BY <1>3 DEF CallClear, CallExtract, Matching, Available, asked
    <2>2. \A i \in LiveRows \cap ids : rows[i].work \in WorksOf(ids)
      BY DEF WorksOf
    <2> QED
      BY <1>0, <2>1, <2>2, DeleteNames, TableEntries, SameNames
  <1>4. CASE \E f \in Workers \cup {Feeder} : Complete(f) \/ PersistFail(f)
    BY <1>4, SettleVanishes
  <1>5. CASE FeederTake
    <2>1. PICK i \in RowIds : Take(i)
      BY <1>5, Zenon DEF FeederTake
    <2> QED
      BY <1>0, <1>5, <2>1, TableEntries, SameNames DEF FeederTake, asked
  <1>6. CASE Start \/ \E i \in RowIds : LeaseExpires(i)
    BY <1>0, <1>6, TableEntries, SameNames
       DEF Start, ClaimStart, RecoverAndFork, LeaseExpires, asked
  <1>7. CASE UNCHANGED <<rows, stored, ended>>
    BY <1>0, <1>7, TableEntries, SameNames
  <1> QED
    BY <1>1, <1>2, <1>3, <1>4, <1>5, <1>6, <1>7
       DEF Next, ClientCall, ClientStep, WorkerStep, FeederStep, CallAdd, CallShutdown,
           WindDown, PurgeLanes, FinalizeRead, FinalizeSet, WorkerLoop, TakeNext,
           TakeNextEmpty, SkipRateLimitedItem, StartItem, EffectExits, FeederCheck,
           FeederFindsNone, FeederPut, Crash, vars, asked

(* Nothing has a name before the first add.                                 *)
LEMMA InitNamed ==
    ASSUME Init
    PROVE  Named /\ NothingVanishes
  <1>1. RowNames = {} /\ stored = {}
    BY DEF Init, RowNames, LiveRows, NoRow
  <1>2. \A f \in Fibers : fib[f].pc \notin Holding \cup {"offer"} /\ fib[f].taken = {}
    BY FreshTyped DEF Init
  <1>3. Held = {}
    BY <1>2 DEF Init, Held, HandOf, LaneCopies, Copies
  <1>4. Names = {} /\ Offering = {}
    BY <1>1, <1>2, <1>3 DEF Names, TakenNames, Offering, At, Fibers
  <1> QED
    BY <1>1, <1>4 DEF Named, OneEntryPerId, IdsSpent, NothingVanishes

(* At least once: an entry that got a row keeps one, or is known as ended, over  *)
(* crashes, errors of the store, leases that run out and workers that are late   *)
(* (durableQueue.ts; queueResource.ts, recovery). The ids are why the hypothesis *)
(* is needed: nextEntryId counts from one in every engine.                       *)
THEOREM StoredIsKept == Spec /\ AddsBeforeCrash => []NothingVanishes
  <1> DEFINE I == Typed /\ Named /\ NothingVanishes
  <1>1. Init => I
    BY InitTyped, InitNamed
  <1>2. I /\ [Next]_vars /\ [AddsNoMore]_vars => I'
    <2>1. UNCHANGED vars => AddsNoMore
      BY DEF vars, AddsNoMore
    <2> QED
      BY <2>1, NextTyped, NextNamed, NextVanishes
  <1> QED
    BY <1>1, <1>2, PTL DEF Spec, AddsBeforeCrash

----------------------------------------------------------------------------
(* What begins again had a reason (NoSpuriousRerun). The effect of an entry    *)
(* begins on a copy, and a copy is made of a row that can be taken. So what may *)
(* still begin is counted: the copies that have not begun, those whose failure  *)
(* the store is still to be told, and one if the entry can be taken or will be  *)
(* offered.                                                                  *)

(* Where the entry w comes from: its row, the add that is still to offer it, or *)
(* what a caller took out and is to put back. There is one such place at most.  *)
OfferOf(w) == {c \in Offering : fib[c].copy.work = w}
TakenOf(w) == {x \in UNION {{<<f, t>> : t \in fib[f].taken} : f \in Fibers} : x[2].row.work = w}
Source(w) ==
    {<<"row", i>> : i \in RowOf(w)} \cup {<<"offer", c>> : c \in OfferOf(w)}
        \cup {<<"taken", x>> : x \in TakenOf(w)}
OneSource ==
    \A w \in Works :
        /\ \A x, y \in Source(w) : x = y
        /\ Source(w) # {} => w <= Used("add")

(* A row that can be taken, now or once an engine has recovered.                *)
Ready(i) == i \in Pending /\ (rows[i].lease # "held" \/ boot # "up")
Open(w) ==
    \/ \E i \in RowOf(w) : Ready(i)
    \/ OfferOf(w) # {}
    \/ TakenOf(w) # {}

(* The copies in the lanes, and those in hands that may lead to a beginning.    *)
Queued(w) ==
    UNION {{<<l, n>> : n \in {m \in DOMAIN lanes[l] : lanes[l][m].work = w}} : l \in Levels}
Awaiting == {"put", "took", "fail"}
InHand(w) == {f \in Workers \cup {Feeder} : fib[f].pc \in Awaiting /\ fib[f].copy.work = w}

Openings(w) == IF Open(w) THEN 1 ELSE 0
Arrived(w) == IF w <= Used("add") THEN 1 ELSE 0
Chances(w) == Openings(w) + Cardinality(Queued(w)) + Cardinality(InHand(w))
Reasons(w) == Arrived(w) + failed[w] + Used("crash") + Used("expire")

Paid == \A w \in Works : begun[w] + Chances(w) <= Reasons(w)

(* What is counted can be.                                                   *)
Countable ==
    /\ BudgetOK /\ begun \in [Works -> Nat] /\ failed \in [Works -> Nat]
    /\ \A w \in Works : IsFiniteSet(Queued(w))

----------------------------------------------------------------------------
(* Sources.                                                                  *)

LEMMA SourceOf ==
    ASSUME NEW w, NEW x
    PROVE  x \in Source(w) <=>
             \/ \E i \in LiveRows : x = <<"row", i>> /\ rows[i].work = w
             \/ \E c \in Offering : x = <<"offer", c>> /\ fib[c].copy.work = w
             \/ \E f \in Fibers : \E t \in fib[f].taken : x = <<"taken", <<f, t>>>> /\ t.row.work = w
  <1>1. \A z : z \in TakenOf(w) <=> \E f \in Fibers : \E t \in fib[f].taken :
                                        z = <<f, t>> /\ t.row.work = w
    BY DEF TakenOf
  <1> QED
    BY <1>1 DEF Source, RowOf, OfferOf

LEMMA OpenOf ==
    ASSUME NEW w
    PROVE  Open(w) <=>
             \/ \E i \in LiveRows : rows[i].work = w /\ Ready(i)
             \/ \E c \in Offering : fib[c].copy.work = w
             \/ \E f \in Fibers : \E t \in fib[f].taken : t.row.work = w
  <1>1. \A z : z \in TakenOf(w) <=> \E f \in Fibers : \E t \in fib[f].taken :
                                        z = <<f, t>> /\ t.row.work = w
    BY DEF TakenOf
  <1>2. TakenOf(w) # {} <=> \E f \in Fibers : \E t \in fib[f].taken : t.row.work = w
    BY <1>1
  <1> QED
    BY <1>2 DEF Open, RowOf, OfferOf

(* No fiber has more to offer, or to put back, than before.                    *)
FramesCalm ==
    /\ \A f \in Fibers : fib'[f].taken \subseteq fib[f].taken
    /\ \A c \in Offering' : c \in Offering /\ fib'[c].copy = fib[c].copy

(* A row is offered: one more may be there, under the id and for the entry      *)
(* that were given. Nothing else makes a row, or gives one to another entry.    *)
RowsBut(id, v) ==
    \A i \in LiveRows' : \/ i \in LiveRows /\ rows'[i].work = rows[i].work
                         \/ i = id /\ rows'[i].work = v
RowsLast ==
    \A i \in LiveRows' : i \in LiveRows /\ rows'[i].work = rows[i].work

(* The rows that can be taken, or will be.                                   *)
ReadyBut(id, v) ==
    \A i \in LiveRows' : Ready(i)' => \/ i \in LiveRows /\ Ready(i) /\ rows'[i].work = rows[i].work
                                      \/ i = id /\ rows'[i].work = v
ReadyLast ==
    \A i \in LiveRows' : Ready(i)' => i \in LiveRows /\ Ready(i) /\ rows'[i].work = rows[i].work
AddsLast == Used("add") \in Int /\ Used("add")' \in Int /\ Used("add") <= Used("add")'

LEMMA SourceOfNext ==
    ASSUME NEW w
    PROVE  \A x \in Source(w)' :
             \/ \E i \in LiveRows' : x = <<"row", i>> /\ rows'[i].work = w
             \/ \E c \in Offering' : x = <<"offer", c>> /\ fib'[c].copy.work = w
             \/ \E f \in Fibers : \E t \in fib'[f].taken : x = <<"taken", <<f, t>>>> /\ t.row.work = w
  <1>1. TakenOf(w)' = {z \in UNION {{<<f, t>> : t \in fib'[f].taken} : f \in Fibers} : z[2].row.work = w}
    BY DEF TakenOf
  <1>2. \A z \in TakenOf(w)' : \E f \in Fibers : \E t \in fib'[f].taken : z = <<f, t>> /\ t.row.work = w
    BY <1>1
  <1> QED
    BY <1>2 DEF Source, RowOf, OfferOf

LEMMA SourcesBut ==
    ASSUME FramesCalm, NEW id, NEW v, RowsBut(id, v), NEW w, NEW x \in Source(w)'
    PROVE  x \in Source(w) \/ (x = <<"row", id>> /\ w = v)
  <1>1. CASE \E i \in LiveRows' : x = <<"row", i>> /\ rows'[i].work = w
    BY <1>1, SourceOf DEF RowsBut
  <1>2. CASE \E c \in Offering' : x = <<"offer", c>> /\ fib'[c].copy.work = w
    BY <1>2, SourceOf DEF FramesCalm
  <1>3. CASE \E f \in Fibers : \E t \in fib'[f].taken : x = <<"taken", <<f, t>>>> /\ t.row.work = w
    BY <1>3, SourceOf DEF FramesCalm
  <1> QED
    BY SourceOfNext, <1>1, <1>2, <1>3

LEMMA SourcesShrink ==
    ASSUME FramesCalm, RowsLast, NEW w
    PROVE  Source(w)' \subseteq Source(w)
  <1> SUFFICES ASSUME NEW x \in Source(w)'
               PROVE  x \in Source(w)
    OBVIOUS
  <1>1. CASE \E i \in LiveRows' : x = <<"row", i>> /\ rows'[i].work = w
    BY <1>1, SourceOf DEF RowsLast
  <1>2. CASE \E c \in Offering' : x = <<"offer", c>> /\ fib'[c].copy.work = w
    BY <1>2, SourceOf DEF FramesCalm
  <1>3. CASE \E f \in Fibers : \E t \in fib'[f].taken : x = <<"taken", <<f, t>>>> /\ t.row.work = w
    BY <1>3, SourceOf DEF FramesCalm
  <1> QED
    BY SourceOfNext, <1>1, <1>2, <1>3

LEMMA OneSourceShrinks ==
    ASSUME OneSource, AddsLast, \A w \in Works : Source(w)' \subseteq Source(w)
    PROVE  OneSource'
  <1> SUFFICES ASSUME NEW w \in Works
               PROVE  /\ \A x, y \in Source(w)' : x = y
                      /\ Source(w)' # {} => w <= Used("add")'
    BY DEF OneSource
  <1>1. \A x, y \in Source(w)' : x = y
    BY DEF OneSource
  <1>2. CASE Source(w)' # {}
    <2>1. w <= Used("add") /\ w \in Int
      BY <1>2, DurableAssumption DEF OneSource, Works, Events
    <2> QED
      BY <1>1, <2>1 DEF AddsLast
  <1> QED
    BY <1>1, <1>2


(* A source that is handed on, or made by an add, stays the only one.          *)
LEMMA SourceMoves ==
    ASSUME OneSource, AddsLast, NEW v, NEW old, NEW new,
           \A w \in Works : w # v => Source(w)' \subseteq Source(w),
           v \in Works => /\ Source(v) \subseteq {old} /\ Source(v)' \subseteq {new}
                          /\ v <= Used("add")'
    PROVE  OneSource'
  <1> SUFFICES ASSUME NEW w \in Works
               PROVE  /\ \A x, y \in Source(w)' : x = y
                      /\ Source(w)' # {} => w <= Used("add")'
    BY DEF OneSource
  <1>1. CASE w = v
    BY <1>1
  <1>2. CASE w # v
    <2>1. Source(w)' \subseteq Source(w)
      BY <1>2
    <2>2. \A x, y \in Source(w)' : x = y
      BY <2>1 DEF OneSource
    <2>3. Source(w)' # {} => w <= Used("add") /\ w \in Int
      BY <2>1, DurableAssumption DEF OneSource, Works, Events
    <2> QED
      BY <2>2, <2>3 DEF AddsLast
  <1> QED
    BY <1>1, <1>2

(* What an offer does to the rows.                                           *)
LEMMA OfferRows ==
    ASSUME TableTyped, NEW id \in RowIds, NEW v, NEW level, Offer(id, v, level), UNCHANGED boot
    PROVE  RowsBut(id, v) /\ ReadyBut(id, v)
  <1>1. CASE UNCHANGED <<rows, stored, ended>>
    BY <1>1 DEF RowsBut, ReadyBut, LiveRows, Ready, Pending
  <1>2. CASE /\ rows' = [i \in RowIds |->
                          IF i \in LiveWith(KeyOf[v]) /\ rows[i].rank > level
                          THEN [rows[i] EXCEPT !.rank = level] ELSE rows[i]]
             /\ UNCHANGED stored
    <2>1. \A i \in RowIds : /\ rows'[i].status = rows[i].status /\ rows'[i].work = rows[i].work
                            /\ rows'[i].lease = rows[i].lease
      BY <1>2 DEF TableTyped, RowTyped, NoRow
    <2> QED
      BY <2>1 DEF RowsBut, ReadyBut, LiveRows, Ready, Pending
  <1>3. CASE /\ rows[id].status = "none"
             /\ rows' = [rows EXCEPT ![id] =
                          [NoRow EXCEPT !.status = "pending", !.work = v, !.key = KeyOf[v],
                                        !.rank = level, !.seq = NextSeq]]
    <2>1. /\ rows'[id].work = v
          /\ \A i \in RowIds : i # id => rows'[i] = rows[i]
      BY <1>3 DEF TableTyped, NoRow
    <2> QED
      BY <2>1 DEF RowsBut, ReadyBut, LiveRows, Ready, Pending
  <1> QED
    BY <1>1, <1>2, <1>3 DEF Offer

(* No other step makes a row, or gives one to another entry. Some end a lease.   *)
LEMMA TableRows ==
    ASSUME TableTyped
    PROVE  /\ UNCHANGED rows => RowsLast
           /\ \A ids : Delete(ids) => RowsLast
           /\ Recover => RowsLast
           /\ \A i : FailRow(i) => RowsLast
           /\ \A i \in RowIds : Take(i) => RowsLast
           /\ \A i \in RowIds : LeaseExpires(i) => RowsLast
           /\ UNCHANGED <<rows, boot>> => ReadyLast
           /\ \A ids : Delete(ids) /\ UNCHANGED boot => ReadyLast
  <1>1. SameEntries => RowsLast
    BY DEF SameEntries, RowsLast, LiveRows
  <1>2. ASSUME NEW ids, Delete(ids)
        PROVE  RowsLast /\ (UNCHANGED boot => ReadyLast)
    <2>1. \A i \in RowIds : rows'[i] = IF i \in ids THEN NoRow ELSE rows[i]
      BY <1>2 DEF Delete
    <2>2. \A i \in LiveRows' : i \in LiveRows /\ rows'[i] = rows[i]
      BY <2>1 DEF LiveRows, NoRow
    <2> QED
      BY <2>2 DEF RowsLast, ReadyLast, Ready, Pending, LiveRows
  <1>3. UNCHANGED <<rows, boot>> => ReadyLast
    BY DEF ReadyLast, LiveRows, Ready, Pending
  <1> QED
    BY <1>1, <1>2, <1>3, TableEntries

(* What was no way to begin is none.                                          *)
LEMMA OpenOfNext ==
    ASSUME NEW w, Open(w)'
    PROVE  \/ \E i \in LiveRows' : rows'[i].work = w /\ Ready(i)'
           \/ \E c \in Offering' : fib'[c].copy.work = w
           \/ \E f \in Fibers : \E t \in fib'[f].taken : t.row.work = w
  <1>1. TakenOf(w)' = {z \in UNION {{<<f, t>> : t \in fib'[f].taken} : f \in Fibers} : z[2].row.work = w}
    BY DEF TakenOf
  <1>2. \A z \in TakenOf(w)' : \E f \in Fibers : \E t \in fib'[f].taken : z = <<f, t>> /\ t.row.work = w
    BY <1>1
  <1> QED
    BY <1>2 DEF Open, RowOf, OfferOf

LEMMA OpenBut ==
    ASSUME FramesCalm, NEW id, NEW v, ReadyBut(id, v), NEW w, w # v
    PROVE  Open(w)' => Open(w)
  <1> SUFFICES ASSUME Open(w)'
               PROVE  Open(w)
    OBVIOUS
  <1> QED
    BY OpenOfNext, OpenOf DEF FramesCalm, ReadyBut

LEMMA OpenLast ==
    ASSUME FramesCalm, ReadyLast, NEW w
    PROVE  Open(w)' => Open(w)
  <1> SUFFICES ASSUME Open(w)'
               PROVE  Open(w)
    OBVIOUS
  <1> QED
    BY OpenOfNext, OpenOf DEF FramesCalm, ReadyLast

----------------------------------------------------------------------------
(* Copies.                                                                   *)

LEMMA HandCounted ==
    ASSUME NEW w, NEW f \in Workers \cup {Feeder}, \A g \in Fibers \ {f} : fib'[g] = fib[g]
    PROVE  /\ Cardinality(InHand(w)) \in Nat /\ Cardinality(InHand(w)') \in Nat
           /\ Cardinality(InHand(w)') <= Cardinality(InHand(w)) + 1
           /\ (f \in InHand(w)' => f \in InHand(w))
                => Cardinality(InHand(w)') <= Cardinality(InHand(w))
           /\ f \in InHand(w) \ InHand(w)'
                => Cardinality(InHand(w)') + 1 <= Cardinality(InHand(w))
  <1>1. IsFiniteSet(Workers \cup {Feeder})
    BY CountsFinite, FS_AddElement
  <1>2. IsFiniteSet(InHand(w)) /\ IsFiniteSet(InHand(w)')
    BY <1>1, FS_Subset DEF InHand
  <1>3. InHand(w) \ {f} = InHand(w)' \ {f}
    BY DEF InHand, Fibers
  <1>4. PICK A, B : A = InHand(w) /\ B = InHand(w)'
    OBVIOUS
  <1>5. IsFiniteSet(A) /\ IsFiniteSet(B) /\ A \ {f} = B \ {f}
    BY <1>2, <1>3, <1>4
  <1>6. PICK a \in Nat, b \in Nat : a = Cardinality(A) /\ b = Cardinality(B)
    BY <1>5, FS_CardinalityType
  <1>7. /\ f \in A => Cardinality(A \ {f}) = a - 1
        /\ f \notin A => Cardinality(A \ {f}) = a
        /\ f \in B => Cardinality(B \ {f}) = b - 1
        /\ f \notin B => Cardinality(B \ {f}) = b
    BY <1>5, <1>6, FS_RemoveElement
  <1>8. /\ b <= a + 1
        /\ (f \in B => f \in A) => b <= a
        /\ f \in A /\ f \notin B => b + 1 <= a
    <2> DEFINE n == Cardinality(A \ {f})
    <2>0. n = Cardinality(B \ {f})
      BY <1>5
    <2> HIDE DEF n
    <2>1. CASE f \in A /\ f \in B
      <3>1. n = a - 1 /\ n = b - 1
        BY <1>7, <2>0, <2>1 DEF n
      <3> QED
        BY <2>1, <3>1
    <2>2. CASE f \in A /\ f \notin B
      <3>1. n = a - 1 /\ n = b
        BY <1>7, <2>0, <2>2 DEF n
      <3> QED
        BY <2>2, <3>1
    <2>3. CASE f \notin A /\ f \in B
      <3>1. n = a /\ n = b - 1
        BY <1>7, <2>0, <2>3 DEF n
      <3> QED
        BY <2>3, <3>1
    <2>4. CASE f \notin A /\ f \notin B
      <3>1. n = a /\ n = b
        BY <1>7, <2>0, <2>4 DEF n
      <3> QED
        BY <2>4, <3>1
    <2> QED
      BY <2>1, <2>2, <2>3, <2>4
  <1> QED
    BY <1>4, <1>6, <1>8

LEMMA SameHands ==
    ASSUME NEW w, \A g \in Workers \cup {Feeder} : fib'[g] = fib[g]
    PROVE  InHand(w)' = InHand(w)
BY DEF InHand

LEMMA QueuedOf ==
    ASSUME NEW w
    PROVE  \A x : x \in Queued(w) <=>
             \E l \in Levels : \E n \in DOMAIN lanes[l] : x = <<l, n>> /\ lanes[l][n].work = w
BY DEF Queued

LEMMA QueuedOfNext ==
    ASSUME NEW w
    PROVE  \A x : x \in Queued(w)' <=>
             \E l \in Levels : \E n \in DOMAIN lanes'[l] : x = <<l, n>> /\ lanes'[l][n].work = w
BY DEF Queued

LEMMA PutCounted ==
    ASSUME LanesTyped, NEW copy \in CopyRecords, NEW w, IsFiniteSet(Queued(w)),
           lanes' = [lanes EXCEPT ![copy.level] = Append(@, copy)]
    PROVE  /\ IsFiniteSet(Queued(w)')
           /\ Cardinality(Queued(w)) \in Nat /\ Cardinality(Queued(w)') \in Nat
           /\ Cardinality(Queued(w)') <= Cardinality(Queued(w)) + 1
           /\ copy.work # w => Cardinality(Queued(w)') <= Cardinality(Queued(w))
  <1> DEFINE l == copy.level
             s == lanes[l]
             last == <<l, Len(s) + 1>>
  <1>1. l \in Levels /\ s \in Seq(QueuedIn(l)) /\ copy \in QueuedIn(l)
    BY DEF LanesTyped, CopyRecords, QueuedIn
  <1>2. /\ lanes'[l] = Append(s, copy)
        /\ \A m \in Levels : m # l => lanes'[m] = lanes[m]
    BY <1>1 DEF LanesTyped
  <1>3. /\ Len(s) \in Nat /\ DOMAIN s = 1 .. Len(s)
        /\ DOMAIN Append(s, copy) = 1 .. Len(s) + 1
        /\ Append(s, copy)[Len(s) + 1] = copy
        /\ \A n \in 1 .. Len(s) : Append(s, copy)[n] = s[n]
    BY <1>1, AppendProperties, LenProperties
  <1>4. \A n \in DOMAIN lanes'[l] : \/ n \in DOMAIN s /\ lanes'[l][n] = s[n]
                                    \/ n = Len(s) + 1 /\ lanes'[l][n] = copy
    BY <1>2, <1>3
  <1>5. Queued(w)' \subseteq Queued(w) \cup {last} /\ (copy.work # w => Queued(w)' \subseteq Queued(w))
    <2> SUFFICES ASSUME NEW m \in Levels, NEW n \in DOMAIN lanes'[m], lanes'[m][n].work = w
                 PROVE  <<m, n>> \in Queued(w) \/ (<<m, n>> = last /\ copy.work = w)
      BY QueuedOfNext
    <2>1. CASE m # l
      BY <1>2, <2>1, QueuedOf
    <2>2. CASE m = l /\ n \in DOMAIN s /\ lanes'[l][n] = s[n]
      BY <1>1, <2>2, QueuedOf
    <2>3. CASE m = l /\ n = Len(s) + 1 /\ lanes'[l][n] = copy
      BY <2>3
    <2> QED
      BY <1>4, <2>1, <2>2, <2>3
  <1> HIDE DEF last, l, s
  <1>6. PICK A, B : A = Queued(w) /\ B = Queued(w)'
    OBVIOUS
  <1>7. IsFiniteSet(A) /\ B \subseteq A \cup {last} /\ (copy.work # w => B \subseteq A)
    BY <1>5, <1>6
  <1>8. IsFiniteSet(A \cup {last}) /\ Cardinality(A) \in Nat
    BY <1>7, FS_AddElement, FS_CardinalityType
  <1>9. Cardinality(A \cup {last}) \in Nat /\ Cardinality(A \cup {last}) <= Cardinality(A) + 1
    BY <1>7, <1>8, FS_AddElement, FS_CardinalityType
  <1>10. /\ IsFiniteSet(B) /\ Cardinality(B) <= Cardinality(A \cup {last})
         /\ copy.work # w => Cardinality(B) <= Cardinality(A)
    BY <1>7, <1>8, FS_Subset
  <1>11. Cardinality(B) \in Nat
    BY <1>10, FS_CardinalityType
  <1>12. Cardinality(B) <= Cardinality(A) + 1
    BY <1>8, <1>9, <1>10, <1>11
  <1> QED
    BY <1>6, <1>8, <1>10, <1>11, <1>12

(* Who takes the head of a lane moves the others up.                           *)
LEMMA TakeCounted ==
    ASSUME LanesTyped, NEW l \in Levels, lanes[l] # <<>>, NEW w, IsFiniteSet(Queued(w)),
           lanes' = [lanes EXCEPT ![l] = Tail(@)]
    PROVE  /\ IsFiniteSet(Queued(w)')
           /\ Cardinality(Queued(w)) \in Nat /\ Cardinality(Queued(w)') \in Nat
           /\ Cardinality(Queued(w)') <= Cardinality(Queued(w))
           /\ Head(lanes[l]).work = w => Cardinality(Queued(w)') + 1 <= Cardinality(Queued(w))
  <1> DEFINE s == lanes[l]
             back == [x \in Queued(w)' |-> IF x[1] = l THEN <<l, x[2] + 1>> ELSE x]
             Behind == Queued(w) \ {<<l, 1>>}
  <1>1. s \in Seq(QueuedIn(l))
    BY DEF LanesTyped
  <1>2. /\ lanes'[l] = Tail(s)
        /\ \A m \in Levels : m # l => lanes'[m] = lanes[m]
    BY DEF LanesTyped
  <1>3. /\ Len(s) \in Nat \ {0} /\ DOMAIN s = 1 .. Len(s) /\ Head(s) = s[1]
        /\ DOMAIN Tail(s) = 1 .. Len(s) - 1
        /\ \A n \in 1 .. Len(s) - 1 : Tail(s)[n] = s[n + 1]
    BY <1>1, HeadTailProperties, LenProperties, EmptySeq
  <1>4. ASSUME NEW m \in Levels, NEW n \in DOMAIN lanes'[m], lanes'[m][n].work = w
        PROVE  /\ m # l => <<m, n>> \in Behind
               /\ m = l => n \in Nat /\ <<l, n + 1>> \in Behind
    <2>1. CASE m # l
      <3>1. <<m, n>> \in Queued(w)
        BY <1>2, <1>4, <2>1, QueuedOf
      <3> QED
        BY <2>1, <3>1
    <2>2. CASE m = l
      <3>1. n \in 1 .. Len(s) - 1 /\ lanes'[m][n] = s[n + 1]
        BY <1>2, <1>3, <2>2
      <3>2. n \in Nat /\ n + 1 \in DOMAIN s /\ n + 1 # 1
        BY <1>3, <3>1
      <3>3. PICK k \in DOMAIN s : k = n + 1 /\ s[k].work = w /\ k # 1
        BY <1>4, <3>1, <3>2
      <3>4. <<l, k>> \in Queued(w)
        BY <3>3, QueuedOf
      <3>5. <<l, k>> # <<l, 1>>
        BY <3>3
      <3> QED
        BY <2>2, <3>2, <3>3, <3>4, <3>5
    <2> QED
      BY <2>1, <2>2
  <1>5. \A x \in Queued(w)' : \E m \in Levels : \E n \in DOMAIN lanes'[m] : x = <<m, n>> /\ lanes'[m][n].work = w
    BY QueuedOfNext
  <1>6. \A x \in Queued(w)' : back[x] \in Behind
    BY <1>4, <1>5
  <1>7. ASSUME NEW x \in Queued(w)', NEW y \in Queued(w)', back[x] = back[y]
        PROVE  x = y
    <2>a. PICK m \in Levels : \E n \in DOMAIN lanes'[m] : x = <<m, n>> /\ lanes'[m][n].work = w
      BY <1>5
    <2>1. PICK n \in DOMAIN lanes'[m] : x = <<m, n>> /\ lanes'[m][n].work = w
      BY <2>a
    <2>b. PICK i \in Levels : \E j \in DOMAIN lanes'[i] : y = <<i, j>> /\ lanes'[i][j].work = w
      BY <1>5
    <2>2. PICK j \in DOMAIN lanes'[i] : y = <<i, j>> /\ lanes'[i][j].work = w
      BY <2>b
    <2>3. /\ back[x] = IF m = l THEN <<l, n + 1>> ELSE <<m, n>>
          /\ back[y] = IF i = l THEN <<l, j + 1>> ELSE <<i, j>>
      BY <2>1, <2>2
    <2>4. m = i
      BY <1>7, <2>3
    <2>5. CASE m = l
      <3>1. n \in Nat /\ j \in Nat /\ n + 1 = j + 1
        BY <1>4, <1>7, <2>1, <2>2, <2>3, <2>4, <2>5
      <3> QED
        BY <2>1, <2>2, <2>4, <3>1
    <2>6. CASE m # l
      BY <1>7, <2>1, <2>2, <2>3, <2>4, <2>6
    <2> QED
      BY <2>5, <2>6
  <1>8. <<l, 1>> \in Queued(w) <=> Head(s).work = w
    <2>1. 1 \in DOMAIN s /\ s[1] = Head(s)
      BY <1>3
    <2>2. <<l, 1>> \in Queued(w) => s[1].work = w
      BY QueuedOf
    <2>3. s[1].work = w => <<l, 1>> \in Queued(w)
      BY <2>1, QueuedOf
    <2> QED
      BY <2>1, <2>2, <2>3
  <1>9. back \in Injection(Queued(w)', Behind)
    <2>1. back \in [Queued(w)' -> Behind]
      BY <1>6
    <2> HIDE DEF back, Behind
    <2> QED
      BY <1>7, <2>1 DEF Injection, IsInjective
  <1> HIDE DEF back, s
  <1>10. IsFiniteSet(Behind)
    BY FS_RemoveElement
  <1> DEFINE first == <<l, 1>>
  <1>11. /\ Cardinality(Queued(w)) \in Nat
         /\ first \in Queued(w) => Cardinality(Behind) = Cardinality(Queued(w)) - 1
         /\ first \notin Queued(w) => Cardinality(Behind) = Cardinality(Queued(w))
    BY FS_RemoveElement, FS_CardinalityType
  <1> HIDE DEF Behind, first
  <1>12. IsFiniteSet(Queued(w)') /\ Cardinality(Queued(w)') <= Cardinality(Behind)
    BY <1>9, <1>10, FS_Injection
  <1>13. Cardinality(Queued(w)') \in Nat /\ Cardinality(Behind) \in Nat
    BY <1>10, <1>12, FS_CardinalityType
  <1>14. first \in Queued(w) <=> Head(lanes[l]).work = w
    BY <1>8 DEF first, s
  <1>15. PICK a \in Nat, b \in Nat, d \in Nat :
            a = Cardinality(Queued(w)) /\ b = Cardinality(Queued(w)') /\ d = Cardinality(Behind)
    BY <1>11, <1>13
  <1>16. b <= a /\ (first \in Queued(w) => b + 1 <= a)
    <2>1. CASE first \in Queued(w)
      BY <1>11, <1>12, <1>15, <2>1
    <2>2. CASE first \notin Queued(w)
      BY <1>11, <1>12, <1>15, <2>2
    <2> QED
      BY <2>1, <2>2
  <1> QED
    BY <1>12, <1>14, <1>15, <1>16

----------------------------------------------------------------------------
(* The balance of an entry.                                                  *)

Numbers ==
    \A w \in Works :
        /\ Openings(w) \in Nat /\ Cardinality(Queued(w)) \in Nat /\ Cardinality(InHand(w)) \in Nat
        /\ begun[w] \in Nat /\ failed[w] \in Nat /\ Arrived(w) \in Nat
        /\ Used("add") \in Nat /\ Used("crash") \in Nat /\ Used("expire") \in Nat

LEMMA NumbersTyped == Countable => Numbers
  <1> SUFFICES ASSUME Countable, NEW w \in Works
               PROVE  /\ Openings(w) \in Nat /\ Cardinality(Queued(w)) \in Nat
                      /\ Cardinality(InHand(w)) \in Nat
                      /\ begun[w] \in Nat /\ failed[w] \in Nat /\ Arrived(w) \in Nat
                      /\ Used("add") \in Nat /\ Used("crash") \in Nat /\ Used("expire") \in Nat
    BY DEF Numbers
  <1>1. Openings(w) \in Nat /\ Arrived(w) \in Nat
    BY DEF Openings, Arrived
  <1>2. Cardinality(Queued(w)) \in Nat
    BY FS_CardinalityType DEF Countable
  <1>3. IsFiniteSet(Workers \cup {Feeder})
    BY CountsFinite, FS_AddElement
  <1>4. Cardinality(InHand(w)) \in Nat
    BY <1>3, FS_Subset, FS_CardinalityType DEF InHand
  <1>5. Used("add") \in Nat /\ Used("crash") \in Nat /\ Used("expire") \in Nat
    BY DurableAssumption DEF Countable, BudgetOK, Used, Events
  <1> QED
    BY <1>1, <1>2, <1>4, <1>5 DEF Countable

LEMMA NumbersNext == Countable' => Numbers'
  <1> QED
    BY NumbersTyped, PTL

(* How a step changes each part of the balance of w, at most.                  *)
Shifts(w, o, q, h, b, r) ==
    /\ Openings(w)' <= Openings(w) + o
    /\ Cardinality(Queued(w)') <= Cardinality(Queued(w)) + q
    /\ Cardinality(InHand(w)') <= Cardinality(InHand(w)) + h
    /\ begun'[w] <= begun[w] + b
    /\ Reasons(w) + r <= Reasons(w)'

LEMMA PaidKeeps ==
    ASSUME Countable, Countable', Paid,
           \A w \in Works : \E o, q, h, b, r \in Int :
               Shifts(w, o, q, h, b, r) /\ o + q + h + b <= r
    PROVE  Paid'
  <1> SUFFICES ASSUME NEW w \in Works
               PROVE  begun'[w] + Chances(w)' <= Reasons(w)'
    BY DEF Paid
  <1>1. PICK o \in Int, q \in Int, h \in Int, b \in Int, r \in Int :
           Shifts(w, o, q, h, b, r) /\ o + q + h + b <= r
    BY Zenon
  <1>2. Numbers /\ Numbers'
    BY NumbersTyped, NumbersNext
  <1>3. /\ Openings(w) \in Nat /\ Cardinality(Queued(w)) \in Nat /\ Cardinality(InHand(w)) \in Nat
        /\ begun[w] \in Nat /\ Reasons(w) \in Nat
    BY <1>2 DEF Numbers, Reasons
  <1>4. /\ Openings(w)' \in Nat /\ Cardinality(Queued(w)') \in Nat
        /\ Cardinality(InHand(w)') \in Nat /\ begun'[w] \in Nat
    BY <1>2 DEF Numbers
  <1>5. Reasons(w)' \in Nat
    BY <1>2 DEF Numbers, Reasons
  <1>6. begun[w] + Openings(w) + Cardinality(Queued(w)) + Cardinality(InHand(w)) <= Reasons(w)
    BY <1>3 DEF Paid, Chances
  <1>7. begun'[w] + Openings(w)' + Cardinality(Queued(w)') + Cardinality(InHand(w)') <= Reasons(w)'
    BY <1>1, <1>3, <1>4, <1>5, <1>6 DEF Shifts
  <1> QED
    BY <1>4, <1>7 DEF Chances

LEMMA OpeningsShift ==
    ASSUME NEW w
    PROVE  /\ (Open(w)' => Open(w)) => Openings(w)' <= Openings(w)
           /\ Openings(w)' <= Openings(w) + 1
           /\ Open(w) /\ ~Open(w)' => Openings(w)' <= Openings(w) + (0 - 1)
  <1>1. /\ Open(w) => Openings(w) = 1
        /\ ~Open(w) => Openings(w) = 0
    BY DEF Openings
  <1>2. /\ Open(w)' => Openings(w)' = 1
        /\ ~Open(w)' => Openings(w)' = 0
    BY DEF Openings
  <1>3. CASE Open(w)' /\ Open(w)
    BY <1>1, <1>2, <1>3
  <1>4. CASE Open(w)' /\ ~Open(w)
    BY <1>1, <1>2, <1>4
  <1>5. CASE ~Open(w)' /\ Open(w)
    BY <1>1, <1>2, <1>5
  <1>6. CASE ~Open(w)' /\ ~Open(w)
    BY <1>1, <1>2, <1>6
  <1> QED
    BY <1>3, <1>4, <1>5, <1>6

(* Reasons are not taken back.                                               *)
LEMMA UsedLast ==
    ASSUME BudgetOK, Spends
    PROVE  /\ AddsLast
           /\ Used("crash") <= Used("crash")' /\ Used("expire") <= Used("expire")'
BY DurableAssumption DEF BudgetOK, Spends, Used, Events, AddsLast

LEMMA ArrivedLast ==
    ASSUME AddsLast, NEW w \in Works
    PROVE  Arrived(w) <= Arrived(w)'
  <1>1. w \in Int
    BY DurableAssumption DEF Works, Events
  <1>2. w <= Used("add") => w <= Used("add")'
    BY <1>1 DEF AddsLast
  <1>3. /\ w <= Used("add") => Arrived(w) = 1
        /\ ~(w <= Used("add")) => Arrived(w) = 0
        /\ w <= Used("add")' => Arrived(w)' = 1
        /\ ~(w <= Used("add")') => Arrived(w)' = 0
    BY DEF Arrived
  <1>4. CASE w <= Used("add")
    BY <1>2, <1>3, <1>4
  <1>5. CASE ~(w <= Used("add")) /\ w <= Used("add")'
    BY <1>3, <1>5
  <1>6. CASE ~(w <= Used("add")) /\ ~(w <= Used("add")')
    BY <1>3, <1>6
  <1> QED
    BY <1>4, <1>5, <1>6

LEMMA ReasonsLast ==
    ASSUME Countable, Countable', Spends, NEW w \in Works
    PROVE  /\ failed[w] <= failed'[w] => Reasons(w) + 0 <= Reasons(w)'
           /\ failed[w] + 1 <= failed'[w] => Reasons(w) + 1 <= Reasons(w)'
           /\ failed[w] <= failed'[w] /\ Used("crash") + 1 <= Used("crash")'
                => Reasons(w) + 1 <= Reasons(w)'
           /\ failed[w] <= failed'[w] /\ Used("expire") + 1 <= Used("expire")'
                => Reasons(w) + 1 <= Reasons(w)'
           /\ failed[w] <= failed'[w] /\ Arrived(w) + 1 <= Arrived(w)'
                => Reasons(w) + 1 <= Reasons(w)'
  <1>1. /\ AddsLast
        /\ Used("crash") <= Used("crash")' /\ Used("expire") <= Used("expire")'
    BY UsedLast DEF Countable
  <1>2. Arrived(w) <= Arrived(w)'
    BY <1>1, ArrivedLast
  <1>3. Numbers /\ Numbers'
    BY NumbersTyped, NumbersNext
  <1>4. PICK a \in Nat, f \in Nat, c \in Nat, e \in Nat :
           a = Arrived(w) /\ f = failed[w] /\ c = Used("crash") /\ e = Used("expire")
    BY <1>3 DEF Numbers
  <1>5. PICK a1 \in Nat, f1 \in Nat, c1 \in Nat, e1 \in Nat :
           a1 = Arrived(w)' /\ f1 = failed'[w] /\ c1 = Used("crash")' /\ e1 = Used("expire")'
    BY <1>3 DEF Numbers
  <1>6. Reasons(w) = a + f + c + e /\ Reasons(w)' = a1 + f1 + c1 + e1
    BY <1>4, <1>5 DEF Reasons
  <1> QED
    BY <1>1, <1>2, <1>4, <1>5, <1>6

----------------------------------------------------------------------------
(* Steps that make no copy, and no entry one can take.                         *)

LEMMA OneMoves ==
    ASSUME NEW f \in Fibers, \A g \in Fibers \ {f} : fib'[g] = fib[g],
           fib'[f].taken \subseteq fib[f].taken, fib'[f].pc # "offer"
    PROVE  /\ FramesCalm
           /\ fib'[f].pc \notin Awaiting => \A w : InHand(w)' \subseteq InHand(w)
  <1>1. FramesCalm
    BY DEF FramesCalm, Offering, At, Fibers
  <1>2. ASSUME fib'[f].pc \notin Awaiting, NEW w, NEW g \in InHand(w)'
        PROVE  g \in InHand(w)
    BY <1>2 DEF InHand, Fibers
  <1> QED
    BY <1>1, <1>2

LEMMA MoverCalm ==
    ASSUME FramesTyped, NEW f \in Fibers, NEW pc, GoTo(f, pc) \/ DropsCopy(f, pc), pc # "offer"
    PROVE  /\ FramesCalm /\ fib'[f].pc = pc
           /\ \A g \in Fibers \ {f} : fib'[g] = fib[g]
           /\ pc \notin Awaiting => \A w : InHand(w)' \subseteq InHand(w)
  <1>1. /\ fib'[f].pc = pc /\ fib'[f].taken = fib[f].taken
        /\ \A g \in Fibers \ {f} : fib'[g] = fib[g]
    BY DEF GoTo, DropsCopy, FramesTyped, FrameTyped
  <1> QED
    BY <1>1, OneMoves

LEMMA LanesCountable ==
    ASSUME Countable, Spends, begun' \in [Works -> Nat], failed' \in [Works -> Nat]
    PROVE  /\ UNCHANGED lanes => Countable' /\ \A w : Queued(w)' = Queued(w)
           /\ lanes' = [l \in Levels |-> <<>>] => Countable' /\ \A w : Queued(w)' = {}
  <1>1. ASSUME UNCHANGED lanes
        PROVE  Countable' /\ \A w : Queued(w)' = Queued(w)
    <2>1. \A w : Queued(w)' = Queued(w)
      BY <1>1 DEF Queued
    <2> QED
      BY <1>1, <2>1 DEF Countable, Spends
  <1>2. ASSUME lanes' = [l \in Levels |-> <<>>]
        PROVE  Countable' /\ \A w : Queued(w)' = {}
    <2>1. \A w : Queued(w)' = {}
      BY <1>2 DEF Queued
    <2> QED
      BY <1>2, <2>1, FS_EmptySet DEF Countable, Spends
  <1> QED
    BY <1>1, <1>2

LEMMA CalmKeeps ==
    ASSUME Countable, OneSource, Paid, Spends, FramesCalm, RowsLast, ReadyLast, UNCHANGED runs,
           UNCHANGED lanes \/ lanes' = [l \in Levels |-> <<>>],
           \A w : InHand(w)' \subseteq InHand(w)
    PROVE  OneSource' /\ Paid' /\ Countable'
  <1>1. UNCHANGED <<begun, failed>> /\ begun' \in [Works -> Nat] /\ failed' \in [Works -> Nat]
    BY DEF runs, Countable
  <1>2. Countable' /\ \A w : Queued(w)' \subseteq Queued(w)
    BY <1>1, LanesCountable
  <1>3. OneSource'
    BY SourcesShrink, OneSourceShrinks, UsedLast DEF Countable
  <1>4. ASSUME NEW w \in Works
        PROVE  Shifts(w, 0, 0, 0, 0, 0)
    <2>1. Openings(w)' <= Openings(w)
      BY OpenLast, OpeningsShift
    <2>2. Cardinality(Queued(w)') <= Cardinality(Queued(w))
      BY <1>2, FS_Subset DEF Countable
    <2>3. IsFiniteSet(Workers \cup {Feeder})
      BY CountsFinite, FS_AddElement
    <2>4. IsFiniteSet(InHand(w))
      BY <2>3, FS_Subset DEF InHand
    <2>5. Cardinality(InHand(w)') <= Cardinality(InHand(w))
      BY <2>4, FS_Subset
    <2>6. begun'[w] <= begun[w] /\ failed[w] <= failed'[w]
      BY <1>1 DEF Countable
    <2>7. Reasons(w) + 0 <= Reasons(w)'
      BY <1>2, <2>6, ReasonsLast
    <2>8. /\ Openings(w) \in Nat /\ Cardinality(Queued(w)) \in Nat
          /\ Cardinality(InHand(w)) \in Nat /\ begun[w] \in Nat
      BY NumbersTyped DEF Numbers
    <2> QED
      BY <2>1, <2>2, <2>5, <2>6, <2>7, <2>8 DEF Shifts
  <1>5. Paid'
    <2>1. \A w \in Works : Shifts(w, 0, 0, 0, 0, 0) /\ 0 + 0 + 0 + 0 <= 0
      BY <1>4
    <2> QED
      BY <1>2, <2>1, PaidKeeps
  <1> QED
    BY <1>2, <1>3, <1>5

----------------------------------------------------------------------------
(* A call of a client.                                                       *)

(* The entry that comes from one place comes from another: its row.            *)
LEMMA Handover ==
    ASSUME OneSource, AddsLast, FramesCalm, NEW id, NEW v \in Works, RowsBut(id, v),
           NEW old \in Source(v), old \notin Source(v)'
    PROVE  OneSource'
  <1> DEFINE new == <<"row", id>>
  <1>1. \A w \in Works : w # v => Source(w)' \subseteq Source(w)
    BY SourcesBut
  <1>2. Source(v) \subseteq {old} /\ v <= Used("add")
    BY DEF OneSource
  <1>3. Source(v)' \subseteq {new}
    BY <1>2, SourcesBut
  <1>4. v \in Int
    BY DurableAssumption DEF Works, Events
  <1>5. v <= Used("add")'
    BY <1>2, <1>4 DEF AddsLast
  <1> HIDE DEF new
  <1> QED
    BY <1>1, <1>2, <1>3, <1>5, SourceMoves

(* A call that leaves the lanes alone, and opens nothing.                      *)
LEMMA CallPaid ==
    ASSUME Countable, Paid, Spends, UNCHANGED runs, UNCHANGED lanes,
           NEW c \in Clients, \A g \in Fibers \ {c} : fib'[g] = fib[g],
           \A w \in Works : Open(w)' => Open(w)
    PROVE  Paid' /\ Countable'
  <1>1. UNCHANGED <<begun, failed>> /\ begun' \in [Works -> Nat] /\ failed' \in [Works -> Nat]
    BY DEF runs, Countable
  <1>2. Countable' /\ \A w : Queued(w)' = Queued(w)
    BY <1>1, LanesCountable
  <1>3. \A w : InHand(w)' = InHand(w)
    <2>1. \A g \in Workers \cup {Feeder} : fib'[g] = fib[g]
      BY DurableAssumption DEF Fibers
    <2> QED
      BY <2>1, SameHands
  <1>4. ASSUME NEW w \in Works
        PROVE  Shifts(w, 0, 0, 0, 0, 0)
    <2>1. Openings(w)' <= Openings(w)
      BY OpeningsShift
    <2>2. Reasons(w) + 0 <= Reasons(w)'
      BY <1>1, <1>2, ReasonsLast DEF Countable
    <2>3. /\ Openings(w) \in Nat /\ Cardinality(Queued(w)) \in Nat
          /\ Cardinality(InHand(w)) \in Nat /\ begun[w] \in Nat
      BY NumbersTyped DEF Numbers
    <2> QED
      BY <1>1, <1>2, <1>3, <2>1, <2>2, <2>3 DEF Shifts
  <1>5. \A w \in Works : Shifts(w, 0, 0, 0, 0, 0) /\ 0 + 0 + 0 + 0 <= 0
    BY <1>4
  <1> QED
    BY <1>2, <1>5, PaidKeeps

(* An add is a reason to begin once.                                          *)
LEMMA CallAddPaid ==
    ASSUME Typed, Countable, OneSource, Paid, NEW c \in Clients, CallAdd(c)
    PROVE  OneSource' /\ Paid' /\ Countable'
  <1>0. c \in Fibers /\ FramesTyped /\ TableTyped /\ BudgetOK
    BY DEF Fibers, Typed
  <1>1. Spends
    BY SpendSpends DEF Typed, CallAdd, Events
  <1>2. RowsLast /\ ReadyLast /\ UNCHANGED <<lanes, runs>>
    BY <1>0, TableRows DEF CallAdd, engine
  <1>3. AddsLast
    BY <1>0, <1>1, UsedLast
  <1>4. CASE UNCHANGED fib
    <2>1. FramesCalm /\ \A w : InHand(w)' \subseteq InHand(w)
      BY <1>4 DEF FramesCalm, Offering, At, InHand
    <2> QED
      BY <1>1, <1>2, <2>1, CalmKeeps
  <1>5. ASSUME NEW l \in Levels,
               fib' = [fib EXCEPT ![c].pc = "offer",
                         ![c].copy = [id |-> 0, work |-> Used("add") + 1, level |-> l]]
        PROVE  OneSource' /\ Paid' /\ Countable'
    <2>1. Budget["add"] \in Nat /\ left["add"] \in Nat /\ left["add"] <= Budget["add"]
          /\ left["add"] > 0 /\ left'["add"] = left["add"] - 1
      BY DurableAssumption DEF Typed, BudgetOK, CallAdd, Spend, Events
    <2>2. PICK v \in Works : v = Used("add") + 1
      BY <2>1 DEF Used, Works
    <2>3. v \in Int /\ ~(v <= Used("add")) /\ v <= Used("add")'
      BY <2>1, <2>2 DEF Used
    <2>4. /\ fib'[c].pc = "offer" /\ fib'[c].copy.work = v /\ fib'[c].taken = fib[c].taken
          /\ \A g \in Fibers \ {c} : fib'[g] = fib[g]
      BY <1>0, <1>5, <2>2 DEF FramesTyped, FrameTyped
    <2>5. Source(v) = {}
      BY <2>3 DEF OneSource
    <2>6. ASSUME NEW w, NEW x \in Source(w)'
          PROVE  x \in Source(w) \/ (x = <<"offer", c>> /\ w = v)
      <3>1. CASE \E i \in LiveRows' : x = <<"row", i>> /\ rows'[i].work = w
        BY <1>2, <3>1, SourceOf DEF RowsLast
      <3>2. CASE \E d \in Offering' : x = <<"offer", d>> /\ fib'[d].copy.work = w
        BY <2>4, <3>2, SourceOf DEF Offering, At, Fibers
      <3>3. CASE \E f \in Fibers : \E t \in fib'[f].taken : x = <<"taken", <<f, t>>>> /\ t.row.work = w
        BY <2>4, <3>3, SourceOf
      <3> QED
        BY SourceOfNext, <3>1, <3>2, <3>3
    <2>7. OneSource'
      <3>1. \A w \in Works : w # v => Source(w)' \subseteq Source(w)
        BY <2>6
      <3> DEFINE offer == <<"offer", c>>
      <3>2. Source(v) \subseteq {offer} /\ Source(v)' \subseteq {offer}
        BY <2>5, <2>6
      <3> HIDE DEF offer
      <3> QED
        BY <1>3, <2>3, <3>1, <3>2, SourceMoves
    <2>8. UNCHANGED <<begun, failed>> /\ begun' \in [Works -> Nat] /\ failed' \in [Works -> Nat]
      BY <1>2 DEF runs, Countable
    <2>9. Countable' /\ \A w : Queued(w)' = Queued(w)
      BY <1>1, <1>2, <2>8, LanesCountable
    <2>10. \A w : InHand(w)' = InHand(w)
      <3>1. \A g \in Workers \cup {Feeder} : fib'[g] = fib[g]
        BY <2>4, DurableAssumption DEF Fibers
      <3> QED
        BY <3>1, SameHands
    <2>11. ASSUME NEW w \in Works
           PROVE  \E n \in {0, 1} : Shifts(w, n, 0, 0, 0, n)
      <3>1. /\ Openings(w) \in Nat /\ Cardinality(Queued(w)) \in Nat
            /\ Cardinality(InHand(w)) \in Nat /\ begun[w] \in Nat
        BY NumbersTyped DEF Numbers
      <3>2. CASE w = v
        <4>1. Arrived(w) = 0 /\ Arrived(w)' = 1
          BY <2>3, <3>2 DEF Arrived
        <4>2. Reasons(w) + 1 <= Reasons(w)'
          BY <1>1, <2>8, <2>9, <4>1, ReasonsLast DEF Countable
        <4>3. Openings(w)' <= Openings(w) + 1
          BY OpeningsShift
        <4>4. Shifts(w, 1, 0, 0, 0, 1)
          BY <2>8, <2>9, <2>10, <3>1, <4>2, <4>3 DEF Shifts
        <4> QED
          BY <4>4
      <3>3. CASE w # v
        <4>1. Open(w)' => Open(w)
          <5> SUFFICES ASSUME Open(w)'
                       PROVE  Open(w)
            OBVIOUS
          <5>1. CASE \E i \in LiveRows' : rows'[i].work = w /\ Ready(i)'
            BY <1>2, <5>1, OpenOf DEF ReadyLast
          <5>2. CASE \E d \in Offering' : fib'[d].copy.work = w
            BY <2>4, <3>3, <5>2, OpenOf DEF Offering, At, Fibers
          <5>3. CASE \E f \in Fibers : \E t \in fib'[f].taken : t.row.work = w
            BY <2>4, <5>3, OpenOf
          <5> QED
            BY OpenOfNext, <5>1, <5>2, <5>3
        <4>2. Reasons(w) + 0 <= Reasons(w)'
          BY <1>1, <2>8, <2>9, ReasonsLast DEF Countable
        <4>3. Openings(w)' <= Openings(w)
          BY <4>1, OpeningsShift
        <4>4. Shifts(w, 0, 0, 0, 0, 0)
          BY <2>8, <2>9, <2>10, <3>1, <4>2, <4>3 DEF Shifts
        <4> QED
          BY <4>4
      <3> QED
        BY <3>2, <3>3
    <2>12. ASSUME NEW w \in Works
           PROVE  \E o, q, h, b, r \in Int : Shifts(w, o, q, h, b, r) /\ o + q + h + b <= r
      <3>1. PICK n \in {0, 1} : Shifts(w, n, 0, 0, 0, n)
        BY <2>11
      <3>2. n \in Int /\ 0 \in Int /\ n + 0 + 0 + 0 <= n
        OBVIOUS
      <3> QED
        BY <3>1, <3>2
    <2> QED
      BY <2>7, <2>9, <2>12, PaidKeeps
  <1> QED
    BY <1>4, <1>5 DEF CallAdd

(* The store takes the entry that was to be offered, or does not.              *)
LEMMA OfferRowPaid ==
    ASSUME Typed, Countable, OneSource, Paid, NEW c \in Clients, OfferRow(c)
    PROVE  OneSource' /\ Paid' /\ Countable'
  <1>0. c \in Fibers /\ At(c, "offer") /\ TableTyped /\ FramesTyped /\ BudgetOK
    BY DEF Fibers, OfferRow, Typed
  <1>1. PICK id \in RowIds, v \in Works, level \in Levels :
           id = entrySeq + 1 /\ v = fib[c].copy.work /\ level = fib[c].copy.level
    BY <1>0, OfferedId
  <1>2. Spends
    BY SpendSpends DEF Typed, OfferRow, Events
  <1>3. /\ FramesCalm /\ fib'[c].pc = "idle"
        /\ \A g \in Fibers \ {c} : fib'[g] = fib[g]
    BY <1>0, MoverCalm DEF OfferRow
  <1>4. RowsBut(id, v) /\ ReadyBut(id, v)
    <2>1. CASE Offer(id, v, level)
      BY <1>0, <2>1, OfferRows DEF OfferRow
    <2>2. CASE UNCHANGED rows
      BY <1>0, <2>2, TableRows DEF OfferRow, RowsLast, ReadyLast, RowsBut, ReadyBut
    <2> QED
      BY <1>1, <2>1, <2>2 DEF OfferRow
  <1>5. <<"offer", c>> \in Source(v) /\ Open(v)
    <2>1. c \in Offering
      BY <1>0 DEF Offering
    <2> QED
      BY <1>1, <2>1, SourceOf, OpenOf
  <1>6. <<"offer", c>> \notin Source(v)'
    <2>1. c \notin Offering'
      BY <1>3 DEF Offering, At
    <2> QED
      BY <2>1, SourceOfNext
  <1>7. AddsLast
    BY <1>0, <1>2, UsedLast
  <1>8. OneSource'
    BY <1>3, <1>4, <1>5, <1>6, <1>7, Handover
  <1>9. \A w \in Works : Open(w)' => Open(w)
    BY <1>3, <1>4, <1>5, OpenBut
  <1> QED
    BY <1>2, <1>3, <1>8, <1>9, CallPaid DEF OfferRow

(* What is drained comes from the caller who drained it.                       *)
LEMMA ExtractPaid ==
    ASSUME Typed, Countable, OneSource, Paid, NEW c \in Clients, CallExtract(c)
    PROVE  OneSource' /\ Paid' /\ Countable'
  <1>0. c \in Fibers /\ TableTyped /\ FramesTyped /\ BudgetOK
    BY DEF Fibers, Typed
  <1>1. PICK drained \in Matching :
          /\ Delete(drained)
          /\ \/ UNCHANGED fib
                /\ left' = [left EXCEPT !["extract"] = @ - 1]
             \/ /\ left["encodeError"] > 0
                /\ left' = [left EXCEPT !["extract"] = @ - 1, !["encodeError"] = @ - 1]
                /\ fib' = [fib EXCEPT ![c].pc = "restore",
                             ![c].taken = {[id |-> i, row |-> rows[i]] : i \in drained}]
    BY Zenon DEF CallExtract
  <1>2. Spends
    <2>1. "extract" \in Events /\ "encodeError" \in Events /\ left["extract"] > 0
      BY DEF CallExtract, Events
    <2> QED
      BY <1>1, <2>1, DurableAssumption DEF Spends, Typed, BudgetOK
  <1>3. drained \subseteq Available
    BY <1>1 DEF Matching
  <1>4. RowsLast /\ ReadyLast /\ UNCHANGED <<lanes, runs>>
    BY <1>0, <1>1, TableRows DEF CallExtract, engine
  <1>5. \A i \in LiveRows' : i \notin drained
    BY <1>1 DEF Delete, LiveRows, NoRow
  <1>6. \A i \in drained : i \in LiveRows /\ Ready(i)
    BY <1>3 DEF Available, Pending, LiveRows, Ready
  <1>7. CASE UNCHANGED fib
    <2>1. FramesCalm /\ \A w : InHand(w)' \subseteq InHand(w)
      BY <1>7 DEF FramesCalm, Offering, At, InHand
    <2> QED
      BY <1>2, <1>4, <2>1, CalmKeeps
  <1>8. CASE fib' = [fib EXCEPT ![c].pc = "restore",
                      ![c].taken = {[id |-> i, row |-> rows[i]] : i \in drained}]
    <2>1. /\ fib'[c].pc = "restore" /\ fib'[c].taken = {[id |-> i, row |-> rows[i]] : i \in drained}
          /\ \A g \in Fibers \ {c} : fib'[g] = fib[g]
      BY <1>0, <1>8 DEF FramesTyped, FrameTyped
    <2>2. \A d \in Offering' : d \in Offering /\ fib'[d].copy = fib[d].copy
      BY <2>1 DEF Offering, At, Fibers
    <2> DEFINE Kept(w, x) == x \in Source(w) /\ \A i \in drained : x # <<"row", i>>
               Drained(w, x, i) == /\ <<"row", i>> \in Source(w)
                                   /\ x = <<"taken", <<c, [id |-> i, row |-> rows[i]]>>>>
    <2>3. ASSUME NEW w, NEW x \in Source(w)'
          PROVE  Kept(w, x) \/ \E i \in drained : Drained(w, x, i)
      <3>1. CASE \E i \in LiveRows' : x = <<"row", i>> /\ rows'[i].work = w
        <4>1. PICK i \in LiveRows' : x = <<"row", i>> /\ rows'[i].work = w
          BY <3>1
        <4>2. x \in Source(w)
          BY <1>4, <4>1, SourceOf DEF RowsLast
        <4>3. \A j \in drained : x # <<"row", j>>
          BY <1>5, <4>1
        <4> QED
          BY <4>2, <4>3
      <3>2. CASE \E d \in Offering' : x = <<"offer", d>> /\ fib'[d].copy.work = w
        <4>1. x \in Source(w)
          BY <2>2, <3>2, SourceOf
        <4>2. \A j \in drained : x # <<"row", j>>
          BY <3>2
        <4> QED
          BY <4>1, <4>2
      <3>3. CASE \E f \in Fibers : \E t \in fib'[f].taken : x = <<"taken", <<f, t>>>> /\ t.row.work = w
        <4>0. PICK f \in Fibers : \E t \in fib'[f].taken : x = <<"taken", <<f, t>>>> /\ t.row.work = w
          BY <3>3
        <4>1. PICK t \in fib'[f].taken : x = <<"taken", <<f, t>>>> /\ t.row.work = w
          BY <4>0
        <4>2. CASE f = c
          <5>1. PICK i \in drained : t = [id |-> i, row |-> rows[i]]
            BY <2>1, <4>2
          <5>2. rows[i].work = w /\ i \in LiveRows
            BY <1>6, <4>1, <5>1
          <5>3. <<"row", i>> \in Source(w)
            BY <5>2, SourceOf
          <5> QED
            BY <4>1, <4>2, <5>1, <5>3
        <4>3. CASE f # c
          <5>1. x \in Source(w)
            BY <2>1, <4>1, <4>3, SourceOf
          <5>2. \A j \in drained : x # <<"row", j>>
            BY <4>1
          <5> QED
            BY <5>1, <5>2
        <4> QED
          BY <4>2, <4>3
      <3> QED
        BY SourceOfNext, <3>1, <3>2, <3>3
    <2>4. OneSource'
      <3> SUFFICES ASSUME NEW w \in Works
                   PROVE  /\ \A x, y \in Source(w)' : x = y
                          /\ Source(w)' # {} => w <= Used("add")'
        BY DEF OneSource
      <3>1. \A x, y \in Source(w) : x = y
        BY DEF OneSource
      <3>2. ASSUME NEW x \in Source(w)', NEW y \in Source(w)'
            PROVE  x = y
        <4>1. CASE Kept(w, x) /\ Kept(w, y)
          BY <3>1, <4>1
        <4>2. CASE Kept(w, x) /\ \E i \in drained : Drained(w, y, i)
          BY <3>1, <4>2
        <4>3. CASE Kept(w, y) /\ \E i \in drained : Drained(w, x, i)
          BY <3>1, <4>3
        <4>4. CASE (\E i \in drained : Drained(w, x, i)) /\ (\E i \in drained : Drained(w, y, i))
          <5>1. PICK i \in drained : Drained(w, x, i)
            BY <4>4
          <5>2. PICK j \in drained : Drained(w, y, j)
            BY <4>4
          <5>3. <<"row", i>> = <<"row", j>>
            BY <3>1, <5>1, <5>2
          <5>4. i = j
            BY <5>3
          <5> QED
            BY <5>1, <5>2, <5>4
        <4> QED
          BY <2>3, <4>1, <4>2, <4>3, <4>4
      <3>3. Source(w)' # {} => Source(w) # {}
        BY <2>3
      <3>4. Source(w)' # {} => w <= Used("add")'
        <4>1. AddsLast /\ w \in Int
          BY <1>0, <1>2, UsedLast, DurableAssumption DEF Works, Events
        <4>2. Source(w) # {} => w <= Used("add")
          BY DEF OneSource
        <4> QED
          BY <3>3, <4>1, <4>2 DEF AddsLast
      <3> QED
        BY <3>2, <3>4
    <2>5. ASSUME NEW w \in Works, Open(w)'
          PROVE  Open(w)
      <3>1. CASE \E i \in LiveRows' : rows'[i].work = w /\ Ready(i)'
        BY <1>4, <3>1, OpenOf DEF ReadyLast
      <3>2. CASE \E d \in Offering' : fib'[d].copy.work = w
        BY <2>2, <3>2, OpenOf
      <3>3. CASE \E f \in Fibers : \E t \in fib'[f].taken : t.row.work = w
        <4>0. PICK f \in Fibers : \E t \in fib'[f].taken : t.row.work = w
          BY <3>3
        <4>1. PICK t \in fib'[f].taken : t.row.work = w
          BY <4>0
        <4>2. CASE f = c
          <5>1. PICK i \in drained : t = [id |-> i, row |-> rows[i]]
            BY <2>1, <4>2
          <5> QED
            BY <1>6, <4>1, <5>1, OpenOf
        <4>3. CASE f # c
          BY <2>1, <4>1, <4>3, OpenOf
        <4> QED
          BY <4>2, <4>3
      <3> QED
        BY <2>5, OpenOfNext, <3>1, <3>2, <3>3
    <2> QED
      BY <1>2, <1>4, <2>1, <2>4, <2>5, CallPaid
  <1> QED
    BY <1>1, <1>7, <1>8

(* One that was drained is offered again.                                     *)
LEMMA RestorePaid ==
    ASSUME Typed, Countable, OneSource, Paid, NEW c \in Clients, RestorePending(c)
    PROVE  OneSource' /\ Paid' /\ Countable'
  <1>0. c \in Fibers /\ TableTyped /\ FramesTyped /\ BudgetOK
    BY DEF Fibers, Typed
  <1>1. PICK t \in fib[c].taken :
          /\ \/ Offer(t.id, t.row.work, t.row.rank) /\ UNCHANGED left
             \/ Spend("fault") /\ UNCHANGED <<rows, stored, ended>>
          /\ fib' = [fib EXCEPT ![c].taken = @ \ {t},
                       ![c].pc = IF fib[c].taken = {t} THEN "idle" ELSE @]
    BY Zenon DEF RestorePending
  <1>2. Spends
    BY <1>1, SpendSpends DEF Events, Typed
  <1>3. t.id \in RowIds /\ t.row.work \in Works
    BY <1>0 DEF FramesTyped, FrameTyped
  <1>4. PICK id \in RowIds, v \in Works : id = t.id /\ v = t.row.work
    BY <1>3
  <1>5. /\ fib'[c].taken = fib[c].taken \ {t} /\ fib'[c].pc \in {"idle", "restore"}
        /\ \A g \in Fibers \ {c} : fib'[g] = fib[g]
    BY <1>0, <1>1 DEF FramesTyped, FrameTyped, RestorePending, At
  <1>6. FramesCalm
    BY <1>0, <1>5, OneMoves
  <1>7. RowsBut(id, v) /\ ReadyBut(id, v)
    <2>1. UNCHANGED boot
      BY DEF RestorePending, engine
    <2>2. CASE Offer(t.id, t.row.work, t.row.rank)
      BY <1>0, <1>4, <2>1, <2>2, OfferRows
    <2>3. CASE UNCHANGED rows
      BY <1>0, <2>1, <2>3, TableRows DEF RowsLast, ReadyLast, RowsBut, ReadyBut
    <2> QED
      BY <1>1, <2>2, <2>3
  <1>8. <<"taken", <<c, t>>>> \in Source(v) /\ Open(v)
    BY <1>0, <1>4, SourceOf, OpenOf
  <1>9. <<"taken", <<c, t>>>> \notin Source(v)'
    <2> SUFFICES ASSUME <<"taken", <<c, t>>>> \in Source(v)'
                 PROVE  FALSE
      OBVIOUS
    <2>1. PICK f \in Fibers : \E u \in fib'[f].taken : <<"taken", <<c, t>>>> = <<"taken", <<f, u>>>>
      BY SourceOfNext
    <2>2. t \in fib'[c].taken
      BY <2>1
    <2> QED
      BY <1>5, <2>2
  <1>10. AddsLast
    BY <1>0, <1>2, UsedLast
  <1>11. OneSource'
    BY <1>6, <1>7, <1>8, <1>9, <1>10, Handover
  <1>12. \A w \in Works : Open(w)' => Open(w)
    BY <1>6, <1>7, <1>8, OpenBut
  <1> QED
    BY <1>2, <1>5, <1>11, <1>12, CallPaid DEF RestorePending

LEMMA ClientPaid ==
    ASSUME Typed, Countable, OneSource, Paid, NEW c \in Clients, ClientCall(c) \/ ClientStep(c)
    PROVE  OneSource' /\ Paid' /\ Countable'
  <1>0. c \in Fibers /\ TableTyped /\ FramesTyped /\ BudgetOK
    BY DEF Fibers, Typed
  <1>1. CASE CallShutdown(c) \/ WindDown(c) \/ PurgeLanes(c) \/ CallClear(c)
               \/ FinalizeRead(c) \/ FinalizeSet(c)
    <2>1. PICK pc \in {"windDown", "idle", "final", "purge", "finish", "loop"} : GoTo(c, pc)
      BY <1>1 DEF CallShutdown, WindDown, PurgeLanes, CallClear, FinalizeRead, FinalizeSet,
                  AfterFinalize
    <2>2. FramesCalm /\ \A w : InHand(w)' \subseteq InHand(w)
      BY <1>0, <2>1, MoverCalm DEF Awaiting
    <2>3. UNCHANGED boot /\ (UNCHANGED rows \/ Delete(Pending)) /\ UNCHANGED runs
      BY <1>1 DEF CallShutdown, WindDown, PurgeLanes, CallClear, FinalizeRead, FinalizeSet, engine
    <2>4. RowsLast /\ ReadyLast
      BY <1>0, <2>3, TableRows
    <2>5. Spends
      <3>1. CASE CallClear(c)
        <4>1. "clear" \in Events /\ "fault" \in Events /\ left["clear"] > 0
          BY <3>1 DEF CallClear, Events
        <4> QED
          BY <3>1, <4>1, DurableAssumption DEF CallClear, Spends, Typed, BudgetOK
      <3>2. CASE ~CallClear(c)
        <4>1. UNCHANGED left \/ \E e \in Events : Spend(e)
          BY <1>1, <3>2 DEF CallShutdown, WindDown, PurgeLanes, FinalizeRead, FinalizeSet, Events
        <4> QED
          BY <1>0, <4>1, SpendSpends
      <3> QED
        BY <3>1, <3>2
    <2>6. UNCHANGED lanes \/ lanes' = [l \in Levels |-> <<>>]
      BY <1>1 DEF CallShutdown, WindDown, PurgeLanes, CallClear, FinalizeRead, FinalizeSet,
                  EmptyLanes
    <2> QED
      BY <2>2, <2>3, <2>4, <2>5, <2>6, CalmKeeps
  <1> QED
    BY <1>1, CallAddPaid, OfferRowPaid, ExtractPaid, RestorePaid DEF ClientCall, ClientStep

----------------------------------------------------------------------------
(* A step of the feeder or of a worker.                                      *)

Balanced(w) ==
    \E o, q, h, b, r \in Int : Shifts(w, o, q, h, b, r) /\ o + q + h + b <= r

LEMMA BalancedBy ==
    ASSUME NEW w, NEW o \in Int, NEW q \in Int, NEW h \in Int, NEW b \in Int, NEW r \in Int,
           Shifts(w, o, q, h, b, r), o + q + h + b <= r
    PROVE  Balanced(w)
BY DEF Balanced

LEMMA MovedPaid ==
    ASSUME Countable, Countable', OneSource, Paid, Spends, FramesCalm, RowsLast,
           \A w \in Works : Balanced(w)
    PROVE  OneSource' /\ Paid' /\ Countable'
  <1>1. OneSource'
    BY SourcesShrink, OneSourceShrinks, UsedLast DEF Countable
  <1>2. Paid'
    BY PaidKeeps DEF Balanced
  <1> QED
    BY <1>1, <1>2

(* An entry that the step is not about.                                      *)
LEMMA OtherBalanced ==
    ASSUME Countable, Countable', Spends, NEW w \in Works, Open(w)' => Open(w),
           Cardinality(Queued(w)') <= Cardinality(Queued(w)),
           Cardinality(InHand(w)') <= Cardinality(InHand(w)),
           begun'[w] = begun[w], failed'[w] = failed[w]
    PROVE  Balanced(w)
  <1>1. Openings(w)' <= Openings(w)
    BY OpeningsShift
  <1>2. /\ Openings(w) \in Nat /\ Cardinality(Queued(w)) \in Nat
        /\ Cardinality(InHand(w)) \in Nat /\ begun[w] \in Nat /\ failed[w] \in Nat
    BY NumbersTyped DEF Numbers
  <1>3. Reasons(w) + 0 <= Reasons(w)'
    BY <1>2, ReasonsLast
  <1>4. Shifts(w, 0, 0, 0, 0, 0)
    BY <1>1, <1>2, <1>3 DEF Shifts
  <1>5. 0 \in Int /\ 0 + 0 + 0 + 0 <= 0
    OBVIOUS
  <1> QED
    BY <1>4, <1>5 DEF Balanced

(* The feeder takes a row: its entry has no other way to begin.                *)
LEMMA FeederTakePaid ==
    ASSUME Typed, FeederIsUp, Countable, OneSource, Paid, FeederTake
    PROVE  OneSource' /\ Paid' /\ Countable'
  <1>0. Feeder \in Fibers /\ TableTyped /\ FramesTyped /\ BudgetOK
    BY DEF Fibers, Typed
  <1>1. PICK i \in RowIds, pc \in {"put", "poisoned"} :
          /\ IsTop(i) /\ Take(i)
          /\ fib' = [fib EXCEPT ![Feeder].pc = pc,
                       ![Feeder].copy = [id |-> i, work |-> rows[i].work,
                                         level |-> rows[i].rank]]
          /\ IF pc = "put" THEN UNCHANGED left ELSE Spend("poison")
    BY Zenon DEF FeederTake
  <1>2. Spends
    BY <1>1, SpendSpends DEF Typed, Events
  <1>3. i \in LiveRows /\ Ready(i) /\ rows[i].work \in Works
    BY <1>0, <1>1, PendingTyped DEF IsTop, Available, Pending, LiveRows, Ready
  <1>4. PICK v \in Works : v = rows[i].work
    BY <1>3
  <1>5. /\ fib'[Feeder].pc = pc /\ fib'[Feeder].copy.work = v
        /\ fib'[Feeder].taken = fib[Feeder].taken
        /\ \A g \in Fibers \ {Feeder} : fib'[g] = fib[g]
    BY <1>0, <1>1, <1>4 DEF FramesTyped, FrameTyped
  <1>6. FramesCalm
    BY <1>0, <1>5, OneMoves
  <1>7. RowsLast
    BY <1>0, <1>1, TableRows
  <1>8. /\ rows'[i].lease = "held"
        /\ \A j \in RowIds : j # i => rows'[j] = rows[j]
    <2>1. rows' = [rows EXCEPT ![i].lease = "held", ![i].attempts = @ + 1]
      BY <1>1 DEF Take
    <2> QED
      BY <1>0, <2>1 DEF TableTyped, RowTyped, NoRow
  <1>9. boot = "up" /\ boot' = "up"
    BY DEF FeederIsUp, FeederTake, engine
  <1>10. ReadyLast
    <2>1. ASSUME NEW j \in LiveRows', Ready(j)'
          PROVE  j # i
      BY <1>8, <1>9, <2>1 DEF Ready
    <2>2. ASSUME NEW j \in LiveRows', Ready(j)'
          PROVE  j \in LiveRows /\ Ready(j) /\ rows'[j].work = rows[j].work
      BY <1>8, <1>9, <2>1, <2>2 DEF LiveRows, Ready, Pending
    <2> QED
      BY <2>2 DEF ReadyLast
  <1>11. Open(v) /\ ~Open(v)'
    <2>1. Open(v)
      BY <1>3, <1>4, OpenOf
    <2>2. <<"row", i>> \in Source(v)
      BY <1>3, <1>4, SourceOf
    <2>3. \A x \in Source(v) : x = <<"row", i>>
      BY <2>2 DEF OneSource
    <2>4. ASSUME Open(v)'
          PROVE  FALSE
      <3>1. CASE \E j \in LiveRows' : rows'[j].work = v /\ Ready(j)'
        <4>1. PICK j \in LiveRows' : rows'[j].work = v /\ Ready(j)'
          BY <3>1
        <4>2. j \in LiveRows /\ rows[j].work = v
          BY <1>10, <4>1 DEF ReadyLast
        <4>3. <<"row", j>> \in Source(v)
          BY <4>2, SourceOf
        <4>4. j = i
          BY <2>3, <4>3
        <4> QED
          BY <1>8, <1>9, <4>1, <4>4 DEF Ready
      <3>2. CASE \E d \in Offering' : fib'[d].copy.work = v
        <4>1. PICK d \in Offering' : fib'[d].copy.work = v
          BY <3>2
        <4>2. <<"offer", d>> \in Source(v)
          BY <1>6, <4>1, SourceOf DEF FramesCalm
        <4> QED
          BY <2>3, <4>2
      <3>3. CASE \E f \in Fibers : \E t \in fib'[f].taken : t.row.work = v
        <4>1. PICK f \in Fibers : \E t \in fib'[f].taken : t.row.work = v
          BY <3>3
        <4>2. PICK t \in fib[f].taken : t.row.work = v
          BY <1>6, <4>1 DEF FramesCalm
        <4>3. <<"taken", <<f, t>>>> \in Source(v)
          BY <4>2, SourceOf
        <4> QED
          BY <2>3, <4>3
      <3> QED
        BY <2>4, OpenOfNext, <3>1, <3>2, <3>3
    <2> QED
      BY <2>1, <2>4
  <1>12. UNCHANGED <<lanes, begun, failed>>
    BY DEF FeederTake, runs
  <1>13. Countable' /\ \A w : Queued(w)' = Queued(w)
    BY <1>2, <1>12, LanesCountable DEF Countable
  <1>14. ASSUME NEW w \in Works
         PROVE  Balanced(w)
    <2>1. /\ Openings(w) \in Nat /\ Cardinality(Queued(w)) \in Nat
          /\ Cardinality(InHand(w)) \in Nat /\ begun[w] \in Nat /\ failed[w] \in Nat
      BY NumbersTyped DEF Numbers
    <2>2. Feeder \in Workers \cup {Feeder}
      OBVIOUS
    <2>3. CASE w = v
      <3>1. Openings(w)' <= Openings(w) + (0 - 1)
        BY <1>11, <2>3, OpeningsShift
      <3>2. Cardinality(InHand(w)') <= Cardinality(InHand(w)) + 1
        BY <1>5, <2>2, HandCounted
      <3>3. Reasons(w) + 0 <= Reasons(w)'
        BY <1>2, <1>12, <1>13, <2>1, ReasonsLast
      <3>4. Shifts(w, 0 - 1, 0, 1, 0, 0)
        BY <1>12, <1>13, <2>1, <3>1, <3>2, <3>3 DEF Shifts
      <3>5. 0 - 1 \in Int /\ (0 - 1) + 0 + 1 + 0 <= 0
        OBVIOUS
      <3> QED
        BY <3>4, <3>5, BalancedBy
    <2>4. CASE w # v
      <3>1. Feeder \notin InHand(w)'
        BY <1>5, <2>4 DEF InHand
      <3>2. Cardinality(InHand(w)') <= Cardinality(InHand(w))
        BY <1>5, <2>2, <3>1, HandCounted
      <3>3. Open(w)' => Open(w)
        BY <1>6, <1>10, OpenLast
      <3> QED
        BY <1>2, <1>12, <1>13, <2>1, <3>2, <3>3, OtherBalanced
    <2> QED
      BY <2>3, <2>4
  <1> QED
    BY <1>2, <1>6, <1>7, <1>13, <1>14, MovedPaid

(* The copy goes into a lane.                                                 *)
LEMMA FeederPutPaid ==
    ASSUME Typed, Countable, OneSource, Paid, FeederPut
    PROVE  OneSource' /\ Paid' /\ Countable'
  <1>0. Feeder \in Fibers /\ TableTyped /\ FramesTyped /\ LanesTyped /\ BudgetOK
    BY DEF Fibers, Typed
  <1>1. PICK copy \in CopyRecords : copy = fib[Feeder].copy
    BY <1>0 DEF FeederPut, At, Holding, FramesTyped, FrameTyped
  <1>2. copy.work \in Works /\ lanes' = [lanes EXCEPT ![copy.level] = Append(@, copy)]
    BY <1>1 DEF FeederPut, CopyRecords
  <1>3. Spends /\ UNCHANGED <<rows, boot, begun, failed>>
    BY SpendSpends DEF FeederPut, engine, runs, Typed
  <1>4. /\ FramesCalm /\ fib'[Feeder].pc = "feed"
        /\ \A g \in Fibers \ {Feeder} : fib'[g] = fib[g]
    BY <1>0, MoverCalm DEF FeederPut
  <1>5. RowsLast /\ ReadyLast
    BY <1>0, <1>3, TableRows
  <1>6. \A w \in Works :
          /\ IsFiniteSet(Queued(w)')
          /\ Cardinality(Queued(w)') <= Cardinality(Queued(w)) + 1
          /\ copy.work # w => Cardinality(Queued(w)') <= Cardinality(Queued(w))
    BY <1>0, <1>2, PutCounted DEF Countable
  <1>7. Countable'
    BY <1>3, <1>6 DEF Countable, Spends
  <1>8. ASSUME NEW w \in Works
        PROVE  Balanced(w)
    <2>1. /\ Openings(w) \in Nat /\ Cardinality(Queued(w)) \in Nat
          /\ Cardinality(InHand(w)) \in Nat /\ begun[w] \in Nat /\ failed[w] \in Nat
      BY NumbersTyped DEF Numbers
    <2>2. Feeder \in Workers \cup {Feeder} /\ Feeder \notin InHand(w)'
      BY <1>4 DEF InHand, Awaiting
    <2>3. Open(w)' => Open(w)
      BY <1>4, <1>5, OpenLast
    <2>4. CASE w = copy.work
      <3>1. Openings(w)' <= Openings(w)
        BY <2>3, OpeningsShift
      <3>2. Feeder \in InHand(w)
        BY <1>1, <2>4 DEF InHand, Awaiting, FeederPut, At
      <3>3. Cardinality(InHand(w)') + 1 <= Cardinality(InHand(w)) /\ Cardinality(InHand(w)') \in Nat
        BY <1>4, <2>2, <3>2, HandCounted
      <3>4. Reasons(w) + 0 <= Reasons(w)'
        BY <1>3, <1>7, <2>1, ReasonsLast
      <3>5. Cardinality(InHand(w)') <= Cardinality(InHand(w)) + (0 - 1)
        BY <2>1, <3>3
      <3>6. Shifts(w, 0, 1, 0 - 1, 0, 0)
        BY <1>3, <1>6, <2>1, <3>1, <3>4, <3>5 DEF Shifts
      <3>7. 0 - 1 \in Int /\ 0 + 1 + (0 - 1) + 0 <= 0
        OBVIOUS
      <3> QED
        BY <3>6, <3>7, BalancedBy
    <2>5. CASE w # copy.work
      <3>1. Cardinality(InHand(w)') <= Cardinality(InHand(w))
        BY <1>4, <2>2, HandCounted
      <3> QED
        BY <1>3, <1>6, <1>7, <2>3, <2>5, <3>1, OtherBalanced
    <2> QED
      BY <2>4, <2>5
  <1> QED
    BY <1>3, <1>4, <1>5, <1>7, <1>8, MovedPaid

(* A worker takes it out.                                                    *)
LEMMA TakeNextPaid ==
    ASSUME Typed, Countable, OneSource, Paid, NEW worker \in Workers, TakeNext(worker)
    PROVE  OneSource' /\ Paid' /\ Countable'
  <1>0. worker \in Fibers /\ TableTyped /\ FramesTyped /\ LanesTyped /\ BudgetOK
    BY DEF Fibers, Typed
  <1>1. PICK l \in Levels :
          /\ lanes[l] # <<>>
          /\ fib' = [fib EXCEPT ![worker].pc = "took", ![worker].copy = Head(lanes[l])]
          /\ lanes' = [lanes EXCEPT ![l] = Tail(@)]
    BY DEF TakeNext
  <1>2. PICK copy \in CopyRecords : copy = Head(lanes[l])
    BY <1>0, <1>1, TailTyped
  <1>3. Spends /\ UNCHANGED <<rows, boot, begun, failed>>
    BY SpendSpends DEF TakeNext, engine, runs, Typed
  <1>4. /\ fib'[worker].pc = "took" /\ fib'[worker].copy = copy
        /\ fib'[worker].taken = fib[worker].taken
        /\ \A g \in Fibers \ {worker} : fib'[g] = fib[g]
    BY <1>0, <1>1, <1>2 DEF FramesTyped, FrameTyped
  <1>5. FramesCalm /\ RowsLast /\ ReadyLast
    BY <1>0, <1>3, <1>4, OneMoves, TableRows
  <1>6. \A w \in Works :
          /\ IsFiniteSet(Queued(w)')
          /\ Cardinality(Queued(w)') <= Cardinality(Queued(w)) /\ Cardinality(Queued(w)') \in Nat
          /\ copy.work = w => Cardinality(Queued(w)') + 1 <= Cardinality(Queued(w))
    BY <1>0, <1>1, <1>2, TakeCounted DEF Countable
  <1>7. Countable'
    BY <1>3, <1>6 DEF Countable, Spends
  <1>8. ASSUME NEW w \in Works
        PROVE  Balanced(w)
    <2>1. /\ Openings(w) \in Nat /\ Cardinality(Queued(w)) \in Nat
          /\ Cardinality(InHand(w)) \in Nat /\ begun[w] \in Nat /\ failed[w] \in Nat
      BY NumbersTyped DEF Numbers
    <2>2. Open(w)' => Open(w)
      BY <1>5, OpenLast
    <2>3. CASE w = copy.work
      <3>1. Openings(w)' <= Openings(w)
        BY <2>2, OpeningsShift
      <3>2. Cardinality(InHand(w)') <= Cardinality(InHand(w)) + 1
        BY <1>4, HandCounted
      <3>3. Reasons(w) + 0 <= Reasons(w)'
        BY <1>3, <1>7, <2>1, ReasonsLast
      <3>4. Cardinality(Queued(w)') <= Cardinality(Queued(w)) + (0 - 1)
        BY <1>6, <2>1, <2>3
      <3>5. Shifts(w, 0, 0 - 1, 1, 0, 0)
        BY <1>3, <2>1, <3>1, <3>2, <3>3, <3>4 DEF Shifts
      <3>6. 0 - 1 \in Int /\ 0 + (0 - 1) + 1 + 0 <= 0
        OBVIOUS
      <3> QED
        BY <3>5, <3>6, BalancedBy
    <2>4. CASE w # copy.work
      <3>1. worker \notin InHand(w)'
        BY <1>4, <2>4 DEF InHand
      <3>2. Cardinality(InHand(w)') <= Cardinality(InHand(w))
        BY <1>4, <3>1, HandCounted
      <3> QED
        BY <1>3, <1>6, <1>7, <2>2, <3>2, OtherBalanced
    <2> QED
      BY <2>3, <2>4
  <1> QED
    BY <1>3, <1>5, <1>7, <1>8, MovedPaid

(* The effect begins: the copy is used up.                                    *)
LEMMA StartItemPaid ==
    ASSUME Typed, Countable, OneSource, Paid, NEW worker \in Workers, StartItem(worker)
    PROVE  OneSource' /\ Paid' /\ Countable'
  <1>0. worker \in Fibers /\ TableTyped /\ FramesTyped /\ BudgetOK
    BY DEF Fibers, Typed
  <1>1. PICK v \in Works : v = fib[worker].copy.work
    BY <1>0 DEF StartItem, At, Holding, FramesTyped, FrameTyped, CopyRecords
  <1>2. Spends /\ UNCHANGED <<rows, lanes, boot, failed>>
    BY SpendSpends DEF StartItem, Typed
  <1>3. /\ FramesCalm /\ fib'[worker].pc = "running"
        /\ \A g \in Fibers \ {worker} : fib'[g] = fib[g]
    BY <1>0, MoverCalm DEF StartItem
  <1>4. RowsLast /\ ReadyLast
    BY <1>0, <1>2, TableRows
  <1>5. begun' = [begun EXCEPT ![v] = @ + 1]
    BY <1>1 DEF StartItem
  <1>6. /\ begun' \in [Works -> Nat] /\ failed' \in [Works -> Nat] /\ begun'[v] = begun[v] + 1
        /\ \A w \in Works : w # v => begun'[w] = begun[w]
    BY <1>2, <1>5 DEF Countable
  <1>7. Countable' /\ \A w : Queued(w)' = Queued(w)
    BY <1>2, <1>6, LanesCountable
  <1>8. ASSUME NEW w \in Works
        PROVE  Balanced(w)
    <2>1. /\ Openings(w) \in Nat /\ Cardinality(Queued(w)) \in Nat
          /\ Cardinality(InHand(w)) \in Nat /\ begun[w] \in Nat /\ failed[w] \in Nat
      BY NumbersTyped DEF Numbers
    <2>2. worker \notin InHand(w)'
      BY <1>3 DEF InHand, Awaiting
    <2>3. Open(w)' => Open(w)
      BY <1>3, <1>4, OpenLast
    <2>4. CASE w = v
      <3>1. Openings(w)' <= Openings(w)
        BY <2>3, OpeningsShift
      <3>2. worker \in InHand(w)
        BY <1>1, <2>4 DEF InHand, Awaiting, StartItem, At
      <3>3. Cardinality(InHand(w)') + 1 <= Cardinality(InHand(w)) /\ Cardinality(InHand(w)') \in Nat
        BY <1>3, <2>2, <3>2, HandCounted
      <3>4. Reasons(w) + 0 <= Reasons(w)'
        BY <1>2, <1>7, <2>1, ReasonsLast
      <3>5. Cardinality(InHand(w)') <= Cardinality(InHand(w)) + (0 - 1)
        BY <2>1, <3>3
      <3>6. begun'[w] <= begun[w] + 1
        BY <1>6, <2>1, <2>4
      <3>7. Shifts(w, 0, 0, 0 - 1, 1, 0)
        BY <1>7, <2>1, <3>1, <3>4, <3>5, <3>6 DEF Shifts
      <3>8. 0 - 1 \in Int /\ 0 + 0 + (0 - 1) + 1 <= 0
        OBVIOUS
      <3> QED
        BY <3>7, <3>8, BalancedBy
    <2>5. CASE w # v
      <3>1. Cardinality(InHand(w)') <= Cardinality(InHand(w))
        BY <1>3, <2>2, HandCounted
      <3> QED
        BY <1>2, <1>6, <1>7, <2>1, <2>3, <2>5, <3>1, OtherBalanced
    <2> QED
      BY <2>4, <2>5
  <1> QED
    BY <1>2, <1>3, <1>4, <1>7, <1>8, MovedPaid

(* It fails, which is a reason to begin again, or it is done.                  *)
LEMMA EffectExitsPaid ==
    ASSUME Typed, Countable, OneSource, Paid, NEW worker \in Workers, EffectExits(worker)
    PROVE  OneSource' /\ Paid' /\ Countable'
  <1>0. worker \in Fibers /\ TableTyped /\ FramesTyped /\ BudgetOK
    BY DEF Fibers, Typed
  <1>1. PICK v \in Works : v = fib[worker].copy.work
    BY <1>0 DEF EffectExits, At, Holding, FramesTyped, FrameTyped, CopyRecords
  <1>2. UNCHANGED <<rows, lanes, boot, begun>>
    BY DEF EffectExits
  <1>3. RowsLast /\ ReadyLast
    BY <1>0, <1>2, TableRows
  <1>4. CASE GoTo(worker, "complete") /\ UNCHANGED <<left, failed>>
    <2>1. FramesCalm /\ \A w : InHand(w)' \subseteq InHand(w)
      BY <1>0, <1>4, MoverCalm DEF Awaiting
    <2>2. Spends
      BY <1>0, <1>4, SpendSpends
    <2> QED
      BY <1>2, <1>3, <1>4, <2>1, <2>2, CalmKeeps DEF runs
  <1>5. CASE /\ Spend("failure") /\ failed' = [failed EXCEPT ![v] = @ + 1]
             /\ \E d \in Dispositions : GoTo(worker, IF StoreRetries(d) THEN "fail" ELSE "complete")
    <2>1. PICK pc \in {"fail", "complete"} : GoTo(worker, pc)
      BY <1>5
    <2>2. /\ FramesCalm /\ fib'[worker].pc = pc
          /\ \A g \in Fibers \ {worker} : fib'[g] = fib[g]
      BY <1>0, <2>1, MoverCalm
    <2>3. fib'[worker].copy.work = v
      BY <1>0, <1>1, <2>1 DEF GoTo, FramesTyped, FrameTyped
    <2>4. Spends
      BY <1>0, <1>5, SpendSpends DEF Events
    <2>5. /\ begun' \in [Works -> Nat] /\ failed' \in [Works -> Nat] /\ failed'[v] = failed[v] + 1
          /\ \A w \in Works : w # v => failed'[w] = failed[w]
      BY <1>2, <1>5 DEF Countable
    <2>6. Countable' /\ \A w : Queued(w)' = Queued(w)
      BY <1>2, <2>4, <2>5, LanesCountable
    <2>7. ASSUME NEW w \in Works
          PROVE  Balanced(w)
      <3>1. /\ Openings(w) \in Nat /\ Cardinality(Queued(w)) \in Nat
            /\ Cardinality(InHand(w)) \in Nat /\ begun[w] \in Nat /\ failed[w] \in Nat
        BY NumbersTyped DEF Numbers
      <3>2. Open(w)' => Open(w)
        BY <1>3, <2>2, OpenLast
      <3>3. CASE w = v
        <4>1. Openings(w)' <= Openings(w)
          BY <3>2, OpeningsShift
        <4>2. Cardinality(InHand(w)') <= Cardinality(InHand(w)) + 1
          BY <2>2, HandCounted
        <4>3. failed[w] + 1 <= failed'[w]
          BY <2>5, <3>1, <3>3
        <4>4. Reasons(w) + 1 <= Reasons(w)'
          BY <2>4, <2>6, <4>3, ReasonsLast
        <4>5. Shifts(w, 0, 0, 1, 0, 1)
          BY <1>2, <2>6, <3>1, <4>1, <4>2, <4>4 DEF Shifts
        <4> QED
          BY <4>5, BalancedBy
      <3>4. CASE w # v
        <4>1. worker \notin InHand(w)'
          BY <2>3, <3>4 DEF InHand
        <4>2. Cardinality(InHand(w)') <= Cardinality(InHand(w))
          BY <2>2, <4>1, HandCounted
        <4> QED
          BY <1>2, <2>4, <2>5, <2>6, <3>1, <3>2, <3>4, <4>2, OtherBalanced
      <3> QED
        BY <3>3, <3>4
    <2> QED
      BY <1>3, <2>2, <2>4, <2>6, <2>7, MovedPaid
  <1> QED
    BY <1>1, <1>4, <1>5 DEF EffectExits

(* The failure is told, and the row may be taken again. The row of the copy is  *)
(* that of its entry.                                                        *)
LEMMA PersistFailPaid ==
    ASSUME Typed, Named, Countable, OneSource, Paid, NEW worker \in Workers, PersistFail(worker)
    PROVE  OneSource' /\ Paid' /\ Countable'
  <1>0. worker \in Fibers /\ TableTyped /\ FramesTyped /\ BudgetOK /\ fib[worker].pc \in Holding
    BY DEF Fibers, Typed, PersistFail, At, Holding
  <1>1. PICK copy \in CopyRecords : copy = fib[worker].copy
    BY <1>0 DEF FramesTyped, FrameTyped
  <1>2. copy.id \in RowIds /\ copy.work \in Works
    BY DEF CopyRecords
  <1>3. Spends /\ UNCHANGED <<lanes, boot, begun, failed>>
    BY SpendSpends DEF PersistFail, engine, runs, Typed, Events
  <1>4. /\ FramesCalm /\ fib'[worker].pc = "final"
        /\ \A g \in Fibers \ {worker} : fib'[g] = fib[g]
        /\ \A w : InHand(w)' \subseteq InHand(w)
    BY <1>0, MoverCalm DEF PersistFail, Awaiting
  <1>5. RowsLast
    BY <1>0, TableRows DEF PersistFail
  <1>6. CASE UNCHANGED rows
    <2>1. ReadyLast
      BY <1>0, <1>3, <1>6, TableRows
    <2> QED
      BY <1>3, <1>4, <1>5, <2>1, CalmKeeps DEF runs
  <1>7. CASE FailRow(copy.id)
    <2>1. \A j \in RowIds : j # copy.id => rows'[j] = rows[j]
      BY <1>0, <1>7 DEF FailRow, TableTyped
    <2>2. copy.id \in LiveRows => rows[copy.id].work = copy.work
      <3>1. <<copy.id, copy.work>> \in Names
        BY <1>0, <1>1 DEF Names, Held, HandOf
      <3>2. copy.id \in LiveRows => <<copy.id, rows[copy.id].work>> \in Names
        BY DEF Names, RowNames
      <3> QED
        BY <3>1, <3>2 DEF Named, OneEntryPerId
    <2>3. ReadyBut(copy.id, copy.work)
      <3> SUFFICES ASSUME NEW j \in LiveRows', Ready(j)'
                   PROVE  \/ j \in LiveRows /\ Ready(j) /\ rows'[j].work = rows[j].work
                          \/ j = copy.id /\ rows'[j].work = copy.work
        BY DEF ReadyBut
      <3>1. j \in LiveRows /\ rows'[j].work = rows[j].work
        BY <1>5 DEF RowsLast
      <3>2. CASE j = copy.id
        BY <2>2, <3>1, <3>2
      <3>3. CASE j # copy.id
        BY <1>3, <2>1, <3>1, <3>3 DEF Ready, Pending, LiveRows
      <3> QED
        BY <3>2, <3>3
    <2>4. Countable' /\ \A w : Queued(w)' = Queued(w)
      BY <1>3, LanesCountable DEF Countable
    <2>5. ASSUME NEW w \in Works
          PROVE  Balanced(w)
      <3>1. /\ Openings(w) \in Nat /\ Cardinality(Queued(w)) \in Nat
            /\ Cardinality(InHand(w)) \in Nat /\ begun[w] \in Nat /\ failed[w] \in Nat
        BY NumbersTyped DEF Numbers
      <3>2. worker \notin InHand(w)'
        BY <1>4 DEF InHand, Awaiting
      <3>3. CASE w = copy.work
        <4>1. Openings(w)' <= Openings(w) + 1
          BY OpeningsShift
        <4>2. worker \in InHand(w)
          BY <1>1, <3>3 DEF InHand, Awaiting, PersistFail, At
        <4>3. Cardinality(InHand(w)') + 1 <= Cardinality(InHand(w)) /\ Cardinality(InHand(w)') \in Nat
          BY <1>4, <3>2, <4>2, HandCounted
        <4>4. Reasons(w) + 0 <= Reasons(w)'
          BY <1>3, <2>4, <3>1, ReasonsLast
        <4>5. Cardinality(InHand(w)') <= Cardinality(InHand(w)) + (0 - 1)
          BY <3>1, <4>3
        <4>6. Shifts(w, 1, 0, 0 - 1, 0, 0)
          BY <1>3, <2>4, <3>1, <4>1, <4>4, <4>5 DEF Shifts
        <4>7. 0 - 1 \in Int /\ 1 + 0 + (0 - 1) + 0 <= 0
          OBVIOUS
        <4> QED
          BY <4>6, <4>7, BalancedBy
      <3>4. CASE w # copy.work
        <4>1. Cardinality(InHand(w)') <= Cardinality(InHand(w))
          BY <1>4, <3>2, HandCounted
        <4>2. Open(w)' => Open(w)
          BY <1>4, <2>3, <3>4, OpenBut
        <4> QED
          BY <1>3, <2>4, <3>1, <4>1, <4>2, OtherBalanced
      <3> QED
        BY <3>3, <3>4
    <2> QED
      BY <1>3, <1>4, <1>5, <2>4, <2>5, MovedPaid
  <1> QED
    BY <1>1, <1>6, <1>7 DEF PersistFail

(* The steps that only move the worker or the feeder, or end an entry.          *)
LEMMA HandCalm ==
    ASSUME Typed, Countable, OneSource, Paid, NEW f \in Workers \cup {Feeder},
           NEW pc, GoTo(f, pc) \/ DropsCopy(f, pc), pc \notin Awaiting \cup {"offer"},
           UNCHANGED rows \/ (\E ids : Delete(ids)), UNCHANGED <<lanes, boot, runs>>,
           UNCHANGED left \/ \E e \in Events : Spend(e)
    PROVE  OneSource' /\ Paid' /\ Countable'
  <1>0. f \in Fibers /\ TableTyped /\ FramesTyped /\ BudgetOK
    BY DEF Fibers, Typed
  <1>1. FramesCalm /\ \A w : InHand(w)' \subseteq InHand(w)
    BY <1>0, MoverCalm
  <1>2. RowsLast /\ ReadyLast
    BY <1>0, TableRows
  <1>3. Spends
    BY <1>0, SpendSpends
  <1> QED
    BY <1>1, <1>2, <1>3, CalmKeeps

LEMMA WorkerPaid ==
    ASSUME Typed, Named, Countable, OneSource, Paid, NEW w \in Workers, WorkerStep(w)
    PROVE  OneSource' /\ Paid' /\ Countable'
  <1>0. w # Feeder
    BY DurableAssumption
  <1>1. CASE WorkerLoop(w) \/ TakeNextEmpty(w) \/ FinalizeRead(w) \/ FinalizeSet(w)
               \/ SkipRateLimitedItem(w) \/ Complete(w)
    <2>1. PICK pc \in {"gone", "take", "finish", "loop", "final"} : GoTo(w, pc) \/ DropsCopy(w, pc)
      BY <1>0, <1>1 DEF WorkerLoop, TakeNextEmpty, FinalizeRead, FinalizeSet, AfterFinalize,
                        SkipRateLimitedItem, Complete
    <2>2. pc \notin Awaiting \cup {"offer"}
      BY DEF Awaiting
    <2>3. UNCHANGED rows \/ \E ids : Delete(ids)
      BY <1>1 DEF WorkerLoop, TakeNextEmpty, FinalizeRead, FinalizeSet, SkipRateLimitedItem,
                  Complete
    <2>4. UNCHANGED <<lanes, boot, runs>>
      BY <1>1 DEF WorkerLoop, TakeNextEmpty, FinalizeRead, FinalizeSet, SkipRateLimitedItem,
                  Complete, engine
    <2>5. UNCHANGED left \/ \E e \in Events : Spend(e)
      BY <1>1 DEF WorkerLoop, TakeNextEmpty, FinalizeRead, FinalizeSet, SkipRateLimitedItem,
                  Complete, Events
    <2> QED
      BY <2>1, <2>2, <2>3, <2>4, <2>5, HandCalm
  <1> QED
    BY <1>1, TakeNextPaid, StartItemPaid, EffectExitsPaid, PersistFailPaid DEF WorkerStep

LEMMA FeederPaid ==
    ASSUME Typed, FeederIsUp, Countable, OneSource, Paid, FeederStep
    PROVE  OneSource' /\ Paid' /\ Countable'
  <1>1. CASE FeederCheck \/ FeederFindsNone \/ Complete(Feeder)
    <2>1. PICK pc \in {"gone", "lease", "feed"} : GoTo(Feeder, pc) \/ DropsCopy(Feeder, pc)
      BY <1>1 DEF FeederCheck, FeederFindsNone, Complete
    <2>2. pc \notin Awaiting \cup {"offer"}
      BY DEF Awaiting
    <2>3. UNCHANGED rows \/ \E ids : Delete(ids)
      BY <1>1 DEF FeederCheck, FeederFindsNone, Complete
    <2>4. UNCHANGED <<lanes, boot, runs>>
      BY <1>1 DEF FeederCheck, FeederFindsNone, Complete, engine
    <2>5. UNCHANGED left \/ \E e \in Events : Spend(e)
      BY <1>1 DEF FeederCheck, FeederFindsNone, Complete, Events
    <2> QED
      BY <2>1, <2>2, <2>3, <2>4, <2>5, HandCalm
  <1> QED
    BY <1>1, FeederTakePaid, FeederPutPaid DEF FeederStep

----------------------------------------------------------------------------
(* The engine starts, a lease runs out, the engine dies.                       *)

LEMMA StartPaid ==
    ASSUME Typed, Countable, OneSource, Paid, Start
    PROVE  OneSource' /\ Paid' /\ Countable'
  <1>0. TableTyped /\ BudgetOK
    BY DEF Typed
  <1>1. UNCHANGED <<lanes, fib, runs>>
    BY DEF Start, ClaimStart, RecoverAndFork
  <1>2. FramesCalm /\ \A w : InHand(w)' \subseteq InHand(w)
    BY <1>1 DEF FramesCalm, Offering, At, InHand
  <1>3. Spends
    BY SpendSpends DEF Typed, Start, ClaimStart, RecoverAndFork, Events
  <1>4. RowsLast
    BY <1>0, TableRows DEF Start, ClaimStart, RecoverAndFork
  <1>5. \A j \in RowIds : rows'[j].status = rows[j].status
    BY <1>0 DEF Start, ClaimStart, RecoverAndFork, Recover, TableTyped, RowTyped, NoRow
  <1>6. boot # "up"
    BY DEF Start, ClaimStart, RecoverAndFork
  <1>7. ReadyLast
    BY <1>4, <1>5, <1>6 DEF ReadyLast, RowsLast, Ready, Pending
  <1> QED
    BY <1>1, <1>2, <1>3, <1>4, <1>7, CalmKeeps

(* A step that opens what it likes, for a reason every entry has.              *)
LEMMA ReasonForAll ==
    ASSUME Countable, Countable', OneSource, Paid, Spends, FramesCalm, RowsLast,
           UNCHANGED runs, \A w : Queued(w)' \subseteq Queued(w), \A w : InHand(w)' \subseteq InHand(w),
           \/ Used("crash") + 1 <= Used("crash")'
           \/ Used("expire") + 1 <= Used("expire")'
    PROVE  OneSource' /\ Paid' /\ Countable'
  <1>1. ASSUME NEW w \in Works
        PROVE  Balanced(w)
    <2>1. /\ Openings(w) \in Nat /\ Cardinality(Queued(w)) \in Nat
          /\ Cardinality(InHand(w)) \in Nat /\ begun[w] \in Nat /\ failed[w] \in Nat
      BY NumbersTyped DEF Numbers
    <2>2. Openings(w)' <= Openings(w) + 1
      BY OpeningsShift
    <2>3. Cardinality(Queued(w)') <= Cardinality(Queued(w))
      BY FS_Subset DEF Countable
    <2>4. IsFiniteSet(Workers \cup {Feeder})
      BY CountsFinite, FS_AddElement
    <2>5. IsFiniteSet(InHand(w))
      BY <2>4, FS_Subset DEF InHand
    <2>6. Cardinality(InHand(w)') <= Cardinality(InHand(w))
      BY <2>5, FS_Subset
    <2>7. begun'[w] = begun[w] /\ failed'[w] = failed[w]
      BY DEF runs
    <2>8. failed[w] <= failed'[w]
      BY <2>1, <2>7
    <2>9. Reasons(w) + 1 <= Reasons(w)'
      BY <2>8, ReasonsLast
    <2>10. Shifts(w, 1, 0, 0, 0, 1)
      BY <2>1, <2>2, <2>3, <2>6, <2>7, <2>9 DEF Shifts
    <2> QED
      BY <2>10, BalancedBy
  <1> QED
    BY <1>1, MovedPaid

LEMMA ExpiryPaid ==
    ASSUME Typed, Countable, OneSource, Paid, NEW i \in RowIds, LeaseExpires(i)
    PROVE  OneSource' /\ Paid' /\ Countable'
  <1>0. TableTyped /\ BudgetOK
    BY DEF Typed
  <1>1. UNCHANGED <<lanes, fib, runs>>
    BY DEF LeaseExpires
  <1>2. FramesCalm /\ \A w : InHand(w)' \subseteq InHand(w)
    BY <1>1 DEF FramesCalm, Offering, At, InHand
  <1>3. Spends
    BY SpendSpends DEF Typed, LeaseExpires, Events
  <1>4. RowsLast
    BY <1>0, TableRows
  <1>5. Countable' /\ \A w : Queued(w)' = Queued(w)
    BY <1>1, <1>3, LanesCountable DEF runs, Countable
  <1>6. Used("expire") + 1 <= Used("expire")'
    <2>1. /\ left["expire"] \in Nat /\ Budget["expire"] \in Nat
          /\ left'["expire"] = left["expire"] - 1
      BY <1>0, DurableAssumption DEF LeaseExpires, Spend, BudgetOK, Events
    <2> QED
      BY <2>1 DEF Used
  <1> QED
    BY <1>1, <1>2, <1>3, <1>4, <1>5, <1>6, ReasonForAll

LEMMA CrashPaid ==
    ASSUME Typed, Countable, OneSource, Paid, Crash
    PROVE  OneSource' /\ Paid' /\ Countable'
  <1>0. TableTyped /\ BudgetOK
    BY DEF Typed
  <1>1. \A f \in Fibers : fib'[f].pc \notin Holding \cup {"offer"} /\ fib'[f].taken = {}
    BY FreshTyped DEF Crash
  <1>2. FramesCalm /\ \A w : InHand(w)' = {}
    BY <1>1 DEF FramesCalm, Offering, At, InHand, Fibers, Holding, Awaiting
  <1>3. Spends
    BY SpendSpends DEF Typed, Crash, Events
  <1>4. RowsLast
    BY <1>0, TableRows DEF Crash
  <1>5. lanes' = [l \in Levels |-> <<>>] /\ UNCHANGED runs
    BY DEF Crash
  <1>6. Countable' /\ \A w : Queued(w)' = {}
    BY <1>3, <1>5, LanesCountable DEF runs, Countable
  <1>7. Used("crash") + 1 <= Used("crash")'
    <2>1. /\ left["crash"] \in Nat /\ Budget["crash"] \in Nat
          /\ left'["crash"] = left["crash"] - 1
      BY <1>0, DurableAssumption DEF Crash, Spend, BudgetOK, Events
    <2> QED
      BY <2>1 DEF Used
  <1> QED
    BY <1>2, <1>3, <1>4, <1>5, <1>6, <1>7, ReasonForAll

LEMMA NextPaid ==
    ASSUME Typed, FeederIsUp, Named, Countable, OneSource, Paid, [Next]_vars
    PROVE  OneSource' /\ Paid' /\ Countable'
  <1>1. CASE UNCHANGED vars
    <2>1. UNCHANGED <<rows, lanes, fib, boot, runs, left>>
      BY <1>1 DEF vars, engine
    <2>2. FramesCalm /\ \A w : InHand(w)' \subseteq InHand(w)
      BY <2>1 DEF FramesCalm, Offering, At, InHand
    <2>3. Spends /\ RowsLast /\ ReadyLast
      BY <2>1, SpendSpends, TableRows DEF Typed
    <2> QED
      BY <2>1, <2>2, <2>3, CalmKeeps
  <1>2. CASE Next
    BY <1>2, ClientPaid, WorkerPaid, FeederPaid, StartPaid, ExpiryPaid, CrashPaid DEF Next
  <1> QED
    BY <1>1, <1>2

LEMMA InitPaid ==
    ASSUME Init
    PROVE  OneSource /\ Paid /\ Countable
  <1>1. LiveRows = {}
    BY DEF Init, LiveRows, NoRow
  <1>2. \A f \in Fibers : fib[f].pc \notin Holding \cup {"offer"} /\ fib[f].taken = {}
    BY FreshTyped DEF Init
  <1>3. Offering = {}
    BY <1>2 DEF Offering, At, Fibers
  <1>4. \A w : Source(w) = {} /\ ~Open(w)
    BY <1>1, <1>2, <1>3, SourceOf, OpenOf
  <1>5. \A w : InHand(w) = {} /\ Queued(w) = {}
    BY <1>2 DEF Init, InHand, Queued, Fibers, Holding, Awaiting
  <1>6. Countable
    BY <1>5, InitTyped, FS_EmptySet DEF Countable, Typed, Init
  <1>7. OneSource
    BY <1>4 DEF OneSource
  <1>8. Paid
    <2> SUFFICES ASSUME NEW w \in Works
                 PROVE  begun[w] + Chances(w) <= Reasons(w)
      BY DEF Paid
    <2>1. Chances(w) = 0
      BY <1>4, <1>5, FS_EmptySet DEF Chances, Openings
    <2>2. begun[w] = 0
      BY DEF Init
    <2>3. Reasons(w) \in Nat
      BY <1>6, NumbersTyped DEF Numbers, Reasons
    <2> QED
      BY <2>1, <2>2, <2>3
  <1> QED
    BY <1>6, <1>7, <1>8

(* An effect begins again on an entry for a reason: each beginning is paid for   *)
(* by the add, a failure, a crash or a lease that ran out, and what could begin   *)
(* still is counted with it (durableQueue.ts, take, fail and recover;            *)
(* queueResource.ts, feederLoop and processItem). The hypothesis is that of      *)
(* StoredIsKept: a fail told for another entry's row would open it for nothing.  *)
THEOREM RerunsHaveReasons == Spec /\ AddsBeforeCrash => []NoSpuriousRerun
  <1> DEFINE I == Typed /\ Named /\ Countable /\ OneSource /\ Paid
  <1>1. Init => I
    BY InitTyped, InitNamed, InitPaid
  <1>2. I /\ IInv /\ [Next]_vars /\ [AddsNoMore]_vars => I'
    <2>1. UNCHANGED vars => AddsNoMore
      BY DEF vars, AddsNoMore
    <2> QED
      BY <2>1, NextTyped, NextNamed, NextPaid DEF IInv
  <1>3. I => NoSpuriousRerun
    <2> SUFFICES ASSUME I, NEW w \in Works
                 PROVE  begun[w] <= 1 + failed[w] + Used("crash") + Used("expire")
      BY DEF NoSpuriousRerun
    <2>1. Numbers
      BY NumbersTyped
    <2>2. Arrived(w) <= 1
      BY DEF Arrived
    <2>3. begun[w] + Openings(w) + Cardinality(Queued(w)) + Cardinality(InHand(w))
            <= Arrived(w) + failed[w] + Used("crash") + Used("expire")
      <3>1. Openings(w) + Cardinality(Queued(w)) + Cardinality(InHand(w)) \in Nat
            /\ begun[w] \in Nat
        BY <2>1 DEF Numbers
      <3>2. begun[w] + Chances(w) <= Reasons(w)
        BY DEF Paid
      <3> QED
        BY <2>1, <3>1, <3>2 DEF Chances, Reasons, Numbers
    <2> QED
      BY <2>1, <2>2, <2>3 DEF Numbers
  <1> QED
    BY <1>1, <1>2, <1>3, AttemptsInvariant, PTL DEF Spec, AddsBeforeCrash

----------------------------------------------------------------------------
(* Every entry goes the way of DurableLifecycle.                             *)

(* What a row tells of its entry, and what an entry without a row is.         *)
Standing(i) ==
    IF rows[i].status = "dead" THEN "dead"
    ELSE IF rows[i].lease # "held" THEN "waiting"
    ELSE IF rows[i].work \in HeldCopies THEN "leased" ELSE "orphaned"
Placed ==
    \A w \in Works :
        /\ RowOf(w) = {} => /\ PlaceOf(w) = IF w \in ended THEN "out" ELSE "new"
                            /\ TriesOf(w) = 0
        /\ \A i \in RowOf(w) : /\ RowOf(w) = {i}
                               /\ PlaceOf(w) = Standing(i) /\ TriesOf(w) = rows[i].attempts

(* An entry is known by its row: it has one at most.                          *)
LEMMA RowPlaces ==
    ASSUME Typed, OneSource
    PROVE  Placed
  <1> SUFFICES ASSUME NEW w \in Works
               PROVE  /\ RowOf(w) = {} => /\ PlaceOf(w) = IF w \in ended THEN "out" ELSE "new"
                                          /\ TriesOf(w) = 0
                      /\ \A i \in RowOf(w) :
                           /\ RowOf(w) = {i}
                           /\ PlaceOf(w) = Standing(i) /\ TriesOf(w) = rows[i].attempts
    BY DEF Placed
  <1>1. CASE RowOf(w) = {}
    BY <1>1 DEF PlaceOf, TriesOf
  <1>2. ASSUME NEW i \in RowOf(w)
        PROVE  /\ RowOf(w) = {i}
               /\ PlaceOf(w) = Standing(i) /\ TriesOf(w) = rows[i].attempts
    <2>1. \A j \in RowOf(w) : <<"row", j>> \in Source(w)
      BY DEF Source
    <2>2. \A j \in RowOf(w) : j = i
      <3> SUFFICES ASSUME NEW j \in RowOf(w)
                   PROVE  j = i
        OBVIOUS
      <3>1. <<"row", j>> = <<"row", i>>
        BY <2>1 DEF OneSource
      <3> QED
        BY <3>1
    <2>3. RowOf(w) = {i}
      BY <2>2
    <2>4. Row(w) = rows[i]
      BY <2>3 DEF Row
    <2>5. rows[i].work = w /\ rows[i].status \in {"pending", "dead"}
      BY DEF RowOf, LiveRows, Typed, TableTyped, RowTyped
    <2> QED
      BY <2>3, <2>4, <2>5 DEF PlaceOf, TriesOf, Standing
  <1> QED
    BY <1>1, <1>2

LEMMA RowPlacesNext == Typed' /\ OneSource' => Placed'
  <1>1. Typed /\ OneSource => Placed
    BY RowPlaces
  <1> QED
    BY <1>1, PTL

(* The holders are those of the copies.                                      *)
HoldersKnown == HeldCopies = {copy.work : copy \in Held}

LEMMA HeldWorks == HoldersKnown
  <1>1. ASSUME NEW w \in HeldCopies
        PROVE  \E copy \in Held : copy.work = w
    <2>1. CASE w \in WorksInLanes
      BY <2>1 DEF WorksInLanes, Held, LaneCopies, Copies
    <2>2. ASSUME NEW f \in Workers \cup {Feeder}, fib[f].pc \in Holding, w = fib[f].copy.work
          PROVE  \E copy \in Held : copy.work = w
      BY <2>2 DEF Held, HandOf, Fibers
    <2> QED
      BY <2>1, <2>2 DEF HeldCopies
  <1>2. \A copy \in LaneCopies : copy.work \in HeldCopies
    BY DEF LaneCopies, Copies, HeldCopies, WorksInLanes
  <1>3. \A f \in Fibers : \A copy \in HandOf(f) : copy.work \in HeldCopies
    BY DEF HandOf, HeldCopies
  <1> QED
    BY <1>1, <1>2, <1>3 DEF Held, HoldersKnown

LEMMA HeldWorksNext == HoldersKnown'
  <1> QED
    BY HeldWorks, PTL

(* A copy that goes takes its entry out of the hands, and no other.          *)
LEMMA HeldWorksShrink ==
    Held' \subseteq Held =>
        /\ HeldCopies' \subseteq HeldCopies
        /\ \A copy \in Held : Held \subseteq Held' \cup {copy} =>
             copy.work \in HeldCopies /\ \A v \in HeldCopies : v \in HeldCopies' \/ v = copy.work
  <1>1. HeldCopies = {copy.work : copy \in Held} /\ HeldCopies' = {copy.work : copy \in Held'}
    BY HeldWorks, HeldWorksNext DEF HoldersKnown
  <1>2. ASSUME NEW copy \in Held, Held \subseteq Held' \cup {copy}, NEW v \in HeldCopies
        PROVE  v \in HeldCopies' \/ v = copy.work
    <2>1. PICK other \in Held : v = other.work
      BY <1>1
    <2>2. other \in Held' \/ other = copy
      BY <1>2
    <2> QED
      BY <1>1, <2>1, <2>2
  <1> QED
    BY <1>1, <1>2

----------------------------------------------------------------------------
(* From places to steps of DurableLifecycle.                                 *)
Lapses == Used("crash") + Used("expire")

LEMMA MovesTo ==
    ASSUME NEW moved, NEW p,
           \A w \in Works : PlaceOf(w)' = IF w \in moved THEN p ELSE PlaceOf(w)
    PROVE  Lifecycle!Move(moved, p)
BY DEF Lifecycle!Move

LEMMA InPlaces ==
    ASSUME NEW places, NEW w
    PROVE  w \in Lifecycle!In(places) <=> w \in Works /\ PlaceOf(w) \in places
BY DEF Lifecycle!In

LEMMA SameTries ==
    ASSUME \A w \in Works : TriesOf(w)' = TriesOf(w)
    PROVE  UNCHANGED [w \in Works |-> TriesOf(w)]
OBVIOUS

(* What DurableLifecycle sees of a row.                                      *)
SameRow(i) ==
    /\ rows'[i].status = rows[i].status
    /\ rows[i].status # "none" =>
         rows'[i].work = rows[i].work /\ rows'[i].attempts = rows[i].attempts
    /\ rows[i].status = "pending" => (rows'[i].lease = "held" <=> rows[i].lease = "held")

(* An entry none of the rows S is or becomes the row of keeps its row.         *)
LEMMA RowStays ==
    ASSUME NEW S, \A i \in RowIds \ S : SameRow(i), NEW w,
           \A i \in RowIds \cap S : i \notin RowOf(w) /\ i \notin RowOf(w)'
    PROVE  RowOf(w)' = RowOf(w) /\ \A i \in RowOf(w) : SameRow(i)
  <1>1. \A i \in RowIds \ S : i \in RowOf(w)' <=> i \in RowOf(w)
    BY DEF RowOf, LiveRows, SameRow
  <1>2. RowOf(w)' \subseteq RowIds /\ RowOf(w) \subseteq RowIds
    BY DEF RowOf, LiveRows
  <1> QED
    BY <1>1, <1>2

(* It stays where it is, or loses its holder.                                *)
LEMMA WorkKept ==
    ASSUME Typed, Placed, Placed', NEW S, \A i \in RowIds \ S : SameRow(i), NEW w \in Works,
           \A i \in RowIds \cap S : i \notin RowOf(w) /\ i \notin RowOf(w)',
           RowOf(w) = {} => (w \in ended' <=> w \in ended),
           w \in HeldCopies' => w \in HeldCopies
    PROVE  /\ TriesOf(w)' = TriesOf(w)
           /\ PlaceOf(w)' = IF PlaceOf(w) = "leased" /\ w \notin HeldCopies'
                            THEN "orphaned" ELSE PlaceOf(w)
  <1>1. RowOf(w)' = RowOf(w) /\ \A i \in RowOf(w) : SameRow(i)
    BY RowStays
  <1>2. CASE RowOf(w) = {}
    BY <1>1, <1>2 DEF Placed
  <1>3. ASSUME NEW i \in RowOf(w)
        PROVE  /\ TriesOf(w)' = TriesOf(w)
               /\ PlaceOf(w)' = IF PlaceOf(w) = "leased" /\ w \notin HeldCopies'
                                THEN "orphaned" ELSE PlaceOf(w)
    <2>1. SameRow(i) /\ rows[i].work = w /\ rows[i].status \in {"pending", "dead"}
      BY <1>1 DEF RowOf, LiveRows, Typed, TableTyped, RowTyped
    <2>2. PlaceOf(w) = Standing(i) /\ TriesOf(w) = rows[i].attempts
      BY DEF Placed
    <2>3. PlaceOf(w)' = Standing(i)' /\ TriesOf(w)' = rows'[i].attempts
      BY <1>1 DEF Placed
    <2> QED
      BY <2>1, <2>2, <2>3 DEF SameRow, Standing
  <1> QED
    BY <1>2, <1>3

(* Who is held by nobody is not leased.                                      *)
LEMMA LeasedIsHeld ==
    ASSUME Placed, NEW w \in Works, PlaceOf(w) = "leased"
    PROVE  w \in HeldCopies
  <1>1. PICK i \in RowOf(w) : PlaceOf(w) = Standing(i)
    BY DEF Placed
  <1>2. rows[i].work = w
    BY DEF RowOf
  <1> QED
    BY <1>1, <1>2 DEF Standing

LEMMA WorkStays ==
    ASSUME Typed, Placed, Placed', NEW S, \A i \in RowIds \ S : SameRow(i), NEW w \in Works,
           \A i \in RowIds \cap S : i \notin RowOf(w) /\ i \notin RowOf(w)',
           RowOf(w) = {} => (w \in ended' <=> w \in ended),
           w \in HeldCopies' <=> w \in HeldCopies
    PROVE  TriesOf(w)' = TriesOf(w) /\ PlaceOf(w)' = PlaceOf(w)
BY WorkKept, LeasedIsHeld

(* A step that touches no row and takes nothing is one of holders who go.      *)
LEMMA CalmAbandons ==
    ASSUME Typed, Placed, Placed', \A i \in RowIds : SameRow(i),
           \A w \in Works : RowOf(w) = {} => (w \in ended' <=> w \in ended),
           HeldCopies' \subseteq HeldCopies, UNCHANGED Lapses,
           (boot' = "up") = (boot = "up")
    PROVE  Lifecycle!Next
  <1> DEFINE gone == Lifecycle!In({"leased"}) \ HeldCopies'
  <1>1. \A w \in Works :
          /\ TriesOf(w)' = TriesOf(w)
          /\ PlaceOf(w)' = IF PlaceOf(w) = "leased" /\ w \notin HeldCopies'
                           THEN "orphaned" ELSE PlaceOf(w)
    <2> SUFFICES ASSUME NEW w \in Works
                 PROVE  /\ TriesOf(w)' = TriesOf(w)
                        /\ PlaceOf(w)' = IF PlaceOf(w) = "leased" /\ w \notin HeldCopies'
                                         THEN "orphaned" ELSE PlaceOf(w)
      OBVIOUS
    <2>1. \A i \in RowIds \ {} : SameRow(i)
      OBVIOUS
    <2>2. \A i \in RowIds \cap {} : i \notin RowOf(w) /\ i \notin RowOf(w)'
      OBVIOUS
    <2> QED
      BY <2>1, <2>2, WorkKept
  <1>2. \A w \in Works : w \in gone <=> PlaceOf(w) = "leased" /\ w \notin HeldCopies'
    BY InPlaces
  <1> HIDE DEF gone
  <1>3. Lifecycle!Move(gone, "orphaned")
    BY <1>1, <1>2, MovesTo
  <1>4. UNCHANGED [w \in Works |-> TriesOf(w)]
    BY <1>1, SameTries
  <1>5. gone \in SUBSET Lifecycle!In({"leased"})
    BY DEF gone
  <1>6. Lifecycle!Abandon
    BY <1>3, <1>4, <1>5 DEF Lifecycle!Abandon, Lapses
  <1> QED
    BY <1>6 DEF Lifecycle!Next

----------------------------------------------------------------------------
(* What an add or a restore offers is stored, refused, or stays where it is.   *)
LEMMA OfferFollows ==
    ASSUME Typed, Placed, Placed', NEW id \in RowIds, NEW w \in Works, NEW level,
           Offer(id, w, level), RowOf(w) = {}, Held' = Held, UNCHANGED <<boot, Lapses>>
    PROVE  Lifecycle!Next
  <1>1. HeldCopies' = HeldCopies
    BY HeldWorks, HeldWorksNext DEF HoldersKnown
  <1>2. CASE /\ rows' = [i \in RowIds |->
                          IF i \in LiveWith(KeyOf[w]) /\ rows[i].rank > level
                          THEN [rows[i] EXCEPT !.rank = level] ELSE rows[i]]
             /\ ended' = ended \cup {w}
    <2>1. \A i \in RowIds : SameRow(i)
      BY <1>2 DEF SameRow, Typed, TableTyped, RowTyped, NoRow
    <2>2. CASE w \in ended
      BY <1>1, <1>2, <2>1, <2>2, CalmAbandons
    <2>3. CASE w \notin ended
      <3>1. RowOf(w)' = {}
        BY <2>1 DEF RowOf, LiveRows, SameRow
      <3>2. /\ PlaceOf(w) = "new" /\ PlaceOf(w)' = "out"
            /\ TriesOf(w) = 0 /\ TriesOf(w)' = 0
        BY <1>2, <2>3, <3>1 DEF Placed
      <3>3. \A v \in Works : v # w => TriesOf(v)' = TriesOf(v) /\ PlaceOf(v)' = PlaceOf(v)
        <4> SUFFICES ASSUME NEW v \in Works, v # w
                     PROVE  TriesOf(v)' = TriesOf(v) /\ PlaceOf(v)' = PlaceOf(v)
          OBVIOUS
        <4>1. \A i \in RowIds \ {} : SameRow(i)
          BY <2>1
        <4>2. v \in ended' <=> v \in ended
          BY <1>2
        <4> QED
          BY <1>1, <4>1, <4>2, WorkStays
      <3>4. Lifecycle!Move({w}, "out")
        BY <3>2, <3>3, MovesTo
      <3>5. Lifecycle!Refuse(w)
        BY <3>2, <3>3, <3>4, InPlaces DEF Lifecycle!Refuse, Lifecycle!Leave, Lapses
      <3> QED
        BY <3>5 DEF Lifecycle!Next
    <2> QED
      BY <2>2, <2>3
  <1>3. CASE /\ rows[id].status = "none"
             /\ rows' = [rows EXCEPT ![id] =
                          [NoRow EXCEPT !.status = "pending", !.work = w, !.key = KeyOf[w],
                                        !.rank = level, !.seq = NextSeq]]
             /\ ended' = ended \ {w}
    <2>1. /\ rows'[id].status = "pending" /\ rows'[id].work = w
          /\ rows'[id].lease = "free" /\ rows'[id].attempts = 0
          /\ \A i \in RowIds \ {id} : rows'[i] = rows[i]
      BY <1>3 DEF Typed, TableTyped, NoRow
    <2>2. \A i \in RowIds \ {id} : SameRow(i)
      BY <2>1 DEF SameRow
    <2>3. id \in RowOf(w)'
      BY <2>1 DEF RowOf, LiveRows
    <2>4. PlaceOf(w)' = "waiting" /\ TriesOf(w)' = 0
      BY <2>1, <2>3 DEF Placed, Standing
    <2>5. PlaceOf(w) \in {"new", "out"} /\ TriesOf(w) = 0
      BY DEF Placed
    <2>6. \A v \in Works : v # w => TriesOf(v)' = TriesOf(v) /\ PlaceOf(v)' = PlaceOf(v)
      <3> SUFFICES ASSUME NEW v \in Works, v # w
                   PROVE  TriesOf(v)' = TriesOf(v) /\ PlaceOf(v)' = PlaceOf(v)
        OBVIOUS
      <3>1. \A i \in RowIds \cap {id} : i \notin RowOf(v) /\ i \notin RowOf(v)'
        BY <1>3, <2>1 DEF RowOf, LiveRows
      <3>2. v \in ended' <=> v \in ended
        BY <1>3
      <3> QED
        BY <1>1, <2>2, <3>1, <3>2, WorkStays
    <2>7. Lifecycle!Move({w}, "waiting")
      BY <2>4, <2>6, MovesTo
    <2>8. UNCHANGED [v \in Works |-> TriesOf(v)]
      BY <2>4, <2>5, <2>6, SameTries
    <2>9. Lifecycle!Store(w)
      BY <2>5, <2>7, <2>8, InPlaces DEF Lifecycle!Store, Lapses
    <2> QED
      BY <2>9 DEF Lifecycle!Next
  <1>4. CASE UNCHANGED <<rows, ended>>
    <2>1. \A i \in RowIds : SameRow(i)
      BY <1>4 DEF SameRow
    <2> QED
      BY <1>1, <1>4, <2>1, CalmAbandons
  <1> QED
    BY <1>2, <1>3, <1>4 DEF Offer

(* clear deletes all but the dead, release what waits.                        *)
LEMMA DeleteFollows ==
    ASSUME Typed, Placed, Placed', NEW ids, ids = Pending \/ ids \subseteq Available,
           Delete(ids), ended' = ended \cup WorksOf(ids), Held' = Held,
           UNCHANGED <<boot, Lapses>>
    PROVE  Lifecycle!Next
  <1> DEFINE gone == WorksOf(ids)
  <1>1. HeldCopies' = HeldCopies
    BY HeldWorks, HeldWorksNext DEF HoldersKnown
  <1>2. \A i \in RowIds : rows'[i] = IF i \in ids THEN NoRow ELSE rows[i]
    BY DEF Delete
  <1>3. ids \subseteq Pending /\ Pending \subseteq RowIds
    BY DEF Available, Pending
  <1>4. \A i \in ids : i \in RowOf(rows[i].work) /\ rows[i].work \in Works
    BY <1>3 DEF RowOf, LiveRows, Pending, Typed, TableTyped, RowTyped
  <1>5. gone \subseteq Works
    BY <1>4 DEF WorksOf
  <1>6. ASSUME NEW w \in gone
        PROVE  PlaceOf(w)' = "out" /\ TriesOf(w)' = 0
    <2>1. PICK i \in ids : rows[i].work = w
      BY DEF WorksOf
    <2>2. RowOf(w) = {i}
      BY <1>4, <2>1 DEF Placed
    <2>3. RowOf(w)' = {}
      BY <1>2, <2>2 DEF RowOf, LiveRows, NoRow
    <2> QED
      BY <1>5, <2>3 DEF Placed
  <1>7. ASSUME NEW w \in Works \ gone
        PROVE  PlaceOf(w)' = PlaceOf(w) /\ TriesOf(w)' = TriesOf(w)
    <2>1. \A i \in RowIds \ ids : SameRow(i)
      BY <1>2 DEF SameRow
    <2>2. \A i \in RowIds \cap ids : i \notin RowOf(w) /\ i \notin RowOf(w)'
      BY <1>2 DEF RowOf, LiveRows, NoRow, WorksOf
    <2> QED
      BY <1>1, <2>1, <2>2, WorkStays
  <1>8. Lifecycle!Move(gone, "out")
    BY <1>6, <1>7, MovesTo
  <1>9. \A w \in Works : TriesOf(w)' = IF w \in gone THEN 0 ELSE TriesOf(w)
    BY <1>6, <1>7
  <1> HIDE DEF gone
  <1>10. Lifecycle!Leave(gone)
    BY <1>8, <1>9 DEF Lifecycle!Leave, Lapses
  <1> USE DEF gone
  <1>11. \A w \in gone : \E i \in ids : PlaceOf(w) = Standing(i)
    BY <1>4, <1>5 DEF WorksOf, Placed
  <1>12. CASE ids \subseteq Available
    <2>1. \A w \in gone : PlaceOf(w) = "waiting"
      BY <1>11, <1>12 DEF Standing, Available, Pending
    <2>2. gone \in SUBSET Lifecycle!In({"waiting"})
      BY <1>5, <2>1, InPlaces
    <2> HIDE DEF gone
    <2>3. Lifecycle!Extract
      BY <1>10, <2>2 DEF Lifecycle!Extract
    <2> QED
      BY <2>3 DEF Lifecycle!Next
  <1>13. CASE ids = Pending
    <2>1. \A w \in gone : PlaceOf(w) \in {"waiting", "leased", "orphaned"}
      BY <1>11, <1>13 DEF Standing, Pending
    <2>2. ASSUME NEW w \in Works, PlaceOf(w) \in {"waiting", "leased", "orphaned"}
          PROVE  w \in gone
      <3>1. PICK i \in RowOf(w) : PlaceOf(w) = Standing(i)
        BY <2>2 DEF Placed
      <3>2. i \in RowIds /\ rows[i].work = w /\ rows[i].status \in {"pending", "dead"}
        BY DEF RowOf, LiveRows, Typed, TableTyped, RowTyped
      <3>3. i \in Pending
        BY <2>2, <3>1, <3>2 DEF Standing, Pending
      <3> QED
        BY <1>13, <3>2, <3>3 DEF WorksOf
    <2>3. gone = Lifecycle!In({"waiting", "leased", "orphaned"})
      BY <1>5, <2>1, <2>2, InPlaces
    <2> HIDE DEF gone
    <2>4. Lifecycle!Clear
      BY <1>10, <2>3 DEF Lifecycle!Clear
    <2> QED
      BY <2>4 DEF Lifecycle!Next
  <1> QED
    BY <1>12, <1>13

(* A step that touches one row only, that of w before or after it.            *)
LEMMA OthersStay ==
    ASSUME Typed, Placed, Placed', NEW id, \A i \in RowIds \ {id} : SameRow(i), NEW w,
           id \in RowIds => \/ rows[id].status = "none"
                            \/ rows[id].work = w /\ (rows'[id].status = "none" \/ rows'[id].work = w),
           id \in RowIds /\ rows[id].status = "none" => rows'[id].status = "none",
           \A v \in Works : v # w => /\ v \in ended' <=> v \in ended
                                     /\ v \in HeldCopies' <=> v \in HeldCopies
    PROVE  \A v \in Works : v # w => TriesOf(v)' = TriesOf(v) /\ PlaceOf(v)' = PlaceOf(v)
  <1> SUFFICES ASSUME NEW v \in Works, v # w
               PROVE  TriesOf(v)' = TriesOf(v) /\ PlaceOf(v)' = PlaceOf(v)
    OBVIOUS
  <1>1. \A i \in RowIds \cap {id} : i \notin RowOf(v) /\ i \notin RowOf(v)'
    BY DEF RowOf, LiveRows
  <1> QED
    BY <1>1, WorkStays

(* complete: the row of the copy is that of its entry, or was deleted before.  *)
LEMMA CompleteFollows ==
    ASSUME Typed, Named, Placed, Placed', NEW copy \in CopyRecords, copy \in Held,
           Delete({copy.id}), ended' = ended \cup {copy.work},
           Held' \subseteq Held, Held \subseteq Held' \cup {copy}, UNCHANGED <<boot, Lapses>>
    PROVE  Lifecycle!Next
  <1> DEFINE w == copy.work
             id == copy.id
  <1>1. /\ HeldCopies' \subseteq HeldCopies /\ w \in HeldCopies
        /\ \A v \in HeldCopies : v \in HeldCopies' \/ v = w
    BY HeldWorksShrink
  <1>2. \A i \in RowIds : rows'[i] = IF i = id THEN NoRow ELSE rows[i]
    BY DEF Delete
  <1>3. w \in Works /\ id \in RowIds
    BY DEF CopyRecords
  <1>4. \A i \in RowIds \ {id} : SameRow(i)
    BY <1>2 DEF SameRow
  <1>5. rows'[id].status = "none"
    BY <1>2, <1>3 DEF NoRow
  <1>6. <<id, w>> \in Names
    BY DEF Names
  <1> HIDE DEF w, id
  <1>7. \A v \in Works : v # w => /\ v \in ended' <=> v \in ended
                                  /\ v \in HeldCopies' <=> v \in HeldCopies
    BY <1>1 DEF w
  <1>8. CASE rows[id].status # "none"
    <2>1. rows[id].work = w
      <3>1. <<id, rows[id].work>> \in Names
        BY <1>3, <1>8 DEF Names, RowNames, LiveRows
      <3> QED
        BY <1>6, <3>1 DEF Named, OneEntryPerId
    <2>2. id \in RowOf(w) /\ rows[id].status \in {"pending", "dead"}
      BY <1>3, <1>8, <2>1 DEF RowOf, LiveRows, Typed, TableTyped, RowTyped
    <2>3. RowOf(w) = {id} /\ PlaceOf(w) = Standing(id)
      BY <1>3, <2>2 DEF Placed
    <2>4. RowOf(w)' = {}
      BY <1>2, <1>5, <2>3 DEF RowOf, LiveRows
    <2>5. PlaceOf(w)' = "out" /\ TriesOf(w)' = 0
      BY <1>3, <2>4 DEF Placed, w
    <2>6. PlaceOf(w) \in {"waiting", "leased", "dead"}
      BY <1>1, <2>1, <2>3 DEF Standing
    <2>7. \A v \in Works : v # w => TriesOf(v)' = TriesOf(v) /\ PlaceOf(v)' = PlaceOf(v)
      BY <1>4, <1>5, <1>7, <2>1, OthersStay
    <2>8. Lifecycle!Move({w}, "out")
      BY <2>5, <2>7, MovesTo
    <2>9. Lifecycle!Complete(w)
      BY <1>3, <2>5, <2>6, <2>7, <2>8, InPlaces DEF Lifecycle!Complete, Lifecycle!Leave, Lapses
    <2> QED
      BY <1>3, <2>9 DEF Lifecycle!Next
  <1>9. CASE rows[id].status = "none"
    <2>1. \A i \in RowIds : SameRow(i)
      BY <1>4, <1>5, <1>9 DEF SameRow
    <2>2. CASE RowOf(w) # {} \/ w \in ended
      <3>1. \A v \in Works : RowOf(v) = {} => (v \in ended' <=> v \in ended)
        BY <1>7, <2>2 DEF w
      <3> QED
        BY <1>1, <2>1, <3>1, CalmAbandons
    <2>3. CASE RowOf(w) = {} /\ w \notin ended
      <3>1. RowOf(w)' = {}
        BY <2>1, <2>3 DEF RowOf, LiveRows, SameRow
      <3>2. /\ PlaceOf(w) = "new" /\ PlaceOf(w)' = "out"
            /\ TriesOf(w) = 0 /\ TriesOf(w)' = 0
        BY <1>3, <2>3, <3>1 DEF Placed, w
      <3>3. \A v \in Works : v # w => TriesOf(v)' = TriesOf(v) /\ PlaceOf(v)' = PlaceOf(v)
        BY <1>4, <1>5, <1>7, <1>9, OthersStay
      <3>4. Lifecycle!Move({w}, "out")
        BY <3>2, <3>3, MovesTo
      <3>5. Lifecycle!Refuse(w)
        BY <1>3, <3>2, <3>3, <3>4, InPlaces DEF Lifecycle!Refuse, Lifecycle!Leave, Lapses
      <3> QED
        BY <1>3, <3>5 DEF Lifecycle!Next
    <2> QED
      BY <2>2, <2>3
  <1> QED
    BY <1>8, <1>9

(* fail: a row that is pending waits again, or is dead if its tries are used.   *)
LEMMA FailFollows ==
    ASSUME Typed, Named, Placed, Placed', NEW copy \in CopyRecords, copy \in Held,
           FailRow(copy.id), UNCHANGED ended,
           Held' \subseteq Held, Held \subseteq Held' \cup {copy}, UNCHANGED <<boot, Lapses>>
    PROVE  Lifecycle!Next
  <1> DEFINE w == copy.work
             id == copy.id
  <1>1. /\ HeldCopies' \subseteq HeldCopies /\ w \in HeldCopies
        /\ \A v \in HeldCopies : v \in HeldCopies' \/ v = w
    BY HeldWorksShrink
  <1>2. w \in Works /\ id \in RowIds
    BY DEF CopyRecords
  <1>3. <<id, w>> \in Names
    BY DEF Names
  <1>4. FailRow(id)
    OBVIOUS
  <1> HIDE DEF w, id
  <1>5. DOMAIN rows = RowIds /\ RowTyped(rows[id])
    BY <1>2 DEF Typed, TableTyped
  <1>6. /\ \A i \in RowIds \ {id} : rows'[i] = rows[i]
        /\ rows'[id].status = IF rows[id].status # "none" /\ rows[id].attempts >= MaxAttempts
                              THEN "dead" ELSE rows[id].status
        /\ rows'[id].lease = "free" /\ rows'[id].work = rows[id].work
        /\ rows'[id].attempts = rows[id].attempts
    BY <1>2, <1>4, <1>5 DEF FailRow, RowTyped, NoRow
  <1>7. \A i \in RowIds \ {id} : SameRow(i)
    BY <1>6 DEF SameRow
  <1>8. CASE rows[id].status # "pending"
    <2>1. \A i \in RowIds : SameRow(i)
      BY <1>5, <1>6, <1>7, <1>8 DEF SameRow, RowTyped
    <2> QED
      BY <1>1, <2>1, CalmAbandons
  <1>9. CASE rows[id].status = "pending"
    <2>1. rows[id].work = w
      <3>1. <<id, rows[id].work>> \in Names
        BY <1>2, <1>9 DEF Names, RowNames, LiveRows
      <3> QED
        BY <1>3, <3>1 DEF Named, OneEntryPerId
    <2>2. id \in RowOf(w) /\ id \in RowOf(w)'
      BY <1>2, <1>6, <1>9, <2>1 DEF RowOf, LiveRows
    <2>3. PlaceOf(w) = Standing(id) /\ TriesOf(w) = rows[id].attempts
      BY <1>2, <2>2 DEF Placed
    <2>4. PlaceOf(w)' = Standing(id)' /\ TriesOf(w)' = rows'[id].attempts
      BY <1>2, <2>2 DEF Placed
    <2>5. PlaceOf(w) \in {"waiting", "leased"}
      BY <1>1, <1>9, <2>1, <2>3 DEF Standing
    <2>6. rows[id].attempts \in Nat /\ MaxAttempts \in Nat
      BY <1>5, DurableAssumption DEF RowTyped, MaxAttempts
    <2>7. PlaceOf(w)' = IF TriesOf(w) < MaxAttempts THEN "waiting" ELSE "dead"
      BY <1>6, <1>9, <2>3, <2>4, <2>6 DEF Standing
    <2>8. \A v \in Works : v # w => TriesOf(v)' = TriesOf(v) /\ PlaceOf(v)' = PlaceOf(v)
      <3>1. \A v \in Works : v # w => v \in HeldCopies' <=> v \in HeldCopies
        BY <1>1
      <3> QED
        BY <1>6, <1>7, <1>9, <2>1, <3>1, OthersStay
    <2>9. Lifecycle!Move({w}, IF TriesOf(w) < MaxAttempts THEN "waiting" ELSE "dead")
      BY <2>7, <2>8, MovesTo
    <2>10. UNCHANGED [v \in Works |-> TriesOf(v)]
      BY <1>6, <2>3, <2>4, <2>8, SameTries
    <2>11. Lifecycle!Fail(w)
      BY <1>2, <2>5, <2>9, <2>10, InPlaces DEF Lifecycle!Fail, Lapses
    <2> QED
      BY <1>2, <2>11 DEF Lifecycle!Next
  <1> QED
    BY <1>8, <1>9

(* The feeder leases a row that waits: one try more.                          *)
LEMMA TakeFollows ==
    ASSUME Typed, Placed, Placed', NEW id \in Available, Take(id),
           HeldCopies' = HeldCopies \cup {rows[id].work}, boot = "up",
           UNCHANGED <<boot, ended, Lapses>>
    PROVE  Lifecycle!Next
  <1>1. id \in RowIds /\ rows[id].status = "pending" /\ rows[id].lease # "held"
    BY DEF Available, Pending
  <1>2. DOMAIN rows = RowIds /\ RowTyped(rows[id]) /\ rows[id].work \in Works
    BY <1>1 DEF Typed, TableTyped, RowTyped
  <1>3. PICK w \in Works : w = rows[id].work
    BY <1>2
  <1>4. /\ \A i \in RowIds \ {id} : rows'[i] = rows[i]
        /\ rows'[id].status = "pending" /\ rows'[id].work = w
        /\ rows'[id].lease = "held" /\ rows'[id].attempts = rows[id].attempts + 1
    BY <1>1, <1>2, <1>3 DEF Take, RowTyped, NoRow
  <1>5. HeldCopies' = HeldCopies \cup {w}
    BY <1>3
  <1>6. id \in RowOf(w) /\ id \in RowOf(w)'
    BY <1>1, <1>4, <1>3 DEF RowOf, LiveRows
  <1>7. PlaceOf(w) = "waiting" /\ TriesOf(w) = rows[id].attempts
    BY <1>1, <1>2, <1>6 DEF Placed, Standing
  <1>8. PlaceOf(w)' = "leased" /\ TriesOf(w)' = rows[id].attempts + 1
    BY <1>2, <1>4, <1>5, <1>6 DEF Placed, Standing
  <1>9. \A v \in Works : v # w => TriesOf(v)' = TriesOf(v) /\ PlaceOf(v)' = PlaceOf(v)
    <2>1. \A i \in RowIds \ {id} : SameRow(i)
      BY <1>4 DEF SameRow
    <2> QED
      BY <1>1, <1>4, <1>5, <1>3, <2>1, OthersStay
  <1>10. Lifecycle!Move({w}, "leased")
    BY <1>8, <1>9, MovesTo
  <1>11. [v \in Works |-> TriesOf(v)]' = [[v \in Works |-> TriesOf(v)] EXCEPT ![w] = @ + 1]
    BY <1>2, <1>7, <1>8, <1>9
  <1>12. Lifecycle!Lease(w)
    BY <1>2, <1>7, <1>10, <1>11, InPlaces DEF Lifecycle!Lease, Lapses
  <1> QED
    BY <1>2, <1>12 DEF Lifecycle!Next

(* Nobody holds a copy while no engine is up, and what is leased is pending.    *)
Unheld == boot # "up" => Held = {}
LeasesPend == \A i \in RowIds : rows[i].lease = "held" => rows[i].status = "pending"

(* A lease runs out: a lapse, and the entry waits again.                      *)
LEMMA ExpiryFollows ==
    ASSUME Typed, Placed, Placed', LeasesPend, NEW id \in RowIds, LeaseExpires(id)
    PROVE  Lifecycle!Next
  <1>1. /\ rows[id].lease = "held" /\ rows[id].status = "pending"
        /\ rows' = [rows EXCEPT ![id].lease = "expired"]
        /\ UNCHANGED <<lanes, fib, boot, ended>>
    BY DEF LeaseExpires, LeasesPend, engine
  <1>2. DOMAIN rows = RowIds /\ RowTyped(rows[id]) /\ rows[id].work \in Works
    BY <1>1 DEF Typed, TableTyped, RowTyped
  <1>3. PICK w \in Works : w = rows[id].work
    BY <1>2
  <1>4. /\ \A i \in RowIds \ {id} : rows'[i] = rows[i]
        /\ rows'[id].status = "pending" /\ rows'[id].work = w
        /\ rows'[id].lease = "expired" /\ rows'[id].attempts = rows[id].attempts
    BY <1>1, <1>2, <1>3 DEF RowTyped, NoRow
  <1>5. HeldCopies' = HeldCopies
    BY <1>1 DEF HeldCopies, WorksInLanes
  <1>6. id \in RowOf(w) /\ id \in RowOf(w)'
    BY <1>1, <1>3, <1>4 DEF RowOf, LiveRows
  <1>7. PlaceOf(w) \in {"leased", "orphaned"} /\ TriesOf(w) = rows[id].attempts
    BY <1>1, <1>6 DEF Placed, Standing
  <1>8. PlaceOf(w)' = "waiting" /\ TriesOf(w)' = rows[id].attempts
    BY <1>4, <1>6 DEF Placed, Standing
  <1>9. \A v \in Works : v # w => TriesOf(v)' = TriesOf(v) /\ PlaceOf(v)' = PlaceOf(v)
    <2>1. \A i \in RowIds \ {id} : SameRow(i)
      BY <1>4 DEF SameRow
    <2> QED
      BY <1>1, <1>3, <1>4, <1>5, <2>1, OthersStay
  <1>10. Lapses' = Lapses + 1
    <2>1. /\ left \in [Events -> Nat] /\ Budget \in [Events -> Nat]
          /\ left' = [left EXCEPT !["expire"] = @ - 1]
          /\ {"crash", "expire"} \subseteq Events
      BY DurableAssumption DEF LeaseExpires, Spend, Typed, BudgetOK, Events
    <2> QED
      BY <2>1 DEF Lapses, Used
  <1>11. Lifecycle!Move({w}, "waiting")
    BY <1>8, <1>9, MovesTo
  <1>12. UNCHANGED [v \in Works |-> TriesOf(v)]
    BY <1>7, <1>8, <1>9, SameTries
  <1>13. Lifecycle!Expire(w)
    BY <1>1, <1>7, <1>10, <1>11, <1>12, InPlaces DEF Lifecycle!Expire, Lapses
  <1> QED
    BY <1>13 DEF Lifecycle!Next

(* A crash takes every holder.                                               *)
LEMMA CrashFollows ==
    ASSUME Typed, Placed, Placed', Crash, Held' = {}
    PROVE  Lifecycle!Next
  <1>1. UNCHANGED <<rows, ended>> /\ boot' # "up"
    BY DEF Crash
  <1>2. HeldCopies' = {}
    BY HeldWorksNext DEF HoldersKnown
  <1>3. \A w \in Works :
          /\ TriesOf(w)' = TriesOf(w)
          /\ PlaceOf(w)' = IF PlaceOf(w) = "leased" THEN "orphaned" ELSE PlaceOf(w)
    <2> SUFFICES ASSUME NEW w \in Works
                 PROVE  /\ TriesOf(w)' = TriesOf(w)
                        /\ PlaceOf(w)' = IF PlaceOf(w) = "leased" THEN "orphaned" ELSE PlaceOf(w)
      OBVIOUS
    <2>1. \A i \in RowIds \ {} : SameRow(i)
      BY <1>1 DEF SameRow
    <2>2. \A i \in RowIds \cap {} : i \notin RowOf(w) /\ i \notin RowOf(w)'
      OBVIOUS
    <2> QED
      BY <1>1, <1>2, <2>1, <2>2, WorkKept
  <1>4. Lifecycle!Move(Lifecycle!In({"leased"}), "orphaned")
    <2>1. \A w \in Works : w \in Lifecycle!In({"leased"}) <=> PlaceOf(w) = "leased"
      BY InPlaces
    <2> QED
      BY <1>3, <2>1 DEF Lifecycle!Move
  <1>5. Lapses' = Lapses + 1
    <2>1. /\ left \in [Events -> Nat] /\ Budget \in [Events -> Nat]
          /\ left' = [left EXCEPT !["crash"] = @ - 1]
          /\ {"crash", "expire"} \subseteq Events
      BY DurableAssumption DEF Crash, Spend, Typed, BudgetOK, Events
    <2> QED
      BY <2>1 DEF Lapses, Used
  <1>6. UNCHANGED [w \in Works |-> TriesOf(w)]
    BY <1>3, SameTries
  <1>7. Lifecycle!Crash
    BY <1>1, <1>4, <1>5, <1>6 DEF Lifecycle!Crash, Lapses
  <1> QED
    BY <1>7 DEF Lifecycle!Next

(* An engine comes up, and has recovered what nobody holds, or nothing.        *)
LEMMA RecoverFollows ==
    ASSUME Typed, Placed, Placed', Unheld, RecoverAndFork, UNCHANGED Lapses
    PROVE  Lifecycle!Next
  <1>1. boot # "up" /\ boot' = "up" /\ UNCHANGED <<lanes, fib, ended>>
    BY DEF RecoverAndFork
  <1>2. HeldCopies = {} /\ HeldCopies' = {}
    <2>1. HeldCopies = {}
      BY <1>1, HeldWorks DEF HoldersKnown, Unheld
    <2>2. HeldCopies' = HeldCopies
      BY <1>1 DEF HeldCopies, WorksInLanes
    <2> QED
      BY <2>1, <2>2
  <1>3. CASE UNCHANGED rows
    <2>1. \A w \in Works : PlaceOf(w)' = PlaceOf(w) /\ TriesOf(w)' = TriesOf(w)
      <3> SUFFICES ASSUME NEW w \in Works
                   PROVE  PlaceOf(w)' = PlaceOf(w) /\ TriesOf(w)' = TriesOf(w)
        OBVIOUS
      <3>1. \A i \in RowIds \ {} : SameRow(i)
        BY <1>3 DEF SameRow
      <3>2. \A i \in RowIds \cap {} : i \notin RowOf(w) /\ i \notin RowOf(w)'
        OBVIOUS
      <3> QED
        BY <1>1, <1>2, <3>1, <3>2, WorkStays
    <2>2. Lifecycle!Move({}, "waiting")
      BY <2>1, MovesTo
    <2>3. UNCHANGED [w \in Works |-> TriesOf(w)]
      BY <2>1, SameTries
    <2>4. Lifecycle!Start
      BY <1>1, <2>2, <2>3 DEF Lifecycle!Start, Lapses
    <2> QED
      BY <2>4 DEF Lifecycle!Next
  <1>4. CASE Recover
    <2>1. \A i \in RowIds :
            /\ rows'[i].status = rows[i].status /\ rows'[i].work = rows[i].work
            /\ rows'[i].attempts = rows[i].attempts
            /\ rows[i].status = "pending" => rows'[i].lease = "free"
      BY <1>4 DEF Recover, Pending, Typed, TableTyped, RowTyped, NoRow
    <2>2. ASSUME NEW w \in Works
          PROVE  /\ TriesOf(w)' = TriesOf(w)
                 /\ PlaceOf(w)' = IF PlaceOf(w) = "orphaned" THEN "waiting" ELSE PlaceOf(w)
      <3>1. RowOf(w)' = RowOf(w)
        BY <2>1 DEF RowOf, LiveRows
      <3>2. CASE RowOf(w) = {}
        BY <1>1, <3>1, <3>2 DEF Placed
      <3>3. ASSUME NEW i \in RowOf(w)
            PROVE  /\ TriesOf(w)' = TriesOf(w)
                   /\ PlaceOf(w)' = IF PlaceOf(w) = "orphaned" THEN "waiting" ELSE PlaceOf(w)
        <4>1. i \in RowIds /\ rows[i].work = w /\ rows[i].status \in {"pending", "dead"}
          BY DEF RowOf, LiveRows, Typed, TableTyped, RowTyped
        <4>2. PlaceOf(w) = Standing(i) /\ TriesOf(w) = rows[i].attempts
          BY DEF Placed
        <4>3. PlaceOf(w)' = Standing(i)' /\ TriesOf(w)' = rows'[i].attempts
          BY <3>1 DEF Placed
        <4> QED
          BY <1>2, <2>1, <4>1, <4>2, <4>3 DEF Standing
      <3> QED
        BY <3>2, <3>3
    <2>3. Lifecycle!Move(Lifecycle!In({"orphaned"}), "waiting")
      <3>1. \A w \in Works : w \in Lifecycle!In({"orphaned"}) <=> PlaceOf(w) = "orphaned"
        BY InPlaces
      <3> QED
        BY <2>2, <3>1 DEF Lifecycle!Move
    <2>4. UNCHANGED [w \in Works |-> TriesOf(w)]
      BY <2>2, SameTries
    <2>5. Lifecycle!Start
      BY <1>1, <2>3, <2>4 DEF Lifecycle!Start, Lapses
    <2> QED
      BY <2>5 DEF Lifecycle!Next
  <1> QED
    BY <1>3, <1>4 DEF RecoverAndFork

----------------------------------------------------------------------------
(* Who holds, and what is leased.                                            *)

(* The ways a step writes the table.                                         *)
LEMMA TableSteps ==
    ASSUME [Next]_vars
    PROVE  \/ UNCHANGED rows \/ (\E ids : Delete(ids)) \/ (\E i : FailRow(i))
           \/ (\E id, w, level : Offer(id, w, level)) \/ (\E i \in Available : Take(i))
           \/ Recover \/ \E i \in RowIds : LeaseExpires(i)
  <1>1. CASE FeederTake
    <2>1. PICK i \in RowIds : IsTop(i) /\ Take(i)
      BY <1>1, Zenon DEF FeederTake
    <2> QED
      BY <2>1 DEF IsTop
  <1>2. CASE \E c \in Clients : RestorePending(c)
    <2>1. PICK c \in Clients : RestorePending(c)
      BY <1>2
    <2>2. (\E t \in fib[c].taken : Offer(t.id, t.row.work, t.row.rank)) \/ UNCHANGED rows
      BY <2>1, Zenon DEF RestorePending
    <2> QED
      BY <2>2
  <1>3. CASE \E c \in Clients : OfferRow(c) \/ CallClear(c) \/ CallExtract(c)
    BY <1>3 DEF OfferRow, CallClear, CallExtract, asked
  <1>4. CASE \E f \in Workers \cup {Feeder} : Complete(f) \/ PersistFail(f)
    BY <1>4 DEF Complete, PersistFail
  <1>5. CASE RecoverAndFork \/ \E i \in RowIds : LeaseExpires(i)
    BY <1>5 DEF RecoverAndFork
  <1>6. CASE UNCHANGED rows
    BY <1>6
  <1> QED
    BY <1>1, <1>2, <1>3, <1>4, <1>5, <1>6
       DEF Next, Start, ClaimStart, ClientCall, ClientStep, WorkerStep, FeederStep, CallAdd,
           CallShutdown, WindDown, PurgeLanes, FinalizeRead, FinalizeSet, WorkerLoop, TakeNext,
           TakeNextEmpty, SkipRateLimitedItem, StartItem, EffectExits, FeederCheck,
           FeederFindsNone, FeederPut, Crash, vars

LEMMA NextLeasesPend ==
    ASSUME Typed, LeasesPend, [Next]_vars
    PROVE  LeasesPend'
  <1> SUFFICES ASSUME NEW i \in RowIds, rows'[i].lease = "held"
               PROVE  rows'[i].status = "pending"
    BY DEF LeasesPend
  <1>0. /\ DOMAIN rows = RowIds /\ RowTyped(rows[i])
        /\ rows[i].lease = "held" => rows[i].status = "pending"
    BY DEF Typed, TableTyped, LeasesPend
  <1>1. CASE UNCHANGED rows
    BY <1>0, <1>1
  <1>2. ASSUME NEW ids, Delete(ids)
        PROVE  rows'[i].status = "pending"
    BY <1>0, <1>2 DEF Delete, NoRow
  <1>3. ASSUME NEW j, FailRow(j)
        PROVE  rows'[i].status = "pending"
    <2>1. CASE i = j
      BY <1>0, <1>3, <2>1 DEF FailRow, RowTyped, NoRow
    <2>2. CASE i # j
      BY <1>0, <1>3, <2>2 DEF FailRow
    <2> QED
      BY <2>1, <2>2
  <1>4. ASSUME NEW id, NEW w, NEW level, Offer(id, w, level)
        PROVE  rows'[i].status = "pending"
    <2>1. CASE rows' = [n \in RowIds |->
                          IF n \in LiveWith(KeyOf[w]) /\ rows[n].rank > level
                          THEN [rows[n] EXCEPT !.rank = level] ELSE rows[n]]
      BY <1>0, <2>1 DEF RowTyped, NoRow
    <2>2. CASE rows' = [rows EXCEPT ![id] =
                          [NoRow EXCEPT !.status = "pending", !.work = w, !.key = KeyOf[w],
                                        !.rank = level, !.seq = NextSeq]]
      BY <1>0, <2>2 DEF NoRow
    <2> QED
      BY <1>1, <1>4, <2>1, <2>2 DEF Offer
  <1>5. ASSUME NEW j \in Available, Take(j)
        PROVE  rows'[i].status = "pending"
    <2>1. rows[j].status = "pending"
      BY DEF Available, Pending
    <2>2. CASE i = j
      BY <1>0, <1>5, <2>1, <2>2 DEF Take, RowTyped, NoRow
    <2>3. CASE i # j
      BY <1>0, <1>5, <2>3 DEF Take
    <2> QED
      BY <2>2, <2>3
  <1>6. CASE Recover
    BY <1>0, <1>6 DEF Recover, RowTyped, NoRow, Pending
  <1>7. ASSUME NEW j \in RowIds, LeaseExpires(j)
        PROVE  rows'[i].status = "pending"
    <2>1. CASE i = j
      BY <1>0, <1>7, <2>1 DEF LeaseExpires, RowTyped, NoRow
    <2>2. CASE i # j
      BY <1>0, <1>7, <2>2 DEF LeaseExpires
    <2> QED
      BY <2>1, <2>2
  <1> QED
    BY <1>1, <1>2, <1>3, <1>4, <1>5, <1>6, <1>7, TableSteps

(* A crash leaves nothing in a hand or a lane.                                *)
LEMMA CrashCopies ==
    ASSUME Crash
    PROVE  Held' = {}
  <1>1. \A f \in Fibers : fib'[f].pc \notin Holding
    BY FreshTyped DEF Crash
  <1> QED
    BY <1>1 DEF Crash, Held, HandOf, LaneCopies, Copies

(* Only the feeder of an engine that is up makes a copy.                      *)
LEMMA NextUnheld ==
    ASSUME Typed, FeederIsUp, Unheld, [Next]_vars
    PROVE  Unheld'
  <1>1. CASE UNCHANGED vars \/ Start \/ \E i \in RowIds : LeaseExpires(i)
    <2>1. UNCHANGED <<lanes, fib>> /\ (boot' # "up" => boot # "up")
      BY <1>1 DEF vars, engine, Start, ClaimStart, RecoverAndFork, LeaseExpires
    <2>2. Held' = Held
      BY <2>1 DEF Held, HandOf, LaneCopies
    <2> QED
      BY <2>1, <2>2 DEF Unheld
  <1>2. CASE Crash
    BY <1>2, CrashCopies DEF Unheld
  <1>3. CASE \E c \in Clients : ClientCall(c) \/ ClientStep(c)
    <2>1. UNCHANGED boot
      BY <1>3
         DEF ClientCall, ClientStep, CallAdd, CallShutdown, CallClear, CallExtract, OfferRow,
             WindDown, PurgeLanes, RestorePending, FinalizeRead, FinalizeSet, engine
    <2> QED
      BY <1>3, <2>1, ClientCopies DEF Unheld
  <1>4. CASE \E w \in Workers : WorkerStep(w)
    <2>1. UNCHANGED boot
      BY <1>4
         DEF WorkerStep, WorkerLoop, TakeNext, TakeNextEmpty, SkipRateLimitedItem, StartItem,
             EffectExits, Complete, PersistFail, FinalizeRead, FinalizeSet, engine
    <2> QED
      BY <1>4, <2>1, WorkerCopies DEF Unheld
  <1>5. CASE FeederStep
    <2>1. UNCHANGED boot /\ (FeederTake => boot = "up")
      BY <1>5
         DEF FeederStep, FeederCheck, FeederTake, FeederFindsNone, FeederPut, Complete, engine,
             FeederIsUp
    <2> QED
      BY <1>5, <2>1, FeederCopies DEF Unheld
  <1> QED
    BY <1>1, <1>2, <1>3, <1>4, <1>5 DEF Next

----------------------------------------------------------------------------
(* Every step is one of DurableLifecycle.                                    *)

LEMMA LapsesStay ==
    ASSUME Typed,
           \/ UNCHANGED <<left["crash"], left["expire"]>>
           \/ UNCHANGED left \/ \E e \in Events \ {"crash", "expire"} : Spend(e)
    PROVE  UNCHANGED Lapses
  <1>1. left \in [Events -> Nat] /\ {"crash", "expire"} \subseteq Events
    BY DEF Typed, BudgetOK, Events
  <1>2. UNCHANGED <<left["crash"], left["expire"]>>
    BY <1>1 DEF Spend
  <1> QED
    BY <1>2 DEF Lapses, Used

(* A step that leaves the table to others, and makes no copy.                 *)
LEMMA QuietFollows ==
    ASSUME Typed, Placed, Placed', UNCHANGED <<rows, ended>>, Held' \subseteq Held,
           UNCHANGED Lapses, (boot' = "up") = (boot = "up")
    PROVE  Lifecycle!Next
  <1>1. \A i \in RowIds : SameRow(i)
    BY DEF SameRow
  <1>2. HeldCopies' \subseteq HeldCopies
    BY HeldWorksShrink
  <1> QED
    BY <1>1, <1>2, CalmAbandons

(* What a client offers, or puts back, has no row yet.                         *)
LEMMA OfferedHasNoRow ==
    ASSUME OneSource, NEW w \in Works, OfferOf(w) # {} \/ TakenOf(w) # {}
    PROVE  RowOf(w) = {}
  <1> SUFFICES ASSUME NEW i \in RowOf(w)
               PROVE  FALSE
    OBVIOUS
  <1>1. <<"row", i>> \in Source(w)
    BY DEF Source
  <1>2. CASE OfferOf(w) # {}
    <2>1. PICK c : <<"offer", c>> \in Source(w)
      BY <1>2 DEF Source
    <2>2. <<"offer", c>> = <<"row", i>>
      BY <1>1, <2>1 DEF OneSource
    <2> QED
      BY <2>2
  <1>3. CASE TakenOf(w) # {}
    <2>1. PICK x : <<"taken", x>> \in Source(w)
      BY <1>3 DEF Source
    <2>2. <<"taken", x>> = <<"row", i>>
      BY <1>1, <2>1 DEF OneSource
    <2> QED
      BY <2>2
  <1> QED
    BY <1>2, <1>3

LEMMA ClientFollows ==
    ASSUME Typed, OneSource, Placed, Placed', NEW c \in Clients, ClientCall(c) \/ ClientStep(c)
    PROVE  Lifecycle!Next
  <1>0. /\ c \in Fibers /\ Held' \subseteq Held
        /\ \A g \in Fibers \ {c} : fib'[g] = fib[g]
    BY ClientAlone, ClientCopies DEF Fibers
  <1>1. CASE OfferRow(c)
    <2>1. At(c, "offer") /\ UNCHANGED <<lanes, boot>>
      BY <1>1 DEF OfferRow
    <2>2. PICK id \in RowIds, w \in Works, level \in Levels :
             id = entrySeq + 1 /\ w = fib[c].copy.work /\ level = fib[c].copy.level
      BY <2>1, OfferedId
    <2>3. UNCHANGED Lapses
      BY <1>1, LapsesStay DEF OfferRow, Events
    <2>4. RowOf(w) = {}
      <3>1. c \in OfferOf(w)
        BY <2>1, <2>2 DEF OfferOf, Offering
      <3> QED
        BY <3>1, OfferedHasNoRow
    <2>5. Held' = Held
      BY <1>0, <2>1, ClientHeld
    <2>6. Offer(id, w, level) \/ UNCHANGED <<rows, ended>>
      BY <1>1, <2>2 DEF OfferRow
    <2> QED
      BY <2>1, <2>3, <2>4, <2>5, <2>6, OfferFollows, QuietFollows
  <1>2. CASE RestorePending(c)
    <2>1. PICK t \in fib[c].taken :
            \/ Offer(t.id, t.row.work, t.row.rank) /\ UNCHANGED left
            \/ Spend("fault") /\ UNCHANGED <<rows, stored, ended>>
      BY <1>2, Zenon DEF RestorePending
    <2>2. t.id \in RowIds /\ t.row.work \in Works
      BY <1>0 DEF Typed, FramesTyped, FrameTyped
    <2>3. UNCHANGED <<lanes, boot>>
      BY <1>2 DEF RestorePending, engine
    <2>4. UNCHANGED Lapses
      BY <2>1, LapsesStay DEF Events
    <2>5. RowOf(t.row.work) = {}
      <3>1. <<c, t>> \in TakenOf(t.row.work)
        BY <1>0 DEF TakenOf
      <3> QED
        BY <2>2, <3>1, OfferedHasNoRow
    <2>6. Held' = Held
      BY <1>0, <2>3, ClientHeld
    <2> QED
      BY <2>1, <2>2, <2>3, <2>4, <2>5, <2>6, OfferFollows, QuietFollows
  <1>3. CASE CallClear(c) \/ CallExtract(c)
    <2>1. PICK ids : /\ ids = Pending \/ ids \subseteq Available
                     /\ \/ Delete(ids) /\ ended' = ended \cup WorksOf(ids)
                        \/ UNCHANGED <<rows, ended>>
      BY <1>3 DEF CallClear, CallExtract, Matching
    <2>2. UNCHANGED <<lanes, boot>>
      BY <1>3 DEF CallClear, CallExtract, engine
    <2>3. UNCHANGED Lapses
      <3>1. left \in [Events -> Nat] /\ {"crash", "expire"} \subseteq Events
        BY DEF Typed, BudgetOK, Events
      <3>2. UNCHANGED <<left["crash"], left["expire"]>>
        BY <1>3, <3>1 DEF CallClear, CallExtract
      <3> QED
        BY <3>2, LapsesStay
    <2>4. Held' = Held
      BY <1>0, <2>2, ClientHeld
    <2> QED
      BY <2>1, <2>2, <2>3, <2>4, DeleteFollows, QuietFollows
  <1>4. CASE CallAdd(c) \/ CallShutdown(c) \/ WindDown(c) \/ PurgeLanes(c)
               \/ FinalizeRead(c) \/ FinalizeSet(c)
    <2>1. UNCHANGED <<rows, ended, boot>>
      BY <1>4 DEF CallAdd, CallShutdown, WindDown, PurgeLanes, FinalizeRead, FinalizeSet, engine
    <2>2. UNCHANGED Lapses
      BY <1>4, LapsesStay
         DEF CallAdd, CallShutdown, WindDown, PurgeLanes, FinalizeRead, FinalizeSet, Events
    <2> QED
      BY <1>0, <2>1, <2>2, QuietFollows
  <1> QED
    BY <1>1, <1>2, <1>3, <1>4 DEF ClientCall, ClientStep

(* A worker, and a feeder that could not decode, settle the lease.            *)
LEMMA SettleFollows ==
    ASSUME Typed, Named, Placed, Placed', NEW f \in Workers \cup {Feeder},
           Complete(f) \/ PersistFail(f)
    PROVE  Lifecycle!Next
  <1>0. /\ f \in Fibers /\ FramesTyped /\ fib[f].pc \in Holding
        /\ UNCHANGED <<lanes, boot>>
    BY DEF Fibers, Typed, Complete, PersistFail, At, Holding, engine
  <1>1. PICK copy \in CopyRecords : copy = fib[f].copy
    BY <1>0 DEF FramesTyped, FrameTyped
  <1>2. HandOf(f) = {copy} /\ copy \in Held
    BY <1>0, <1>1 DEF HandOf, Held
  <1>3. Held' \subseteq Held /\ Held \subseteq Held' \cup {copy}
    BY <1>0, <1>2, DropsHeld DEF Complete, PersistFail, Holding
  <1>4. UNCHANGED Lapses
    BY LapsesStay DEF Complete, PersistFail, Events
  <1>5. \/ Delete({copy.id}) /\ ended' = ended \cup {copy.work}
        \/ FailRow(copy.id) /\ UNCHANGED ended
        \/ UNCHANGED <<rows, ended>>
    BY <1>1 DEF Complete, PersistFail
  <1> QED
    BY <1>0, <1>2, <1>3, <1>4, <1>5, CompleteFollows, FailFollows, QuietFollows

LEMMA WorkerFollows ==
    ASSUME Typed, Named, Placed, Placed', NEW w \in Workers, WorkerStep(w)
    PROVE  Lifecycle!Next
  <1>1. CASE Complete(w) \/ PersistFail(w)
    BY <1>1, SettleFollows
  <1>2. CASE WorkerLoop(w) \/ TakeNext(w) \/ TakeNextEmpty(w) \/ SkipRateLimitedItem(w)
               \/ StartItem(w) \/ EffectExits(w) \/ FinalizeRead(w) \/ FinalizeSet(w)
    <2>1. UNCHANGED <<rows, ended, boot>>
      BY <1>2 DEF WorkerLoop, TakeNext, TakeNextEmpty, SkipRateLimitedItem, StartItem,
                  EffectExits, FinalizeRead, FinalizeSet, engine
    <2>2. UNCHANGED Lapses
      BY <1>2, LapsesStay
         DEF WorkerLoop, TakeNext, TakeNextEmpty, SkipRateLimitedItem, StartItem,
             EffectExits, FinalizeRead, FinalizeSet, Events
    <2> QED
      BY <2>1, <2>2, WorkerCopies, QuietFollows
  <1> QED
    BY <1>1, <1>2 DEF WorkerStep

LEMMA FeederFollows ==
    ASSUME Typed, FeederIsUp, Named, Placed, Placed', FeederStep
    PROVE  Lifecycle!Next
  <1>1. CASE FeederTake
    <2>1. PICK i \in RowIds :
            /\ IsTop(i) /\ Take(i)
            /\ Held' = Held \cup
                 {[id |-> i, work |-> rows[i].work, level |-> rows[i].rank]}
      BY <1>1, FeederTakes
    <2>2. HeldCopies' = HeldCopies \cup {rows[i].work}
      <3> DEFINE copy == [id |-> i, work |-> rows[i].work, level |-> rows[i].rank]
      <3>1. copy.work = rows[i].work
        OBVIOUS
      <3>2. Held' = Held \cup {copy}
        BY <2>1
      <3> HIDE DEF copy
      <3> QED
        BY <3>1, <3>2, HeldWorks, HeldWorksNext DEF HoldersKnown
    <2>3. boot = "up" /\ UNCHANGED <<boot, ended>>
      BY <1>1 DEF FeederTake, FeederIsUp, engine
    <2>4. UNCHANGED Lapses
      BY <1>1, LapsesStay DEF FeederTake, Events
    <2> QED
      BY <2>1, <2>2, <2>3, <2>4, TakeFollows DEF IsTop
  <1>2. CASE Complete(Feeder)
    BY <1>2, SettleFollows
  <1>3. CASE FeederCheck \/ FeederFindsNone \/ FeederPut
    <2>1. UNCHANGED <<rows, ended, boot>>
      BY <1>3 DEF FeederCheck, FeederFindsNone, FeederPut, engine
    <2>2. UNCHANGED Lapses
      BY <1>3, LapsesStay DEF FeederCheck, FeederFindsNone, FeederPut, Events
    <2> QED
      BY <1>1, <2>1, <2>2, FeederCopies, QuietFollows
  <1> QED
    BY <1>1, <1>2, <1>3 DEF FeederStep

LEMMA NextFollows ==
    ASSUME Typed, FeederIsUp, Named, OneSource, OneSource', Typed', Unheld, LeasesPend, Next
    PROVE  Lifecycle!Next
  <1>0. Placed /\ Placed'
    BY RowPlaces, RowPlacesNext
  <1>1. CASE ClaimStart
    <2>1. UNCHANGED <<rows, ended>> /\ boot # "up" /\ boot' # "up"
      BY <1>1 DEF ClaimStart
    <2>2. Held' = Held
      BY <1>1 DEF ClaimStart, Held, HandOf, LaneCopies
    <2>3. UNCHANGED Lapses
      BY <1>1, LapsesStay DEF ClaimStart
    <2> QED
      BY <1>0, <2>1, <2>2, <2>3, QuietFollows
  <1>2. CASE RecoverAndFork
    <2>1. UNCHANGED Lapses
      BY <1>2, LapsesStay DEF RecoverAndFork, Events
    <2> QED
      BY <1>0, <1>2, <2>1, RecoverFollows
  <1>3. CASE Crash
    BY <1>0, <1>3, CrashCopies, CrashFollows
  <1> QED
    BY <1>0, <1>1, <1>2, <1>3, ClientFollows, WorkerFollows, FeederFollows, ExpiryFollows
       DEF Next, Start

LEMMA InitFollows ==
    ASSUME Init
    PROVE  Lifecycle!Init /\ Unheld /\ LeasesPend
  <1>1. \A w : RowOf(w) = {}
    BY DEF Init, RowOf, LiveRows, NoRow
  <1>2. \A w \in Works : PlaceOf(w) = "new" /\ TriesOf(w) = 0
    <2>1. Placed
      BY InitTyped, InitPaid, RowPlaces
    <2> QED
      BY <1>1, <2>1 DEF Placed, Init
  <1>3. Lapses = 0
    <2>1. Budget \in [Events -> Nat] /\ {"crash", "expire"} \subseteq Events
      BY DurableAssumption DEF Events
    <2> QED
      BY <2>1 DEF Init, Lapses, Used
  <1>4. Held = {}
    <2>1. \A f \in Fibers : fib[f].pc \notin Holding
      BY FreshTyped DEF Init
    <2> QED
      BY <2>1 DEF Init, Held, HandOf, LaneCopies, Copies
  <1>5. LeasesPend
    BY DEF Init, LeasesPend, NoRow
  <1> QED
    BY <1>2, <1>3, <1>4, <1>5 DEF Lifecycle!Init, Lapses, Init, Unheld

(* Whatever the engines, feeders, workers and callers do, and whenever they     *)
(* crash, an entry of the table goes the way DurableLifecycle lays out          *)
(* (durableQueue.ts, offer, take, complete, fail, drain, clear and recover;     *)
(* queueResource.ts, feederLoop and processItem). The hypothesis is that of     *)
(* StoredIsKept: with an id made twice a late worker settles another's row.     *)
THEOREM ImplementsDurableLifecycle == Spec /\ AddsBeforeCrash => FollowsLifecycle
  <1> DEFINE I == Typed /\ Named /\ Countable /\ OneSource /\ Paid /\ Unheld /\ LeasesPend
  <1>1. Init => I /\ Lifecycle!Init
    BY InitTyped, InitNamed, InitPaid, InitFollows
  <1>2. I /\ IInv /\ [Next]_vars /\ [AddsNoMore]_vars
          => I' /\ [Lifecycle!Next]_(Lifecycle!vars)
    <2> SUFFICES ASSUME I, IInv, [Next]_vars, [AddsNoMore]_vars
                 PROVE  I' /\ [Lifecycle!Next]_(Lifecycle!vars)
      OBVIOUS
    <2>1. UNCHANGED vars => AddsNoMore
      BY DEF vars, AddsNoMore
    <2>2. FeederIsUp
      BY DEF IInv
    <2>3. Typed' /\ Named' /\ OneSource' /\ Paid' /\ Countable'
      BY <2>1, <2>2, NextTyped, NextNamed, NextPaid
    <2>4. Unheld' /\ LeasesPend'
      BY <2>2, NextUnheld, NextLeasesPend
    <2>5. CASE Next
      BY <2>2, <2>3, <2>4, <2>5, NextFollows
    <2>6. CASE UNCHANGED vars
      <3>1. UNCHANGED <<rows, lanes, fib, boot, left, ended>>
        BY <2>6 DEF vars, engine
      <3>2. \A w \in Works : PlaceOf(w)' = PlaceOf(w) /\ TriesOf(w)' = TriesOf(w)
        BY <3>1 DEF PlaceOf, TriesOf, RowOf, Row, LiveRows, HeldCopies, WorksInLanes
      <3> QED
        BY <2>3, <2>4, <3>1, <3>2 DEF Lifecycle!vars, Used
    <2> QED
      BY <2>3, <2>4, <2>5, <2>6
  <1> QED
    BY <1>1, <1>2, AttemptsInvariant, PTL
       DEF Spec, AddsBeforeCrash, FollowsLifecycle, Lifecycle!Spec
=============================================================================
