------------------------- MODULE ScopedStoreProofs -------------------------
(* For any registrations, contracts and shared cells: the store is well     *)
(* formed, a row only gets into a scope that shares its shape with the      *)
(* scope whose handle was used, a scope outgrows its maxRows by no more     *)
(* than what was not trimmed, and a row of an append that returned is shown *)
(* until as many newer ones are there.                                      *)
EXTENDS ScopedStore, FiniteSetTheorems, TLAPS

(* A cell is bound to a scope whose contract has it, and the cells of what  *)
(* was materialized are bound.                                              *)
Owned ==
    \A cell \in AllCells :
        binding[cell] # NoScope => cell \in CellsOf(Of(binding[cell]).contract)
Reached ==
    \A i \in 1..built : \A cell \in CellsOf(Registrations[i].contract) :
        binding[cell] # NoScope
(* An append that is under way shares its shape as its rows will.           *)
Shares(j) ==
    /\ j.shape \in DOMAIN Cells[Of(j.asked).contract]
    /\ j.shape \in DOMAIN Cells[Of(j.scope).contract]
    /\ CellFor(j.scope, j.shape) = CellFor(j.asked, j.shape)
JobsShare == \A c \in Clients : pc[c] # "idle" => Shares(job[c])
IInv == TypeOK /\ Owned /\ Reached /\ JobsShare /\ SharedOnly

LEMMA Registered ==
    /\ \A i \in 1..Len(Registrations) :
          /\ Registrations[i] \in [scope : Scopes, contract : Contracts, maxRows : Nat]
          /\ Of(Registrations[i].scope) = Registrations[i]
    /\ \A s \in Scopes : \E i \in 1..Len(Registrations) :
          s = Registrations[i].scope /\ Of(s) = Registrations[i]
    /\ \A s \in Scopes : Of(s).contract \in Contracts /\ Of(s).maxRows \in Nat
    /\ Len(Registrations) \in Nat
<1> DEFINE Record == [scope : Scopes, contract : Contracts, maxRows : Nat]
<1>1. Registrations \in Seq(Record)
  BY StoreAssumption
<1> HIDE DEF Record
<1>2. DOMAIN Registrations = 1..Len(Registrations) /\ Len(Registrations) \in Nat
  BY <1>1
<1>3. \A i \in 1..Len(Registrations) : Registrations[i] \in Record
  BY <1>1
<1>4. ASSUME NEW i \in 1..Len(Registrations)
      PROVE  Of(Registrations[i].scope) = Registrations[i]
  <2> DEFINE k == CHOOSE k \in DOMAIN Registrations :
                      Registrations[k].scope = Registrations[i].scope
  <2>1. k \in DOMAIN Registrations /\ Registrations[k].scope = Registrations[i].scope
    BY <1>2, <1>4
  <2>2. k = i
    BY <1>2, <1>4, <2>1, StoreAssumption
  <2> QED
    BY <2>2 DEF Of
<1>5. \A s \in Scopes : \E i \in 1..Len(Registrations) :
          s = Registrations[i].scope /\ Of(s) = Registrations[i]
  BY <1>2, <1>4 DEF Scopes
<1>6. \A s \in Scopes : Of(s).contract \in Contracts /\ Of(s).maxRows \in Nat
  BY <1>3, <1>5 DEF Record
<1> QED
  BY <1>2, <1>3, <1>4, <1>5, <1>6 DEF Record

(* What materializeContractHandle does to the cells.                        *)
LEMMA Binds ==
    ASSUME NEW s \in Scopes,
           binding \in [AllCells -> Scopes \cup {NoScope}], Owned
    PROVE  /\ Bound(s) \in [AllCells -> Scopes \cup {NoScope}]
           /\ \A cell \in CellsOf(Of(s).contract) : Bound(s)[cell] = s
           /\ \A cell \in AllCells : binding[cell] # NoScope => Bound(s)[cell] # NoScope
           /\ \A cell \in AllCells : Bound(s)[cell] # NoScope =>
                 cell \in CellsOf(Of(Bound(s)[cell]).contract)
<1>1. CellsOf(Of(s).contract) \subseteq AllCells
  BY Registered DEF AllCells
<1>2. NoScope \notin Scopes
  BY StoreAssumption
<1> QED
  BY <1>1, <1>2 DEF Bound, Owned

LEMMA AppendShares ==
    ASSUME IInv, Ready, NEW s \in Scopes, NEW x \in DOMAIN Cells[Of(s).contract]
    PROVE  LET to == binding[CellFor(s, x)]
           IN  /\ to \in Scopes
               /\ x \in DOMAIN Cells[Of(to).contract]
               /\ CellFor(to, x) = CellFor(s, x)
<1> DEFINE cell == CellFor(s, x)
           to == binding[cell]
<1>1. PICK i \in 1..Len(Registrations) : s = Registrations[i].scope /\ Of(s) = Registrations[i]
  BY Registered
<1>2. Of(s).contract \in Contracts
  BY Registered
<1>3. cell \in CellsOf(Of(s).contract) /\ cell \in AllCells
  BY <1>2 DEF CellFor, CellsOf, AllCells
<1>4. to # NoScope
  <2>1. i \in 1..built
    BY <1>1 DEF Ready
  <2> QED
    BY <1>1, <1>3, <2>1 DEF IInv, Reached
<1>5. to \in Scopes
  BY <1>3, <1>4 DEF IInv, TypeOK
<1>6. cell \in CellsOf(Of(to).contract)
  BY <1>3, <1>4 DEF IInv, Owned
<1>7. Of(to).contract \in Contracts
  BY <1>5, Registered
<1>8. PICK y \in DOMAIN Cells[Of(to).contract] : cell = Cells[Of(to).contract][y]
  BY <1>6 DEF CellsOf
<1>9. y = x
  BY <1>2, <1>7, <1>8, CellAssumption DEF CellFor
<1> QED
  BY <1>5, <1>8, <1>9 DEF CellFor

LEMMA ExcessNatural ==
    ASSUME TypeOK, NEW s \in Scopes
    PROVE  Excess(s) \in Nat
<1>1. IsFiniteSet(RowsOf(s))
  BY FS_Subset DEF TypeOK, RowsOf
<1>2. Cardinality(RowsOf(s)) \in Nat
  BY <1>1, FS_CardinalityType
<1>3. Of(s).maxRows \in Nat
  BY Registered
<1> QED
  BY <1>2, <1>3 DEF Excess

----------------------------------------------------------------------------
LEMMA Initially == Init => IInv
<1> SUFFICES ASSUME Init PROVE IInv
  OBVIOUS
<1>1. TypeOK
  <2>1. IsFiniteSet(written)
    BY FS_EmptySet DEF Init
  <2>2. 0 \in 0..Len(Registrations)
    BY Registered
  <2> QED
    BY <2>1, <2>2 DEF Init, TypeOK
<1>2. Owned /\ Reached /\ JobsShare /\ SharedOnly
  BY DEF Init, Owned, Reached, JobsShare, SharedOnly
<1> QED
  BY <1>1, <1>2 DEF IInv

(* Steps that bind cells.                                                   *)
LEMMA BuildKeeps == IInv /\ Build => IInv'
<1> SUFFICES ASSUME IInv, Build PROVE IInv'
  OBVIOUS
<1> DEFINE i == built + 1
           s == Registrations[i].scope
<1>1. built \in Nat /\ i \in 1..Len(Registrations) /\ Len(Registrations) \in Nat
  BY Registered DEF IInv, TypeOK, Build
<1>2. s \in Scopes /\ Of(s) = Registrations[i]
  BY <1>1, Registered
<1>3. /\ binding' \in [AllCells -> Scopes \cup {NoScope}]
      /\ \A cell \in CellsOf(Of(s).contract) : binding'[cell] = s
      /\ \A cell \in AllCells : binding[cell] # NoScope => binding'[cell] # NoScope
      /\ \A cell \in AllCells : binding'[cell] # NoScope =>
            cell \in CellsOf(Of(binding'[cell]).contract)
  BY <1>2, Binds DEF IInv, TypeOK, Build
<1>4. TypeOK'
  BY <1>1, <1>3 DEF IInv, TypeOK, Build, store, budget, Jobs, Rows
<1>5. Owned'
  BY <1>3 DEF Owned
<1>6. Reached'
  <2> SUFFICES ASSUME NEW k \in 1..built', NEW cell \in CellsOf(Registrations[k].contract)
               PROVE  binding'[cell] # NoScope
    BY DEF Reached
  <2>1. CASE k = i
    BY <1>2, <1>3, <2>1, StoreAssumption
  <2>2. CASE k # i
    <3>1. k \in 1..built /\ k \in 1..Len(Registrations)
      BY <1>1, <2>2 DEF Build
    <3>2. cell \in AllCells
      BY <3>1, Registered DEF AllCells
    <3> QED
      BY <1>3, <3>1, <3>2 DEF IInv, Reached
  <2> QED
    BY <2>1, <2>2
<1>7. JobsShare' /\ SharedOnly'
  BY DEF IInv, JobsShare, SharedOnly, Shares, Build, store
<1> QED
  BY <1>4, <1>5, <1>6, <1>7 DEF IInv

LEMMA MaterializeKeeps ==
    ASSUME NEW s \in Scopes, IInv, Materialize(s)
    PROVE  IInv'
<1>1. /\ binding' \in [AllCells -> Scopes \cup {NoScope}]
      /\ \A cell \in AllCells : binding[cell] # NoScope => binding'[cell] # NoScope
      /\ \A cell \in AllCells : binding'[cell] # NoScope =>
            cell \in CellsOf(Of(binding'[cell]).contract)
  BY Binds DEF IInv, TypeOK, Materialize
<1>2. TypeOK'
  BY <1>1 DEF IInv, TypeOK, Materialize, store, Jobs, Rows
<1>3. Owned'
  BY <1>1 DEF Owned
<1>4. Reached'
  <2> SUFFICES ASSUME NEW k \in 1..built', NEW cell \in CellsOf(Registrations[k].contract)
               PROVE  binding'[cell] # NoScope
    BY DEF Reached
  <2>1. k \in 1..built /\ k \in 1..Len(Registrations)
    BY Registered DEF IInv, TypeOK, Materialize
  <2>2. cell \in AllCells
    BY <2>1, Registered DEF AllCells
  <2> QED
    BY <1>1, <2>1, <2>2 DEF IInv, Reached
<1>5. JobsShare' /\ SharedOnly'
  BY DEF IInv, JobsShare, SharedOnly, Shares, Materialize, store
<1> QED
  BY <1>2, <1>3, <1>4, <1>5 DEF IInv

----------------------------------------------------------------------------
(* Steps of an append.                                                      *)
LEMMA CallAppendKeeps ==
    ASSUME NEW c \in Clients, NEW s \in Scopes, NEW x \in DOMAIN Cells[Of(s).contract],
           NEW n \in 1..MaxBatch, NEW custom \in BOOLEAN,
           IInv, CallAppend(c, s, x, n, custom)
    PROVE  IInv'
<1> DEFINE to == IF custom THEN binding[CellFor(s, x)] ELSE s
           j == [scope |-> to, asked |-> s, shape |-> x, left |-> n, rows |-> {}, excess |-> 0]
<1>1. to \in Scopes /\ x \in DOMAIN Cells[Of(to).contract] /\ CellFor(to, x) = CellFor(s, x)
  BY AppendShares DEF CallAppend
<1>2. x \in Shapes
  BY Registered DEF Shapes
<1>3. /\ job' = [job EXCEPT ![c] = j] /\ pc' = [pc EXCEPT ![c] = "write"]
      /\ UNCHANGED <<built, binding, now, written, journal, acked>>
  BY DEF CallAppend, budget
<1>4. j \in Jobs /\ j.left > 0
  BY <1>1, <1>2 DEF Jobs
<1>5. TypeOK'
  BY <1>3, <1>4 DEF IInv, TypeOK, Jobs, Rows
<1>6. JobsShare'
  <2>1. Shares(j)
    BY <1>1 DEF Shares
  <2> QED
    BY <1>3, <2>1 DEF IInv, TypeOK, JobsShare, Shares
<1>7. Owned' /\ Reached' /\ SharedOnly'
  BY <1>3 DEF IInv, Owned, Reached, SharedOnly
<1> QED
  BY <1>5, <1>6, <1>7 DEF IInv

(* What every step of an append leaves to prove: the rows and its own job.  *)
LEMMA AppendSteps ==
    ASSUME NEW c \in Clients, IInv,
           UNCHANGED <<built, binding>>, now' \in Nat,
           written' \subseteq Rows, IsFiniteSet(written'), written \subseteq written',
           journal' \subseteq written', acked' \subseteq written', SharedOnly',
           pc' \in [Clients -> {"idle", "write", "count", "delete"}],
           DOMAIN job' = Clients,
           \A d \in Clients \ {c} : pc'[d] = pc[d] /\ job'[d] = job[d],
           pc'[c] # "idle" =>
              /\ job'[c].scope = job[c].scope /\ job'[c].asked = job[c].asked
              /\ job'[c].shape = job[c].shape /\ job'[c] \in Jobs' /\ pc[c] # "idle",
           pc'[c] = "write" => job'[c].left > 0
    PROVE  IInv'
<1>1. ASSUME NEW d \in Clients, pc'[d] # "idle"
      PROVE  job'[d] \in Jobs'
  <2>1. CASE d = c
    BY <1>1, <2>1
  <2>2. CASE d # c
    <3>1. job'[d] = job[d] /\ job[d] \in Jobs
      BY <1>1, <2>2 DEF IInv, TypeOK
    <3> QED
      BY <3>1 DEF Jobs
  <2> QED
    BY <2>1, <2>2
<1>2. \A d \in Clients : pc'[d] = "write" => job'[d].left > 0
  BY DEF IInv, TypeOK
<1>3. TypeOK'
  BY <1>1, <1>2 DEF IInv, TypeOK, Rows
<1>4. JobsShare'
  <2> SUFFICES ASSUME NEW d \in Clients, pc'[d] # "idle" PROVE Shares(job[d])'
    BY DEF JobsShare
  <2>1. /\ job'[d].scope = job[d].scope /\ job'[d].asked = job[d].asked
        /\ job'[d].shape = job[d].shape /\ pc[d] # "idle"
    BY DEF IInv
  <2>2. Shares(job[d])
    BY <2>1 DEF IInv, JobsShare
  <2> QED
    BY <2>1, <2>2 DEF Shares
<1>5. Owned' /\ Reached'
  BY DEF IInv, Owned, Reached
<1> QED
  BY <1>3, <1>4, <1>5 DEF IInv

LEMMA WriteKeeps == ASSUME NEW c \in Clients, IInv, Write(c) PROVE IInv'
<1> DEFINE row == [id |-> Cardinality(written) + 1, scope |-> job[c].scope,
                   shape |-> job[c].shape, at |-> now, asked |-> job[c].asked]
           j == [job[c] EXCEPT !.left = @ - 1, !.rows = @ \cup {row}]
<1>1. pc[c] = "write" /\ job[c] \in Jobs /\ job[c].left > 0
  BY DEF Write, IInv, TypeOK
<1>2. row \in Rows
  BY <1>1, FS_CardinalityType DEF IInv, TypeOK, Rows, Jobs
<1>3. /\ written' = written \cup {row} /\ journal' = journal \cup {row}
      /\ UNCHANGED <<built, binding, now>>
  BY DEF Write, budget
<1>4. IsFiniteSet(written') /\ written' \subseteq Rows
  BY <1>2, <1>3, FS_AddElement DEF IInv, TypeOK
<1>5. SharedOnly'
  <2>1. CellFor(row.scope, row.shape) = CellFor(row.asked, row.shape)
    BY <1>1 DEF IInv, JobsShare, Shares
  <2>2. \A r \in written' : r \in written \/ r = row
    BY <1>3
  <2>3. \A r \in written' : CellFor(r.scope, r.shape) = CellFor(r.asked, r.shape)
    BY <2>1, <2>2 DEF IInv, SharedOnly
  <2> QED
    BY <2>3 DEF SharedOnly, CellFor, Of
<1>6. /\ j \in Jobs' /\ j.rows \subseteq written' /\ j.left \in Nat /\ j.scope = job[c].scope
      /\ j.asked = job[c].asked /\ j.shape = job[c].shape
  <2> HIDE DEF row
  <2>1. job[c] \in [scope : Scopes, asked : Scopes, shape : Shapes, left : Nat,
                    rows : SUBSET written, excess : Nat]
    BY <1>1 DEF Jobs
  <2>2. Jobs' = [scope : Scopes, asked : Scopes, shape : Shapes, left : Nat,
                 rows : SUBSET written', excess : Nat]
    BY DEF Jobs, Scopes, Shapes, Contracts
  <2>3. written' = written \cup {row} /\ job[c].left > 0
    BY <1>1, <1>3
  <2> DEFINE left == job[c].left - 1
             rows == job[c].rows \cup {row}
             k == [job[c] EXCEPT !.left = left, !.rows = rows]
  <2>4. k \in Jobs' /\ k.rows \subseteq written' /\ k.left \in Nat /\ k.scope = job[c].scope
        /\ k.asked = job[c].asked /\ k.shape = job[c].shape
    <3>1. left \in Nat /\ rows \in SUBSET written'
      BY <2>1, <2>3
    <3> HIDE DEF left, rows
    <3> QED
      BY <2>1, <2>2, <3>1
  <2>5. j = k
    OBVIOUS
  <2> QED
    BY <2>4, <2>5
<1>7. CASE Capped(j.scope) /\ sql # "none"
  <2>1. pc' = [pc EXCEPT ![c] = "count"] /\ job' = [job EXCEPT ![c] = j] /\ acked' = acked
    BY <1>7 DEF Write
  <2> QED
    BY <1>1, <1>3, <1>4, <1>5, <1>6, <2>1, AppendSteps DEF IInv, TypeOK
<1>8. CASE ~(Capped(j.scope) /\ sql # "none")
  <2>1. NextRow(c, j)
    BY <1>8 DEF Write
  <2>2. CASE j.left > 0
    <3> DEFINE k == [j EXCEPT !.excess = 0]
    <3>1. pc' = [pc EXCEPT ![c] = "write"] /\ job' = [job EXCEPT ![c] = k] /\ acked' = acked
      BY <2>1, <2>2 DEF NextRow
    <3>2. /\ k \in Jobs' /\ k.left > 0 /\ k.scope = job[c].scope
          /\ k.asked = job[c].asked /\ k.shape = job[c].shape
      BY <1>6, <2>2 DEF Jobs
    <3> QED
      BY <1>1, <1>3, <1>4, <1>5, <3>1, <3>2, AppendSteps DEF IInv, TypeOK
  <2>3. CASE ~(j.left > 0)
    <3>1. /\ pc' = [pc EXCEPT ![c] = "idle"] /\ job' = [job EXCEPT ![c] = NoJob]
          /\ acked' = acked \cup j.rows
      BY <2>1, <2>3 DEF NextRow
    <3> QED
      BY <1>3, <1>4, <1>5, <1>6, <3>1, AppendSteps DEF IInv, TypeOK
  <2> QED
    BY <2>2, <2>3
<1> QED
  BY <1>7, <1>8

(* The append goes on with its next row, or returns.                        *)
LEMMA NextRowKeeps ==
    ASSUME NEW c \in Clients, IInv, pc[c] # "idle", NextRow(c, job[c]),
           UNCHANGED <<built, binding, now, written>>, journal' \subseteq written
    PROVE  IInv'
<1>1. job[c] \in Jobs
  BY DEF IInv, TypeOK
<1>2. SharedOnly'
  BY DEF IInv, SharedOnly, CellFor, Of
<1>3. CASE job[c].left > 0
  <2> DEFINE k == [job[c] EXCEPT !.excess = 0]
  <2>1. pc' = [pc EXCEPT ![c] = "write"] /\ job' = [job EXCEPT ![c] = k] /\ acked' = acked
    BY <1>3 DEF NextRow
  <2>2. /\ k \in Jobs' /\ k.left > 0 /\ k.scope = job[c].scope
        /\ k.asked = job[c].asked /\ k.shape = job[c].shape
    BY <1>1, <1>3 DEF Jobs
  <2> QED
    BY <1>2, <2>1, <2>2, AppendSteps DEF IInv, TypeOK
<1>4. CASE ~(job[c].left > 0)
  <2>1. /\ pc' = [pc EXCEPT ![c] = "idle"] /\ job' = [job EXCEPT ![c] = NoJob]
        /\ acked' = acked \cup job[c].rows
    BY <1>4 DEF NextRow
  <2>2. job[c].rows \subseteq written
    BY <1>1 DEF Jobs
  <2> QED
    BY <1>2, <2>1, <2>2, AppendSteps DEF IInv, TypeOK
<1> QED
  BY <1>3, <1>4

LEMMA CountKeeps == ASSUME NEW c \in Clients, IInv, Count(c) PROVE IInv'
<1>1. pc[c] = "count" /\ UNCHANGED <<built, binding, now, written, journal>>
  BY DEF Count, budget
<1>2. job[c] \in Jobs
  BY <1>1 DEF IInv, TypeOK
<1>3. CASE Excess(job[c].scope) > 0
  <2> DEFINE k == [job[c] EXCEPT !.excess = Excess(job[c].scope)]
  <2>1. pc' = [pc EXCEPT ![c] = "delete"] /\ job' = [job EXCEPT ![c] = k] /\ acked' = acked
    BY <1>3 DEF Count
  <2>2. Excess(job[c].scope) \in Nat
    BY <1>2, ExcessNatural DEF IInv, Jobs
  <2>3. /\ k \in Jobs' /\ k.scope = job[c].scope
        /\ k.asked = job[c].asked /\ k.shape = job[c].shape
    BY <1>1, <1>2, <2>2 DEF Jobs
  <2>4. SharedOnly'
    BY <1>1 DEF IInv, SharedOnly, CellFor, Of
  <2> QED
    BY <1>1, <2>1, <2>3, <2>4, AppendSteps DEF IInv, TypeOK
<1>4. CASE ~(Excess(job[c].scope) > 0)
  BY <1>1, <1>4, NextRowKeeps DEF Count, IInv, TypeOK
<1> QED
  BY <1>3, <1>4

LEMMA DeleteKeeps == ASSUME NEW c \in Clients, IInv, Delete(c) PROVE IInv'
<1>1. /\ pc[c] # "idle" /\ NextRow(c, job[c])
      /\ UNCHANGED <<built, binding, now, written>>
  BY DEF Delete, budget
<1>2. journal' \subseteq written
  BY DEF Delete, IInv, TypeOK
<1> QED
  BY <1>1, <1>2, NextRowKeeps

LEMMA StopKeeps == ASSUME NEW c \in Clients, IInv, Stop(c) PROVE IInv'
<1>1. /\ pc' = [pc EXCEPT ![c] = "idle"] /\ job' = [job EXCEPT ![c] = NoJob]
      /\ UNCHANGED <<built, binding, now, written, journal, acked>>
  BY DEF Stop
<1>2. SharedOnly'
  BY <1>1 DEF IInv, SharedOnly, CellFor, Of
<1> QED
  BY <1>1, <1>2, AppendSteps DEF IInv, TypeOK

LEMMA RestartKeeps == IInv /\ Restart => IInv'
<1> SUFFICES ASSUME IInv, Restart PROVE IInv'
  OBVIOUS
<1>1. /\ built' = 0 /\ binding' = [cell \in AllCells |-> NoScope] /\ now' = now
      /\ pc' = [c \in Clients |-> "idle"] /\ job' = [c \in Clients |-> NoJob]
  BY DEF Restart
<1>2. /\ written' \subseteq written /\ IsFiniteSet(written')
      /\ journal' \subseteq written' /\ acked' \subseteq written'
  BY FS_EmptySet DEF Restart, IInv, TypeOK
<1>3. TypeOK'
  <2>1. 0 \in 0..Len(Registrations)
    BY Registered
  <2> QED
    BY <1>1, <1>2, <2>1 DEF IInv, TypeOK, Rows
<1>4. Owned' /\ Reached' /\ JobsShare'
  BY <1>1 DEF Owned, Reached, JobsShare
<1>5. SharedOnly'
  BY <1>2 DEF IInv, SharedOnly, CellFor, Of
<1> QED
  BY <1>3, <1>4, <1>5 DEF IInv

LEMMA TickKeeps == IInv /\ (Tick \/ UNCHANGED vars) => IInv'
<1> SUFFICES ASSUME IInv, Tick \/ UNCHANGED vars PROVE IInv'
  OBVIOUS
<1>1. UNCHANGED <<built, binding, pc, job, written, journal, acked>>
  BY DEF Tick, vars, store
<1>2. now' \in Nat
  BY DEF Tick, vars, budget, IInv, TypeOK
<1>3. TypeOK'
  BY <1>1, <1>2 DEF IInv, TypeOK, Jobs, Rows
<1> QED
  BY <1>1, <1>3 DEF IInv, Owned, Reached, JobsShare, Shares, SharedOnly

----------------------------------------------------------------------------
LEMMA StepKeeps == IInv /\ [Next]_vars => IInv'
<1> SUFFICES ASSUME IInv, [Next]_vars PROVE IInv'
  OBVIOUS
<1>1. CASE Build
  BY <1>1, BuildKeeps
<1>2. CASE Restart
  BY <1>2, RestartKeeps
<1>3. CASE Tick \/ AtRest \/ UNCHANGED vars
  BY <1>3, TickKeeps DEF AtRest
<1>4. CASE \E s \in Scopes : Materialize(s)
  BY <1>4, MaterializeKeeps
<1>5. CASE \E s \in Scopes, c \in Clients : \E x \in DOMAIN Cells[Of(s).contract],
             n \in 1..MaxBatch, custom \in BOOLEAN : CallAppend(c, s, x, n, custom)
  BY <1>5, CallAppendKeeps
<1>6. CASE \E c \in Clients : Write(c) \/ Count(c) \/ CountFails(c) \/ Delete(c) \/ Cut(c)
  BY <1>6, WriteKeeps, CountKeeps, DeleteKeeps, StopKeeps DEF CountFails, Cut
<1> QED
  BY <1>1, <1>2, <1>3, <1>4, <1>5, <1>6 DEF Next

LEMMA Inductive == Spec => []IInv
BY Initially, StepKeeps, PTL DEF Spec

(* The journal, the cells and the appends under way are well formed.        *)
THEOREM StoreTyped == Spec => []TypeOK
<1>1. IInv => TypeOK
  BY DEF IInv
<1> QED
  BY Inductive, <1>1, PTL

(* A row gets into the scope whose handle was used or into one whose        *)
(* contract shares the shape, whatever is materialized when, with any number *)
(* of clients, contracts and registrations.                                 *)
THEOREM RowsStayShared == Spec => []SharedOnly
<1>1. IInv => SharedOnly
  BY DEF IInv
<1> QED
  BY Inductive, <1>1, PTL

----------------------------------------------------------------------------
(* What the trims rely on. Rows are numbered as they are written, an append   *)
(* knows the rows that it wrote and that nobody counts as cut short, it trims *)
(* only what has a cap, and deletes something.                                *)
Fresh ==
    /\ untrimmed \subseteq written
    /\ \A r \in written : r.id <= Cardinality(written)
JobKeeps(c) ==
    /\ \A r \in job[c].rows : r.scope = job[c].scope /\ r \notin untrimmed
    /\ pc[c] \in {"count", "delete"} => job[c].rows # {} /\ Capped(job[c].scope)
    /\ pc[c] = "delete" => job[c].excess > 0
RowsApart == \A c, d \in Busy : c # d => job[c].rows \cap job[d].rows = {}
Tallied == Fresh /\ RowsApart /\ \A c \in Busy : JobKeeps(c)

(* Where appends do not overlap, nothing comes between the count of the rows  *)
(* and the deletion of the excess, so that a row that is gone has a full      *)
(* scope of rows as new.                                                      *)
Alone == \A c, d \in Busy : c # d /\ job[c].scope = job[d].scope => job[c].scope \in raced
Measured ==
    \A c \in Clients :
        pc[c] = "delete" /\ job[c].scope \notin raced => job[c].excess = Excess(job[c].scope)
WrittenTo(s) == {r \in written : r.scope = s}
Crowded(r) ==
    Capped(r.scope) /\ Cardinality(Newer(r, WrittenTo(r.scope))) >= Of(r.scope).maxRows
OldestGone == \A r \in written \ journal : r.scope \in raced \/ Crowded(r)
Ordered == Alone /\ Measured /\ OldestGone

Untrimmed(s) == {r \in untrimmed : r.scope = s}

LEMMA FiniteSets ==
    ASSUME TypeOK, untrimmed \subseteq written, NEW s
    PROVE  /\ IsFiniteSet(RowsOf(s)) /\ Cardinality(RowsOf(s)) \in Nat
           /\ IsFiniteSet(Untrimmed(s)) /\ Cardinality(Untrimmed(s)) \in Nat
           /\ IsFiniteSet(Trimming(s)) /\ Cardinality(Trimming(s)) \in Nat
           /\ IsFiniteSet(WrittenTo(s)) /\ Cardinality(written) \in Nat
<1>1. /\ RowsOf(s) \in SUBSET written /\ Untrimmed(s) \in SUBSET written
      /\ WrittenTo(s) \in SUBSET written /\ Trimming(s) \in SUBSET Clients
      /\ IsFiniteSet(written) /\ IsFiniteSet(Clients)
  BY StoreAssumption DEF TypeOK, RowsOf, Untrimmed, WrittenTo, Trimming
<1>2. /\ IsFiniteSet(RowsOf(s)) /\ IsFiniteSet(Untrimmed(s)) /\ IsFiniteSet(WrittenTo(s))
      /\ IsFiniteSet(Trimming(s))
  BY <1>1, FS_Subset
<1> QED
  BY <1>1, <1>2, FS_CardinalityType

(* A step of c in an append leaves the other appends alone.                   *)
OwnStep(c) ==
    /\ \A d \in Clients \ {c} : pc'[d] = pc[d] /\ job'[d] = job[d]
    /\ pc'[c] # "idle" => pc[c] # "idle" /\ job'[c].scope = job[c].scope
    /\ raced' = raced

LEMMA OwnBusy ==
    ASSUME NEW c \in Clients, OwnStep(c)
    PROVE  /\ \A d \in Busy' : d \in Busy /\ job'[d].scope = job[d].scope
           /\ \A d \in Busy' : d # c => job'[d] = job[d] /\ pc'[d] = pc[d]
BY DEF OwnStep, Busy

LEMMA TalliedSteps ==
    ASSUME Tallied, NEW c \in Clients, OwnStep(c), Fresh',
           pc'[c] # "idle" => JobKeeps(c)',
           \A d \in Busy : d # c => \A r \in job[d].rows : r \notin untrimmed',
           pc'[c] # "idle" => \A d \in Busy : d # c => job'[c].rows \cap job[d].rows = {}
    PROVE  Tallied'
<1>1. ASSUME NEW d \in Busy' PROVE JobKeeps(d)'
  <2>1. CASE d = c
    BY <2>1 DEF Busy
  <2>2. CASE d # c
    BY <2>2, OwnBusy DEF Tallied, JobKeeps, Capped, Of
  <2> QED
    BY <2>1, <2>2
<1>2. RowsApart'
  <2> SUFFICES ASSUME NEW d \in Busy', NEW e \in Busy', d # e
               PROVE  job'[d].rows \cap job'[e].rows = {}
    BY DEF RowsApart
  <2>1. CASE d # c /\ e # c
    BY <2>1, OwnBusy DEF Tallied, RowsApart
  <2>2. CASE d = c
    BY <2>2, OwnBusy DEF Busy
  <2>3. CASE e = c
    BY <2>3, OwnBusy DEF Busy
  <2> QED
    BY <2>1, <2>2, <2>3
<1> QED
  BY <1>1, <1>2 DEF Tallied

LEMMA AloneSteps ==
    ASSUME Alone, NEW c \in Clients, OwnStep(c)
    PROVE  Alone'
<1> SUFFICES ASSUME NEW d \in Busy', NEW e \in Busy', d # e, job'[d].scope = job'[e].scope
             PROVE  job'[d].scope \in raced'
  BY DEF Alone
<1> QED
  BY OwnBusy DEF Alone, OwnStep

LEMMA MeasuredSteps ==
    ASSUME TypeOK, Alone, Measured, NEW c \in Clients, OwnStep(c), pc[c] # "idle",
           NEW s, s = job[c].scope,
           \A t : t # s => RowsOf(t)' = RowsOf(t),
           pc'[c] = "delete" /\ s \notin raced => job'[c].excess = Excess(s)'
    PROVE  Measured'
<1> SUFFICES ASSUME NEW d \in Clients, pc'[d] = "delete", job'[d].scope \notin raced'
             PROVE  job'[d].excess = Excess(job[d].scope)'
  BY DEF Measured
<1>1. PICK t : t = job'[d].scope
  OBVIOUS
<1>2. job[d].scope = t /\ t \notin raced /\ d \in Busy /\ d \in Busy'
  BY <1>1, OwnBusy DEF Busy, OwnStep
<1>3. job'[d].excess = Excess(t)'
  <2>1. CASE d = c
    BY <1>2, <2>1
  <2>2. CASE d # c
    <3>1. t # s /\ pc[d] = "delete" /\ job'[d] = job[d]
      BY <1>2, <2>2 DEF Alone, Busy, OwnStep
    <3>2. job[d].excess = Excess(t)
      BY <1>2, <3>1 DEF Measured
    <3>3. Excess(t)' = Excess(t)
      BY <3>1 DEF Excess, Of
    <3> QED
      BY <3>1, <3>2, <3>3
  <2> QED
    BY <2>1, <2>2
<1> QED
  BY <1>1, <1>3

LEMMA CrowdedStays ==
    ASSUME TypeOK, TypeOK', written \subseteq written', NEW r \in written, Crowded(r)
    PROVE  Crowded(r)'
<1> DEFINE N == Newer(r, WrittenTo(r.scope))
           M == Newer(r, {x \in written' : x.scope = r.scope})
<1>1. N \subseteq M /\ M \subseteq written' /\ IsFiniteSet(written')
  BY DEF Newer, WrittenTo, TypeOK
<1>2. IsFiniteSet(M) /\ IsFiniteSet(N) /\ Cardinality(N) <= Cardinality(M)
  <2> HIDE DEF N, M
  <2>1. IsFiniteSet(M)
    BY <1>1, FS_Subset
  <2> QED
    BY <1>1, <2>1, FS_Subset
<1>3. Cardinality(N) \in Nat /\ Cardinality(M) \in Nat
  BY <1>2, FS_CardinalityType
<1>4. Of(r.scope)' = Of(r.scope) /\ Capped(r.scope)' = Capped(r.scope)
      /\ Newer(r, WrittenTo(r.scope))' = M
  BY DEF Of, Capped, Newer, WrittenTo
<1>5. Cardinality(N) >= Of(r.scope).maxRows /\ Capped(r.scope)
  BY DEF Crowded
<1>6. Of(r.scope).maxRows \in Nat
  BY Registered DEF TypeOK, Rows
<1> QED
  BY <1>2, <1>3, <1>4, <1>5, <1>6 DEF Crowded

LEMMA OldestSteps ==
    ASSUME TypeOK, TypeOK', OldestGone, written \subseteq written', raced \subseteq raced',
           \A r \in written' \ journal' :
              r \in written \ journal \/ r.scope \in raced' \/ Crowded(r)'
    PROVE  OldestGone'
<1> SUFFICES ASSUME NEW r \in written' \ journal', r.scope \notin raced'
             PROVE  Crowded(r)'
  BY DEF OldestGone
<1>1. CASE r \in written \ journal
  <2>1. Crowded(r)
    BY <1>1 DEF OldestGone
  <2> QED
    BY <1>1, <2>1, CrowdedStays
<1> QED
  BY <1>1

(* The bound of a scope, and what steps do to its parts.                      *)
BoundAt(s) ==
    Cardinality(RowsOf(s)) <=
        Of(s).maxRows + Cardinality(Trimming(s)) + Cardinality(Untrimmed(s))

LEMMA BoundsAreBound ==
    sql = "own" => (DiskBounded <=> \A s \in Scopes : Capped(s) => BoundAt(s))
BY DEF DiskBounded, BoundAt, Untrimmed

LEMMA SameBound ==
    ASSUME NEW s, BoundAt(s), RowsOf(s)' = RowsOf(s), Trimming(s)' = Trimming(s),
           Untrimmed(s)' = Untrimmed(s)
    PROVE  BoundAt(s)'
BY DEF BoundAt, Of

LEMMA OthersTrimming ==
    ASSUME NEW c \in Clients, OwnStep(c), NEW s
    PROVE  /\ Trimming(s)' \ {c} = Trimming(s) \ {c}
           /\ c \in Trimming(s)' => job[c].scope = s /\ pc'[c] \in {"count", "delete"}
BY DEF Trimming, OwnStep

LEMMA SameTrimming ==
    ASSUME NEW c \in Clients, OwnStep(c), NEW s,
           c \in Trimming(s) <=> c \in Trimming(s)'
    PROVE  Trimming(s)' = Trimming(s)
<1>1. Trimming(s)' \ {c} = Trimming(s) \ {c}
  BY OthersTrimming
<1> QED
  BY <1>1

LEMMA OneTrimLess ==
    ASSUME TypeOK, untrimmed \subseteq written, NEW c \in Clients, OwnStep(c), NEW s,
           c \in Trimming(s), c \notin Trimming(s)'
    PROVE  Cardinality(Trimming(s)') = Cardinality(Trimming(s)) - 1
<1>1. Trimming(s)' = Trimming(s) \ {c}
  <2>1. Trimming(s)' \ {c} = Trimming(s) \ {c}
    BY OthersTrimming
  <2> QED
    BY <2>1
<1> QED
  BY <1>1, FiniteSets, FS_RemoveElement

LEMMA OneTrimMore ==
    ASSUME TypeOK, untrimmed \subseteq written, NEW c \in Clients, OwnStep(c), NEW s,
           c \notin Trimming(s), c \in Trimming(s)'
    PROVE  Cardinality(Trimming(s)') = Cardinality(Trimming(s)) + 1
<1>1. Trimming(s)' = Trimming(s) \cup {c}
  <2>1. Trimming(s)' \ {c} = Trimming(s) \ {c}
    BY OthersTrimming
  <2> QED
    BY <2>1
<1> QED
  BY <1>1, FiniteSets, FS_AddElement

(* What an append must keep true beyond its types.                            *)
Book == Tallied /\ Ordered /\ DiskBounded

----------------------------------------------------------------------------
LEMMA WriteBooks ==
    ASSUME NEW c \in Clients, IInv, IInv', Book, Write(c)
    PROVE  Book'
<1>0. PICK s, row, j :
        /\ s = job[c].scope
        /\ row = [id |-> Cardinality(written) + 1, scope |-> job[c].scope,
                  shape |-> job[c].shape, at |-> now, asked |-> job[c].asked]
        /\ j = [job[c] EXCEPT !.left = @ - 1, !.rows = @ \cup {row}]
  OBVIOUS
<1>1. /\ pc[c] = "write" /\ job[c] \in Jobs /\ s \in Scopes
      /\ journal' = journal \cup {row} /\ written' = written \cup {row}
      /\ UNCHANGED <<untrimmed, raced, sql>>
      /\ IF Capped(j.scope) /\ sql # "none"
         THEN pc' = [pc EXCEPT ![c] = "count"] /\ job' = [job EXCEPT ![c] = j]
         ELSE NextRow(c, j)
  BY <1>0 DEF Write, IInv, TypeOK, Jobs
<1>2. /\ j.scope = s /\ j.rows = job[c].rows \cup {row} /\ row.scope = s
      /\ row.id = Cardinality(written) + 1
  BY <1>0, <1>1 DEF Jobs
<1>3. /\ OwnStep(c)
      /\ pc'[c] # "idle" => job'[c].rows = j.rows /\ pc'[c] # "delete"
      /\ pc'[c] = "count" <=> Capped(s) /\ sql # "none"
  <2>0. pc \in [Clients -> {"idle", "write", "count", "delete"}] /\ DOMAIN job = Clients
    BY DEF IInv, TypeOK
  <2>1. CASE Capped(s) /\ sql # "none"
    <3>1. pc' = [pc EXCEPT ![c] = "count"] /\ job' = [job EXCEPT ![c] = j]
      BY <1>1, <1>2, <2>1
    <3> QED
      BY <1>0, <1>1, <1>2, <2>0, <2>1, <3>1 DEF OwnStep
  <2>2. CASE ~(Capped(s) /\ sql # "none") /\ j.left > 0
    <3>1. PICK k : k = [j EXCEPT !.excess = 0]
      OBVIOUS
    <3>2. pc' = [pc EXCEPT ![c] = "write"] /\ job' = [job EXCEPT ![c] = k]
      BY <1>1, <1>2, <2>2, <3>1 DEF NextRow
    <3>3. k.scope = s /\ k.rows = j.rows
      BY <1>0, <1>1, <1>2, <3>1 DEF Jobs
    <3> QED
      BY <1>0, <1>1, <2>0, <2>2, <3>2, <3>3 DEF OwnStep
  <2>3. CASE ~(Capped(s) /\ sql # "none") /\ ~(j.left > 0)
    <3>1. pc' = [pc EXCEPT ![c] = "idle"] /\ job' = [job EXCEPT ![c] = NoJob]
      BY <1>1, <1>2, <2>3 DEF NextRow
    <3> QED
      BY <1>1, <2>0, <2>3, <3>1 DEF OwnStep
  <2> QED
    BY <2>1, <2>2, <2>3
<1>4. TypeOK /\ TypeOK' /\ untrimmed \subseteq written
  BY DEF IInv, Book, Tallied, Fresh
<1>5. row \notin written
  <2>1. Cardinality(written) \in Nat /\ ~(Cardinality(written) + 1 <= Cardinality(written))
    BY <1>4, FiniteSets
  <2> QED
    BY <1>2, <2>1 DEF Book, Tallied, Fresh
<1>6. Cardinality(written') = Cardinality(written) + 1 /\ Cardinality(written) \in Nat
  BY <1>1, <1>4, <1>5, FS_AddElement, FS_CardinalityType DEF TypeOK
<1>7. Tallied'
  <2>1. Fresh'
    <3>1. ASSUME NEW r \in written' PROVE r.id <= Cardinality(written')
      <4>1. CASE r \in written
        <5>1. r.id <= Cardinality(written) /\ r.id \in Nat
          BY <1>4, <4>1 DEF Book, Tallied, Fresh, TypeOK, Rows
        <5> QED
          BY <1>6, <5>1
      <4>2. CASE r = row
        BY <1>2, <1>6, <4>2
      <4> QED
        BY <1>1, <4>1, <4>2
    <3> QED
      BY <1>1, <1>4, <3>1 DEF Fresh
  <2>2. c \in Busy /\ JobKeeps(c)
    BY <1>1 DEF Busy, Book, Tallied
  <2>3. pc'[c] # "idle" => JobKeeps(c)'
    <3> SUFFICES ASSUME pc'[c] # "idle" PROVE JobKeeps(c)'
      OBVIOUS
    <3>1. /\ job'[c].rows = job[c].rows \cup {row} /\ job'[c].scope = s
          /\ pc'[c] # "delete"
      BY <1>0, <1>2, <1>3 DEF OwnStep
    <3>2. \A r \in job'[c].rows : r.scope = s /\ r \notin untrimmed'
      BY <1>0, <1>1, <1>2, <1>4, <1>5, <2>2, <3>1 DEF JobKeeps
    <3>3. pc'[c] = "count" => Capped(s)'
      BY <1>3 DEF Capped, Of
    <3>4. job'[c].rows # {}
      BY <3>1
    <3> QED
      BY <3>1, <3>2, <3>3, <3>4 DEF JobKeeps, Capped, Of
  <2>4. ASSUME NEW d \in Busy, d # c
        PROVE  /\ \A r \in job[d].rows : r \notin untrimmed'
               /\ pc'[c] # "idle" => job'[c].rows \cap job[d].rows = {}
    <3>1. JobKeeps(d) /\ job[d].rows \cap job[c].rows = {}
      BY <2>2, <2>4 DEF Book, Tallied, RowsApart
    <3>2. job[d].rows \subseteq written
      BY <1>4, <2>4 DEF Busy, TypeOK, Jobs
    <3> QED
      BY <1>1, <1>2, <1>3, <1>5, <3>1, <3>2 DEF JobKeeps
  <2> QED
    BY <1>3, <2>1, <2>3, <2>4, TalliedSteps DEF Book
<1>8. \A t : t # s => RowsOf(t)' = RowsOf(t)
  BY <1>1, <1>2 DEF RowsOf
<1>9. Ordered'
  <2>1. Alone'
    BY <1>3, AloneSteps DEF Book, Ordered
  <2>2. Measured'
    <3>1. pc'[c] # "delete"
      BY <1>3
    <3> QED
      BY <1>0, <1>1, <1>3, <1>4, <1>8, <3>1, MeasuredSteps DEF Book, Ordered
  <2>3. OldestGone'
    <3>1. written' \ journal' \subseteq written \ journal
      BY <1>1
    <3>2. written \subseteq written' /\ raced \subseteq raced'
      BY <1>1
    <3> QED
      BY <1>4, <3>1, <3>2, OldestSteps DEF Book, Ordered
  <2> QED
    BY <2>1, <2>2, <2>3 DEF Ordered
<1>10. DiskBounded'
  <2> SUFFICES ASSUME sql' = "own" PROVE DiskBounded'
    BY DEF DiskBounded
  <2>1. sql = "own" /\ \A t \in Scopes : Capped(t) => BoundAt(t)
    BY <1>1, BoundsAreBound DEF Book
  <2> SUFFICES ASSUME NEW t \in Scopes, Capped(t) PROVE BoundAt(t)'
    BY DEF DiskBounded, BoundAt, Untrimmed, Capped, Of
  <2>2. c \notin Trimming(t) /\ Untrimmed(t)' = Untrimmed(t)
    BY <1>1 DEF Trimming, Untrimmed
  <2>3. CASE t # s
    <3>1. c \notin Trimming(t)'
      BY <1>0, <1>3, <2>3, OthersTrimming
    <3> QED
      BY <1>3, <1>8, <2>1, <2>2, <2>3, <3>1, SameTrimming, SameBound
  <2>4. CASE t = s
    <3>1. c \in Trimming(t)'
      BY <1>0, <1>3, <2>1, <2>4 DEF Trimming, OwnStep
    <3>2. Cardinality(Trimming(t)') = Cardinality(Trimming(t)) + 1
      BY <1>3, <1>4, <2>2, <3>1, OneTrimMore
    <3>3. RowsOf(t)' = RowsOf(t) \cup {row}
      BY <1>1, <1>2, <2>4 DEF RowsOf
    <3>4. /\ Cardinality(RowsOf(t)') <= Cardinality(RowsOf(t)) + 1
          /\ Cardinality(RowsOf(t)') \in Nat
      <4>1. PICK R, Q : R = RowsOf(t) /\ Q = RowsOf(t)'
        OBVIOUS
      <4>2. Q = R \cup {row} /\ IsFiniteSet(R) /\ Cardinality(R) \in Nat
        BY <1>4, <3>3, <4>1, FiniteSets
      <4>3. Cardinality(Q) = IF row \in R THEN Cardinality(R) ELSE Cardinality(R) + 1
        BY <4>2, FS_AddElement
      <4> QED
        BY <4>1, <4>2, <4>3
    <3>5. /\ Cardinality(RowsOf(t)) \in Nat /\ Of(t).maxRows \in Nat
          /\ Cardinality(Trimming(t)) \in Nat /\ Cardinality(Untrimmed(t)) \in Nat
      BY <1>4, FiniteSets, Registered
    <3>6. BoundAt(t)
      BY <2>1
    <3> QED
      BY <2>2, <3>2, <3>4, <3>5, <3>6 DEF BoundAt, Of
  <2> QED
    BY <2>3, <2>4
<1> QED
  BY <1>7, <1>9, <1>10 DEF Book

LEMMA NextRowFrame ==
    ASSUME TypeOK, NEW c \in Clients, pc[c] # "idle", NextRow(c, job[c]), raced' = raced
    PROVE  /\ OwnStep(c) /\ pc'[c] \in {"write", "idle"}
           /\ pc'[c] # "idle" => job'[c].rows = job[c].rows
<1>1. job[c] \in Jobs /\ DOMAIN job = Clients
      /\ pc \in [Clients -> {"idle", "write", "count", "delete"}]
  BY DEF TypeOK
<1>2. CASE job[c].left > 0
  <2>1. PICK k : k = [job[c] EXCEPT !.excess = 0]
    OBVIOUS
  <2>2. pc' = [pc EXCEPT ![c] = "write"] /\ job' = [job EXCEPT ![c] = k]
    BY <1>2, <2>1 DEF NextRow
  <2>3. k.scope = job[c].scope /\ k.rows = job[c].rows
    BY <1>1, <2>1 DEF Jobs
  <2> QED
    BY <1>1, <2>2, <2>3 DEF OwnStep
<1>3. CASE ~(job[c].left > 0)
  <2>1. pc' = [pc EXCEPT ![c] = "idle"] /\ job' = [job EXCEPT ![c] = NoJob]
    BY <1>3 DEF NextRow
  <2> QED
    BY <1>1, <2>1 DEF OwnStep
<1> QED
  BY <1>2, <1>3

(* A step of c that writes nothing and leaves what it knows of its rows.      *)
LEMMA TalliedKept ==
    ASSUME Tallied, NEW c \in Clients, pc[c] # "idle", OwnStep(c),
           UNCHANGED <<untrimmed, written>>,
           pc'[c] # "idle" =>
              /\ job'[c].rows = job[c].rows
              /\ pc'[c] \in {"count", "delete"} => pc[c] \in {"count", "delete"}
              /\ pc'[c] = "delete" => job'[c].excess > 0
    PROVE  Tallied'
<1>1. c \in Busy /\ JobKeeps(c)
  BY DEF Busy, Tallied
<1>2. Fresh'
  BY DEF Tallied, Fresh
<1>3. pc'[c] # "idle" => JobKeeps(c)'
  BY <1>1 DEF JobKeeps, Capped, Of, OwnStep
<1>4. ASSUME NEW d \in Busy, d # c
      PROVE  /\ \A r \in job[d].rows : r \notin untrimmed'
             /\ pc'[c] # "idle" => job'[c].rows \cap job[d].rows = {}
  BY <1>1, <1>4 DEF Tallied, JobKeeps, RowsApart
<1> QED
  BY <1>2, <1>3, <1>4, TalliedSteps

LEMMA BoundNext ==
    ASSUME sql' = sql,
           ASSUME sql = "own", NEW t \in Scopes, Capped(t), BoundAt(t)
           PROVE  BoundAt(t)',
           DiskBounded
    PROVE  DiskBounded'
<1> SUFFICES ASSUME sql' = "own" PROVE DiskBounded'
  BY DEF DiskBounded
<1>1. sql = "own" /\ \A t \in Scopes : Capped(t) => BoundAt(t)
  BY BoundsAreBound
<1>2. \A t \in Scopes : Capped(t) => BoundAt(t)'
  BY <1>1
<1> QED
  BY <1>2 DEF DiskBounded, BoundAt, Untrimmed, Capped, Of

LEMMA CountBooks ==
    ASSUME NEW c \in Clients, IInv, IInv', Book, Count(c)
    PROVE  Book'
<1>0. PICK s, n : s = job[c].scope /\ n = Excess(s)
  OBVIOUS
<1>1. /\ pc[c] = "count" /\ job[c] \in Jobs /\ s \in Scopes
      /\ UNCHANGED <<journal, written, untrimmed, raced, sql>>
      /\ \/ /\ n > 0 /\ pc' = [pc EXCEPT ![c] = "delete"]
            /\ job' = [job EXCEPT ![c].excess = n]
         \/ ~(n > 0) /\ NextRow(c, job[c])
  BY <1>0 DEF Count, IInv, TypeOK, Jobs
<1>2. /\ pc \in [Clients -> {"idle", "write", "count", "delete"}] /\ DOMAIN job = Clients
      /\ TypeOK /\ TypeOK' /\ untrimmed \subseteq written
  BY DEF IInv, TypeOK, Book, Tallied, Fresh
<1>3. /\ OwnStep(c)
      /\ pc'[c] # "idle" => job'[c].rows = job[c].rows
      /\ pc'[c] = "delete" => job'[c].excess = n /\ n > 0
      /\ pc'[c] # "delete" => ~(n > 0) /\ pc'[c] \in {"write", "idle"}
  <2>1. CASE n > 0 /\ pc' = [pc EXCEPT ![c] = "delete"] /\ job' = [job EXCEPT ![c].excess = n]
    <3>1. PICK k : k = [job[c] EXCEPT !.excess = n]
      OBVIOUS
    <3>2. job' = [job EXCEPT ![c] = k]
      BY <2>1, <3>1
    <3>3. k.scope = job[c].scope /\ k.rows = job[c].rows /\ k.excess = n
      BY <1>1, <3>1 DEF Jobs
    <3> QED
      BY <1>1, <1>2, <2>1, <3>2, <3>3 DEF OwnStep
  <2>2. CASE ~(n > 0) /\ NextRow(c, job[c])
    BY <1>1, <1>2, <2>2, NextRowFrame
  <2> QED
    BY <1>1, <2>1, <2>2
<1>4. Tallied'
  BY <1>1, <1>3, TalliedKept DEF Book
<1>5. \A t : RowsOf(t)' = RowsOf(t)
  BY <1>1 DEF RowsOf
<1>6. Ordered'
  <2>1. Alone'
    BY <1>3, AloneSteps DEF Book, Ordered
  <2>2. Measured'
    <3>1. pc'[c] = "delete" /\ s \notin raced => job'[c].excess = Excess(s)'
      BY <1>0, <1>3, <1>5 DEF Excess, Of
    <3> QED
      BY <1>0, <1>1, <1>2, <1>3, <1>5, <3>1, MeasuredSteps DEF Book, Ordered
  <2>3. OldestGone'
    BY <1>1, <1>2, OldestSteps DEF Book, Ordered
  <2> QED
    BY <2>1, <2>2, <2>3 DEF Ordered
<1>7. DiskBounded'
  <2>1. ASSUME sql = "own", NEW t \in Scopes, Capped(t), BoundAt(t)
        PROVE  BoundAt(t)'
    <3>1. Untrimmed(t)' = Untrimmed(t)
      BY <1>1 DEF Untrimmed
    <3>2. CASE t = s /\ pc'[c] # "delete"
      <4>1. /\ Cardinality(RowsOf(t)) \in Nat /\ Cardinality(Trimming(t))' \in Nat
            /\ Cardinality(Untrimmed(t)) \in Nat /\ Of(t).maxRows \in Nat
        <5>1. Cardinality(Trimming(t))' \in Nat
          <6>1. Trimming(t)' \in SUBSET Clients /\ IsFiniteSet(Clients)
            BY StoreAssumption DEF Trimming
          <6> QED
            BY <6>1, FS_Subset, FS_CardinalityType
        <5> QED
          BY <1>2, <5>1, FiniteSets, Registered
      <4>2. Cardinality(RowsOf(t)) <= Of(t).maxRows
        BY <1>0, <1>3, <3>2, <4>1 DEF Excess
      <4> QED
        BY <1>5, <3>1, <4>1, <4>2 DEF BoundAt, Of
    <3>3. CASE ~(t = s /\ pc'[c] # "delete")
      <4>1. c \in Trimming(t) <=> c \in Trimming(t)'
        BY <1>0, <1>1, <1>3, <3>3 DEF Trimming, OwnStep
      <4> QED
        BY <1>3, <1>5, <2>1, <3>1, <4>1, SameTrimming, SameBound
    <3> QED
      BY <3>2, <3>3
  <2> QED
    BY <1>1, <2>1, BoundNext DEF Book
<1> QED
  BY <1>4, <1>6, <1>7 DEF Book

(* The rows that a deletion picks.                                            *)
LEMMA PickedRows ==
    ASSUME TypeOK, untrimmed \subseteq written, NEW s, NEW n \in Nat, n > 0,
           NEW gone \in OldestFirst(n, RowsOf(s))
    PROVE  /\ gone \subseteq RowsOf(s)
           /\ \A x \in gone, r \in RowsOf(s) \ gone : x.at <= r.at
           /\ n <= Cardinality(RowsOf(s)) => Cardinality(gone) = n
           /\ Cardinality(RowsOf(s) \ gone) = Cardinality(RowsOf(s)) - Cardinality(gone)
           /\ Cardinality(gone) \in Nat
           /\ Cardinality(RowsOf(s)) > 0 => Cardinality(gone) > 0
<1>1. PICK R : R = RowsOf(s)
  OBVIOUS
<1>2. IsFiniteSet(R) /\ Cardinality(R) \in Nat
  BY <1>1, FiniteSets
<1>3. /\ gone \in kSubset(IF n < Cardinality(R) THEN n ELSE Cardinality(R), R)
      /\ \A x \in gone, r \in R \ gone : x.at <= r.at
  BY <1>1 DEF OldestFirst, Picks
<1>4. /\ gone \subseteq R
      /\ Cardinality(gone) = IF n < Cardinality(R) THEN n ELSE Cardinality(R)
  BY <1>3 DEF kSubset
<1>5. Cardinality(R \ gone) = Cardinality(R) - Cardinality(gone)
  <2>1. R \cap gone = gone
    BY <1>4
  <2> QED
    BY <1>2, <2>1, FS_Difference
<1> QED
  BY <1>1, <1>2, <1>3, <1>4, <1>5

LEMMA DeleteBooks ==
    ASSUME NEW c \in Clients, IInv, IInv', Book, Delete(c)
    PROVE  Book'
<1>0. PICK s, n : s = job[c].scope /\ n = job[c].excess
  OBVIOUS
<1>1. /\ pc[c] = "delete" /\ job[c] \in Jobs /\ s \in Scopes /\ n \in Nat
      /\ UNCHANGED <<written, untrimmed, raced, sql>> /\ NextRow(c, job[c])
  BY <1>0 DEF Delete, IInv, TypeOK, Jobs
<1>2. TypeOK /\ TypeOK' /\ untrimmed \subseteq written
  BY DEF IInv, Book, Tallied, Fresh
<1>3. /\ OwnStep(c) /\ pc'[c] \in {"write", "idle"}
      /\ pc'[c] # "idle" => job'[c].rows = job[c].rows
  BY <1>1, <1>2, NextRowFrame
<1>4. c \in Busy /\ JobKeeps(c)
  BY <1>1 DEF Busy, Book, Tallied
<1>5. n > 0 /\ Capped(s)
  BY <1>0, <1>1, <1>4 DEF JobKeeps
<1>6. PICK gone \in OldestFirst(n, RowsOf(s)) : journal' = journal \ gone
  BY <1>0 DEF Delete
<1>7. /\ gone \subseteq RowsOf(s)
      /\ \A x \in gone, r \in RowsOf(s) \ gone : x.at <= r.at
      /\ n <= Cardinality(RowsOf(s)) => Cardinality(gone) = n
      /\ Cardinality(RowsOf(s) \ gone) = Cardinality(RowsOf(s)) - Cardinality(gone)
      /\ Cardinality(gone) \in Nat
      /\ Cardinality(RowsOf(s)) > 0 => Cardinality(gone) > 0
  BY <1>1, <1>2, <1>5, PickedRows
<1>8. RowsOf(s)' = RowsOf(s) \ gone /\ \A t : t # s => RowsOf(t)' = RowsOf(t)
  BY <1>6, <1>7 DEF RowsOf
<1>9. Tallied'
  BY <1>1, <1>3, TalliedKept DEF Book
<1>10. Cardinality(RowsOf(s)) \in Nat /\ Of(s).maxRows \in Nat
  BY <1>1, <1>2, FiniteSets, Registered
<1>11. Ordered'
  <2>1. Alone'
    BY <1>3, AloneSteps DEF Book, Ordered
  <2>2. Measured'
    BY <1>0, <1>1, <1>2, <1>3, <1>8, MeasuredSteps DEF Book, Ordered
  <2>3. OldestGone'
    <3>1. ASSUME NEW r \in gone, s \notin raced PROVE Crowded(r)
      <4>1. n = Excess(s)
        BY <1>0, <1>1, <3>1 DEF Book, Ordered, Measured
      <4>2. Cardinality(RowsOf(s)) - n = Of(s).maxRows /\ n <= Cardinality(RowsOf(s))
        BY <1>5, <1>10, <4>1 DEF Excess
      <4>3. Cardinality(RowsOf(s) \ gone) = Of(s).maxRows
        BY <1>7, <4>2
      <4>4. r \in RowsOf(s) /\ r.scope = s
        BY <1>7 DEF RowsOf
      <4>5. RowsOf(s) \ gone \in SUBSET Newer(r, WrittenTo(s))
        <5> SUFFICES ASSUME NEW x \in RowsOf(s) \ gone PROVE x \in Newer(r, WrittenTo(s))
          OBVIOUS
        <5>1. x # r /\ r.at <= x.at
          BY <1>7
        <5>2. x \in written /\ x.scope = s /\ r \in written
          BY <1>2, <4>4 DEF RowsOf, TypeOK
        <5>3. x.at \in Nat /\ r.at \in Nat
          BY <1>2, <5>2 DEF TypeOK, Rows
        <5> QED
          BY <5>1, <5>2, <5>3 DEF Newer, WrittenTo
      <4>6. IsFiniteSet(Newer(r, WrittenTo(s)))
        <5>1. Newer(r, WrittenTo(s)) \in SUBSET WrittenTo(s) /\ IsFiniteSet(WrittenTo(s))
          BY <1>2, FiniteSets DEF Newer
        <5> QED
          BY <5>1, FS_Subset
      <4>7. /\ Cardinality(RowsOf(s) \ gone) <= Cardinality(Newer(r, WrittenTo(s)))
            /\ Cardinality(Newer(r, WrittenTo(s))) \in Nat
        BY <4>5, <4>6, FS_Subset, FS_CardinalityType
      <4> QED
        BY <1>5, <1>10, <4>3, <4>4, <4>7 DEF Crowded
    <3>2. ASSUME NEW r \in written' \ journal', r \in journal
          PROVE  r \in gone /\ r.scope = s /\ r \in written
      BY <1>1, <1>6, <1>7, <3>2 DEF RowsOf
    <3>3. ASSUME NEW r \in written' \ journal'
          PROVE  r \in written \ journal \/ r.scope \in raced' \/ Crowded(r)'
      <4>1. CASE r \notin journal
        BY <1>1, <4>1
      <4>2. CASE r \in journal /\ s \in raced
        BY <1>1, <3>2, <4>2
      <4>3. CASE r \in journal /\ s \notin raced
        <5>1. Crowded(r) /\ r \in written
          BY <3>1, <3>2, <4>3
        <5> QED
          BY <1>1, <1>2, <5>1, CrowdedStays
      <4> QED
        BY <4>1, <4>2, <4>3
    <3> QED
      BY <1>1, <1>2, <3>3, OldestSteps DEF Book, Ordered
  <2> QED
    BY <2>1, <2>2, <2>3 DEF Ordered
<1>12. DiskBounded'
  <2>1. ASSUME sql = "own", NEW t \in Scopes, Capped(t), BoundAt(t)
        PROVE  BoundAt(t)'
    <3>1. Untrimmed(t)' = Untrimmed(t)
      BY <1>1 DEF Untrimmed
    <3>2. CASE t = s
      <4>1. c \in Trimming(t) /\ c \notin Trimming(t)'
        BY <1>0, <1>1, <1>3, <3>2 DEF Trimming
      <4>2. Cardinality(Trimming(t)') = Cardinality(Trimming(t)) - 1
        BY <1>2, <1>3, <4>1, OneTrimLess
      <4>3. Cardinality(RowsOf(t)') = Cardinality(RowsOf(t)) - Cardinality(gone)
        BY <1>7, <1>8, <3>2
      <4>4. /\ Cardinality(Trimming(t)) \in Nat /\ Cardinality(Untrimmed(t)) \in Nat
            /\ Cardinality(Trimming(t)) # 0
        <5>1. IsFiniteSet(Trimming(t))
          BY <1>2, FiniteSets
        <5> QED
          BY <1>2, <4>1, <5>1, FiniteSets, FS_EmptySet
      <4>5. Cardinality(RowsOf(t)') <= Of(t).maxRows + Cardinality(Trimming(t)')
              + Cardinality(Untrimmed(t))
        BY <1>7, <1>10, <2>1, <3>2, <4>2, <4>3, <4>4 DEF BoundAt
      <4> QED
        BY <3>1, <4>5 DEF BoundAt, Of
    <3>3. CASE t # s
      <4>1. c \in Trimming(t) <=> c \in Trimming(t)'
        BY <1>0, <1>3, <3>3 DEF Trimming
      <4> QED
        BY <1>3, <1>8, <2>1, <3>1, <3>3, <4>1, SameTrimming, SameBound
    <3> QED
      BY <3>2, <3>3
  <2> QED
    BY <1>1, <2>1, BoundNext DEF Book
<1> QED
  BY <1>9, <1>11, <1>12 DEF Book

LEMMA StopBooks ==
    ASSUME NEW c \in Clients, pc[c] # "idle", IInv, IInv', Book, Stop(c)
    PROVE  Book'
<1>0. PICK s : s = job[c].scope
  OBVIOUS
<1>1. /\ pc' = [pc EXCEPT ![c] = "idle"] /\ job' = [job EXCEPT ![c] = NoJob]
      /\ UNCHANGED <<journal, written, raced, sql>>
      /\ untrimmed' = untrimmed \cup Abandoned({c})
  BY DEF Stop
<1>2. /\ pc \in [Clients -> {"idle", "write", "count", "delete"}] /\ DOMAIN job = Clients
      /\ TypeOK /\ TypeOK' /\ untrimmed \subseteq written
  BY DEF IInv, TypeOK, Book, Tallied, Fresh
<1>3. OwnStep(c) /\ pc'[c] = "idle"
  BY <1>1, <1>2 DEF OwnStep
<1>4. c \in Busy /\ JobKeeps(c) /\ job[c].rows \subseteq written
  BY <1>2 DEF Busy, Book, Tallied, TypeOK, Jobs
<1>5. Abandoned({c}) = IF pc[c] \in {"count", "delete"} THEN job[c].rows ELSE {}
  <2>1. CASE pc[c] \in {"count", "delete"}
    <3>1. {d \in {c} : pc[d] \in {"count", "delete"}} = {c}
      BY <2>1
    <3>2. UNION {job[d].rows : d \in {c}} = job[c].rows
      OBVIOUS
    <3> QED
      BY <2>1, <3>1, <3>2 DEF Abandoned
  <2>2. CASE pc[c] \notin {"count", "delete"}
    <3>1. {d \in {c} : pc[d] \in {"count", "delete"}} = {}
      BY <2>2
    <3>2. UNION {job[d].rows : d \in {}} = {}
      OBVIOUS
    <3> QED
      BY <2>2, <3>1, <3>2 DEF Abandoned
  <2> QED
    BY <2>1, <2>2
<1>6. Tallied'
  <2>1. Fresh'
    BY <1>1, <1>2, <1>4, <1>5 DEF Book, Tallied, Fresh
  <2>2. ASSUME NEW d \in Busy, d # c PROVE \A r \in job[d].rows : r \notin untrimmed'
    <3>1. JobKeeps(d) /\ job[d].rows \cap job[c].rows = {}
      BY <1>4, <2>2 DEF Book, Tallied, RowsApart
    <3> QED
      BY <1>1, <1>5, <3>1 DEF JobKeeps
  <2> QED
    BY <1>3, <2>1, <2>2, TalliedSteps DEF Book
<1>7. \A t : RowsOf(t)' = RowsOf(t)
  BY <1>1 DEF RowsOf
<1>8. Ordered'
  <2>1. Alone'
    BY <1>3, AloneSteps DEF Book, Ordered
  <2>2. Measured'
    BY <1>0, <1>2, <1>3, <1>7, MeasuredSteps DEF Book, Ordered
  <2>3. OldestGone'
    BY <1>1, <1>2, OldestSteps DEF Book, Ordered
  <2> QED
    BY <2>1, <2>2, <2>3 DEF Ordered
<1>9. DiskBounded'
  <2>1. ASSUME sql = "own", NEW t \in Scopes, Capped(t), BoundAt(t)
        PROVE  BoundAt(t)'
    <3>0. c \notin Trimming(t)'
      BY <1>3 DEF Trimming
    <3>1. CASE c \in Trimming(t)
      <4>1. Cardinality(Trimming(t)') = Cardinality(Trimming(t)) - 1
        BY <1>2, <1>3, <3>0, <3>1, OneTrimLess
      <4>2. pc[c] \in {"count", "delete"} /\ t = s
        BY <1>0, <3>1 DEF Trimming
      <4>3. PICK row : row \in job[c].rows
        BY <1>4, <4>2 DEF JobKeeps
      <4>4. row.scope = t /\ row \notin untrimmed /\ row \in untrimmed'
        BY <1>0, <1>1, <1>4, <1>5, <4>2, <4>3 DEF JobKeeps
      <4>5. Untrimmed(t) \cup {row} \in SUBSET (Untrimmed(t)') /\ row \notin Untrimmed(t)
        BY <1>1, <4>4 DEF Untrimmed
      <4>6. PICK U, V : U = Untrimmed(t) /\ V = Untrimmed(t)'
        OBVIOUS
      <4>7. IsFiniteSet(U) /\ IsFiniteSet(V) /\ Cardinality(U) \in Nat
        <5>1. V \in SUBSET written' /\ IsFiniteSet(written')
          BY <1>1, <1>2, <1>4, <1>5, <4>6 DEF Untrimmed, TypeOK
        <5> QED
          BY <1>2, <4>6, <5>1, FiniteSets, FS_Subset
      <4>8. Cardinality(U \cup {row}) = Cardinality(U) + 1
        BY <4>5, <4>6, <4>7, FS_AddElement
      <4>9. Cardinality(U) + 1 <= Cardinality(V) /\ Cardinality(V) \in Nat
        BY <4>5, <4>6, <4>7, <4>8, FS_Subset, FS_CardinalityType
      <4>10. /\ Cardinality(RowsOf(t)) \in Nat /\ Of(t).maxRows \in Nat
             /\ Cardinality(Trimming(t)) \in Nat
        BY <1>2, FiniteSets, Registered
      <4>11. Cardinality(RowsOf(t)) <= Of(t).maxRows + Cardinality(Trimming(t)') + Cardinality(V)
        BY <2>1, <4>1, <4>6, <4>7, <4>9, <4>10 DEF BoundAt
      <4> QED
        BY <1>7, <4>6, <4>11 DEF BoundAt, Of
    <3>2. CASE c \notin Trimming(t)
      <4>1. Trimming(t)' = Trimming(t)
        BY <1>3, <3>0, <3>2, SameTrimming
      <4>2. PICK U, V : U = Untrimmed(t) /\ V = Untrimmed(t)'
        OBVIOUS
      <4>3. U \in SUBSET V /\ IsFiniteSet(V)
        <5>1. V \in SUBSET written' /\ IsFiniteSet(written')
          BY <1>1, <1>2, <1>4, <1>5, <4>2 DEF Untrimmed, TypeOK
        <5> QED
          BY <1>1, <4>2, <5>1, FS_Subset DEF Untrimmed
      <4>4. /\ Cardinality(U) <= Cardinality(V) /\ Cardinality(V) \in Nat
            /\ Cardinality(U) \in Nat
        BY <1>2, <4>2, <4>3, FS_Subset, FS_CardinalityType, FiniteSets
      <4>5. /\ Cardinality(RowsOf(t)) \in Nat /\ Of(t).maxRows \in Nat
            /\ Cardinality(Trimming(t)) \in Nat
        BY <1>2, FiniteSets, Registered
      <4>6. Cardinality(RowsOf(t)) <= Of(t).maxRows + Cardinality(Trimming(t)) + Cardinality(V)
        BY <2>1, <4>2, <4>4, <4>5 DEF BoundAt
      <4> QED
        BY <1>7, <4>1, <4>2, <4>6 DEF BoundAt, Of
    <3> QED
      BY <3>1, <3>2
  <2> QED
    BY <1>1, <2>1, BoundNext DEF Book
<1> QED
  BY <1>6, <1>8, <1>9 DEF Book

(* A restart: every trim that was to come is counted as cut short, by a row   *)
(* of its append.                                                             *)
LEMMA CutShort ==
    ASSUME TypeOK, Tallied, untrimmed' = untrimmed \cup Abandoned(Clients), NEW t
    PROVE  Cardinality(Untrimmed(t)') >= Cardinality(Untrimmed(t)) + Cardinality(Trimming(t))
<1> DEFINE T == Trimming(t)
           U == Untrimmed(t)
           W == {r \in Abandoned(Clients) : r.scope = t}
           first == [c \in T |-> CHOOSE r : r \in job[c].rows]
<1>0. untrimmed \subseteq written
  BY DEF Tallied, Fresh
<1>1. \A c \in T : /\ c \in Busy /\ JobKeeps(c) /\ job[c].scope = t
                   /\ job[c].rows # {} /\ job[c].rows \subseteq Abandoned(Clients)
  BY DEF Trimming, Busy, Tallied, JobKeeps, Abandoned
<1>2. \A c \in T : first[c] \in job[c].rows
  BY <1>1
<1>3. \A c \in T : first[c] \in W
  BY <1>1, <1>2 DEF JobKeeps
<1>4. \A c, d \in T : first[c] = first[d] => c = d
  BY <1>1, <1>2 DEF Tallied, RowsApart
<1>5. W \cap U = {}
  <2> SUFFICES ASSUME NEW r \in Abandoned(Clients) PROVE r \notin untrimmed
    BY DEF Untrimmed
  <2>1. PICK c \in Clients : pc[c] \in {"count", "delete"} /\ r \in job[c].rows
    BY DEF Abandoned
  <2> QED
    BY <2>1 DEF Tallied, JobKeeps, Busy
<1>6. IsFiniteSet(W)
  <2>1. W \in SUBSET written
    <3> SUFFICES ASSUME NEW r \in Abandoned(Clients) PROVE r \in written
      OBVIOUS
    <3>1. PICK c \in Clients : pc[c] \in {"count", "delete"} /\ r \in job[c].rows
      BY DEF Abandoned
    <3> QED
      BY <3>1 DEF TypeOK, Jobs
  <2> QED
    BY <2>1, FS_Subset DEF TypeOK
<1>7. IsFiniteSet(U) /\ Cardinality(U) \in Nat /\ Cardinality(T) \in Nat
  BY <1>0, FiniteSets
<1>8. first \in Injection(T, W)
  <2>1. first \in [T -> W] /\ DOMAIN first = T
    BY <1>3
  <2> HIDE DEF first, T, W
  <2> QED
    BY <1>4, <2>1 DEF Injection, IsInjective
<1>9. Cardinality(T) <= Cardinality(W) /\ Cardinality(W) \in Nat
  <2> HIDE DEF first, T, W
  <2> QED
    BY <1>6, <1>8, FS_Injection, FS_CardinalityType
<1>10. Untrimmed(t)' = U \cup W
  BY DEF Untrimmed
<1>11. Cardinality(U \cup W) = Cardinality(U) + Cardinality(W)
  <2> HIDE DEF U, W
  <2>1. U \cap W = {}
    BY <1>5
  <2>2. Cardinality(U \cap W) = 0
    BY <2>1, FS_EmptySet
  <2>3. Cardinality(U \cup W) = Cardinality(U) + Cardinality(W) - Cardinality(U \cap W)
    BY <1>6, <1>7, FS_Union
  <2> QED
    BY <1>7, <1>9, <2>2, <2>3
<1> QED
  <2> HIDE DEF U, W, T
  <2>1. Cardinality(Untrimmed(t)') >= Cardinality(U) + Cardinality(T)
    BY <1>7, <1>9, <1>10, <1>11
  <2> QED
    BY <2>1 DEF U, T

LEMMA RestartBooks == IInv /\ IInv' /\ Book /\ Restart => Book'
<1> SUFFICES ASSUME IInv, IInv', Book, Restart PROVE Book'
  OBVIOUS
<1>0. TypeOK /\ TypeOK' /\ untrimmed \subseteq written
  BY DEF IInv, Book, Tallied, Fresh
<1>1. pc' = [c \in Clients |-> "idle"] /\ Busy' = {} /\ UNCHANGED <<sql, raced>>
  BY DEF Restart, Busy
<1>2. \/ UNCHANGED <<journal, written>> /\ untrimmed' = untrimmed \cup Abandoned(Clients)
      \/ journal' = {} /\ written' = {} /\ untrimmed' = {}
  BY DEF Restart
<1>3. Tallied'
  <2>1. untrimmed' \subseteq written'
    <3>1. Abandoned(Clients) \subseteq written
      <4> SUFFICES ASSUME NEW r \in Abandoned(Clients) PROVE r \in written
        OBVIOUS
      <4>1. PICK c \in Clients : pc[c] \in {"count", "delete"} /\ r \in job[c].rows
        BY DEF Abandoned
      <4> QED
        BY <1>0, <4>1 DEF TypeOK, Jobs
    <3> QED
      BY <1>0, <1>2, <3>1
  <2>2. Fresh'
    BY <1>2, <2>1 DEF Fresh, Book, Tallied
  <2> QED
    BY <1>1, <2>2 DEF Tallied, RowsApart
<1>4. Ordered'
  <2>1. Alone' /\ Measured'
    BY <1>1 DEF Alone, Measured
  <2>2. OldestGone'
    <3>1. CASE UNCHANGED <<journal, written>>
      BY <1>0, <1>1, <3>1, OldestSteps DEF Book, Ordered
    <3>2. CASE written' = {}
      BY <3>2 DEF OldestGone
    <3> QED
      BY <1>2, <3>1, <3>2
  <2> QED
    BY <2>1, <2>2 DEF Ordered
<1>5. DiskBounded'
  <2>1. ASSUME sql = "own", NEW t \in Scopes, Capped(t), BoundAt(t)
        PROVE  BoundAt(t)'
    <3>0. Trimming(t)' = {} /\ Cardinality(Trimming(t)') = 0
      <4>1. Trimming(t)' = {}
        BY <1>1 DEF Trimming
      <4> QED
        BY <4>1, FS_EmptySet
    <3>1. PICK R, U, V : R = RowsOf(t)' /\ U = Untrimmed(t) /\ V = Untrimmed(t)'
      OBVIOUS
    <3>2. Cardinality(V) \in Nat /\ Of(t).maxRows \in Nat
      <4>1. V \in SUBSET untrimmed' /\ untrimmed' \in SUBSET written' /\ IsFiniteSet(written')
        BY <1>0, <1>3, <3>1 DEF Untrimmed, Tallied, Fresh, TypeOK
      <4>2. IsFiniteSet(V)
        BY <4>1, FS_Subset
      <4> QED
        BY <4>2, FS_CardinalityType, Registered
    <3>3. Cardinality(R) <= Of(t).maxRows + Cardinality(V)
      <4>1. CASE journal' = {}
        <5>1. R = {}
          BY <3>1, <4>1 DEF RowsOf
        <5>2. Cardinality(R) = 0
          BY <5>1, FS_EmptySet
        <5> QED
          BY <3>2, <5>2
      <4>2. CASE UNCHANGED <<journal, written>> /\ untrimmed' = untrimmed \cup Abandoned(Clients)
        <5>1. R = RowsOf(t)
          BY <3>1, <4>2 DEF RowsOf
        <5>2. Cardinality(V) >= Cardinality(U) + Cardinality(Trimming(t))
          BY <1>0, <3>1, <4>2, CutShort DEF Book
        <5>3. /\ Cardinality(U) \in Nat /\ Cardinality(Trimming(t)) \in Nat
              /\ Cardinality(R) \in Nat
          BY <1>0, <3>1, <5>1, FiniteSets
        <5> QED
          BY <2>1, <3>1, <3>2, <5>1, <5>2, <5>3 DEF BoundAt
      <4> QED
        BY <1>2, <4>1, <4>2
    <3> QED
      BY <3>0, <3>1, <3>2, <3>3 DEF BoundAt, Of
  <2> QED
    BY <1>1, <2>1, BoundNext DEF Book
<1> QED
  BY <1>3, <1>4, <1>5 DEF Book

(* Steps that touch neither the rows nor an append.                           *)
LEMMA IdleBooks ==
    ASSUME IInv, IInv', Book, UNCHANGED <<pc, job, journal, written, untrimmed, raced, sql>>
    PROVE  Book'
<1>1. Tallied'
  BY DEF Book, Tallied, Fresh, RowsApart, JobKeeps, Busy, Capped, Of
<1>2. Ordered'
  <2>1. Alone' /\ Measured'
    BY DEF Book, Ordered, Alone, Measured, Busy, Excess, RowsOf, Of
  <2>2. OldestGone'
    BY OldestSteps DEF IInv, Book, Ordered
  <2> QED
    BY <2>1, <2>2 DEF Ordered
<1>3. DiskBounded'
  BY DEF Book, DiskBounded, Capped, Of, RowsOf, Trimming
<1> QED
  BY <1>1, <1>2, <1>3 DEF Book

LEMMA CallAppendBooks ==
    ASSUME NEW c \in Clients, NEW s \in Scopes, NEW x \in DOMAIN Cells[Of(s).contract],
           NEW n \in 1..MaxBatch, NEW custom \in BOOLEAN,
           IInv, IInv', Book, CallAppend(c, s, x, n, custom)
    PROVE  Book'
<1>0. PICK to, j :
        /\ to = IF custom THEN binding[CellFor(s, x)] ELSE s
        /\ j = [scope |-> to, asked |-> s, shape |-> x, left |-> n, rows |-> {}, excess |-> 0]
  OBVIOUS
<1>1. /\ pc[c] = "idle" /\ pc' = [pc EXCEPT ![c] = "write"] /\ job' = [job EXCEPT ![c] = j]
      /\ raced' = IF \E d \in Busy : job[d].scope = to THEN raced \cup {to} ELSE raced
      /\ UNCHANGED <<journal, written, untrimmed, sql>>
  BY <1>0 DEF CallAppend
<1>2. /\ pc \in [Clients -> {"idle", "write", "count", "delete"}] /\ DOMAIN job = Clients
      /\ TypeOK /\ TypeOK'
  BY DEF IInv, TypeOK
<1>3. /\ pc'[c] = "write" /\ job'[c] = j /\ j.scope = to /\ j.rows = {}
      /\ \A d \in Clients \ {c} : pc'[d] = pc[d] /\ job'[d] = job[d]
      /\ Busy' = Busy \cup {c} /\ c \notin Busy
  BY <1>0, <1>1, <1>2 DEF Busy
<1>4. \A d \in Busy : d \in Clients \ {c} /\ d # c
  BY <1>3 DEF Busy
<1>5. Tallied'
  <2>1. Fresh'
    BY <1>1 DEF Book, Tallied, Fresh
  <2>2. RowsApart'
    BY <1>3, <1>4 DEF Book, Tallied, RowsApart
  <2>3. ASSUME NEW d \in Busy' PROVE JobKeeps(d)'
    <3>1. CASE d = c
      BY <1>3, <3>1 DEF JobKeeps
    <3>2. CASE d # c
      BY <1>1, <1>3, <1>4, <2>3, <3>2 DEF Book, Tallied, JobKeeps, Capped, Of
    <3> QED
      BY <3>1, <3>2
  <2> QED
    BY <2>1, <2>2, <2>3 DEF Tallied
<1>6. Ordered'
  <2>1. Alone'
    <3> SUFFICES ASSUME NEW d \in Busy', NEW e \in Busy', d # e, job'[d].scope = job'[e].scope
                 PROVE  job'[d].scope \in raced'
      BY DEF Alone
    <3>1. CASE d # c /\ e # c
      BY <1>1, <1>3, <1>4, <3>1 DEF Book, Ordered, Alone
    <3>2. CASE d = c \/ e = c
      <4>1. PICK g \in Busy : job[g].scope = to /\ job'[d].scope = to
        BY <1>3, <1>4, <3>2
      <4> QED
        BY <1>1, <4>1
    <3> QED
      BY <3>1, <3>2
  <2>2. Measured'
    <3> SUFFICES ASSUME NEW d \in Clients, pc'[d] = "delete", job'[d].scope \notin raced'
                 PROVE  job'[d].excess = Excess(job[d].scope)'
      BY DEF Measured
    <3>1. PICK t : t = job[d].scope
      OBVIOUS
    <3>2. d # c /\ job'[d] = job[d] /\ pc[d] = "delete" /\ t \notin raced
      BY <1>1, <1>3, <3>1
    <3>3. job[d].excess = Excess(t) /\ Excess(t)' = Excess(t)
      BY <1>1, <3>1, <3>2 DEF Book, Ordered, Measured, Excess, RowsOf, Of
    <3>4. job'[d].scope = t
      BY <3>1, <3>2
    <3> QED
      BY <3>2, <3>3, <3>4
  <2>3. OldestGone'
    <3>1. raced \subseteq raced' /\ written \subseteq written' /\ written' \ journal' = written \ journal
      BY <1>1
    <3> QED
      BY <1>2, <3>1, OldestSteps DEF Book, Ordered
  <2> QED
    BY <2>1, <2>2, <2>3 DEF Ordered
<1>7. DiskBounded'
  <2>1. ASSUME sql = "own", NEW t \in Scopes, Capped(t), BoundAt(t)
        PROVE  BoundAt(t)'
    <3>1. Trimming(t)' = Trimming(t) /\ RowsOf(t)' = RowsOf(t) /\ Untrimmed(t)' = Untrimmed(t)
      BY <1>1, <1>3 DEF Trimming, RowsOf, Untrimmed
    <3> QED
      BY <2>1, <3>1, SameBound
  <2> QED
    BY <1>1, <2>1, BoundNext DEF Book
<1> QED
  BY <1>5, <1>6, <1>7 DEF Book

----------------------------------------------------------------------------
LEMMA InitBook == Init => Book
<1> SUFFICES ASSUME Init PROVE Book
  OBVIOUS
<1>1. /\ Busy = {} /\ journal = {} /\ written = {} /\ untrimmed = {}
      /\ \A c \in Clients : pc[c] = "idle"
  BY DEF Init, Busy
<1>2. Tallied /\ Ordered
  BY <1>1 DEF Tallied, Fresh, RowsApart, Ordered, Alone, Measured, OldestGone
<1>3. DiskBounded
  <2> SUFFICES ASSUME NEW t \in Scopes PROVE BoundAt(t)
    BY DEF DiskBounded, BoundAt, Untrimmed
  <2>1. RowsOf(t) = {} /\ Trimming(t) = {} /\ Untrimmed(t) = {}
    BY <1>1 DEF RowsOf, Trimming, Untrimmed
  <2>2. Of(t).maxRows \in Nat
    BY Registered
  <2> QED
    BY <2>1, <2>2, FS_EmptySet DEF BoundAt
<1> QED
  BY <1>2, <1>3 DEF Book

LEMMA StepBooks == IInv /\ IInv' /\ Book /\ [Next]_vars => Book'
<1> SUFFICES ASSUME IInv, IInv', Book, [Next]_vars PROVE Book'
  OBVIOUS
<1>1. CASE Build \/ Tick \/ AtRest \/ UNCHANGED vars
  BY <1>1, IdleBooks DEF Build, Tick, AtRest, vars, store
<1>2. CASE Restart
  BY <1>2, RestartBooks
<1>3. CASE \E s \in Scopes : Materialize(s)
  BY <1>3, IdleBooks DEF Materialize, store
<1>4. CASE \E s \in Scopes, c \in Clients : \E x \in DOMAIN Cells[Of(s).contract],
             n \in 1..MaxBatch, custom \in BOOLEAN : CallAppend(c, s, x, n, custom)
  BY <1>4, CallAppendBooks
<1>5. CASE \E c \in Clients : Write(c) \/ Count(c) \/ CountFails(c) \/ Delete(c) \/ Cut(c)
  BY <1>5, WriteBooks, CountBooks, DeleteBooks, StopBooks DEF CountFails, Cut
<1> QED
  BY <1>1, <1>2, <1>3, <1>4, <1>5 DEF Next

LEMMA Booked == Spec => [](IInv /\ Book)
<1>1. Init => Book
  BY InitBook
<1>2. IInv /\ IInv' /\ Book /\ [Next]_vars => Book'
  BY StepBooks
<1> QED
  BY Inductive, <1>1, <1>2, PTL DEF Spec

(* maxRows on disk: a caller that has the SqlClient of the store leaves at    *)
(* most as many rows too many as there are appends between a write and its    *)
(* trim, or that were cut there, with any number of callers, whichever write, *)
(* count and delete in which order.                                           *)
THEOREM ScopesStayCapped == Spec => []DiskBounded
<1>1. Book => DiskBounded
  BY DEF Book
<1> QED
  BY Booked, <1>1, PTL

(* A read shows the rows of an append that returned until a full scope of     *)
(* rows as new has been written, as long as no two appends to the scope       *)
(* overlapped: what was trimmed had been counted, with nothing in between.    *)
THEOREM ReturnedRowsShown == Spec => []NewestShown
<1>1. ASSUME IInv, Book PROVE NewestShown
  <2> SUFFICES ASSUME NEW r \in acked, r.scope \notin raced, ~Shown(r)
               PROVE  Crowded(r)
    BY DEF NewestShown, Crowded, WrittenTo
  <2>1. TypeOK /\ r \in written
    BY <1>1 DEF IInv, TypeOK
  <2>2. CASE r \notin journal
    BY <1>1, <2>1, <2>2 DEF Book, Ordered, OldestGone
  <2>3. CASE r \in journal
    <3> DEFINE N == Newer(r, {x \in RowsOf(r.scope) : x.shape = r.shape})
               M == Newer(r, WrittenTo(r.scope))
    <3>1. Capped(r.scope) /\ ~(Cardinality(N) < Of(r.scope).maxRows)
      BY <2>3 DEF Shown
    <3>2. N \subseteq M /\ M \subseteq written /\ IsFiniteSet(written)
      BY <2>1 DEF Newer, RowsOf, WrittenTo, TypeOK
    <3>3. Cardinality(N) <= Cardinality(M) /\ Cardinality(N) \in Nat /\ Cardinality(M) \in Nat
      <4> HIDE DEF N, M
      <4>1. IsFiniteSet(M)
        BY <3>2, FS_Subset
      <4> QED
        BY <3>2, <4>1, FS_Subset, FS_CardinalityType
    <3>4. Of(r.scope).maxRows \in Nat
      BY <2>1, Registered DEF TypeOK, Rows
    <3> QED
      BY <3>1, <3>3, <3>4 DEF Crowded
  <2> QED
    BY <2>2, <2>3
<1> QED
  BY Booked, <1>1, PTL
=============================================================================
