----------------------------- MODULE ScopedStore -----------------------------
(* The registrations of src/Store.ts on one journal: internal/store.        *)
(*                                                                          *)
(* A contract is compiled once and materialized for every scope that is     *)
(* registered with it. The shape handles of a scope write to that scope.    *)
(* The custom methods of a contract reach its shapes through cells that     *)
(* each materialization overwrites, and that Store.extend shares with the   *)
(* extended contract. An append writes its rows one by one and, with a      *)
(* retention, trims the scope after each: if the context of the caller has  *)
(* an SqlClient, which need not be the one of the store. Left out: payloads *)
(* and schemas, the change stream, the windows of a read.                   *)
EXTENDS Naturals, Sequences, FiniteSets, FiniteSetsExt

CONSTANTS
    Clients,
    Registrations, \* [scope, contract, maxRows], in order; maxRows 0: no cap
    Cells,         \* [contract -> [shape -> its cell]]
    Backends,      \* a subset of {"memory", "sql"}
    SqlContexts,   \* the SqlClient that callers have: "none", "own", "foreign"
    NoScope, NoJob,
    MaxBatch,      \* bound: rows of one append
    MaxRowsEver,   \* bound: rows written
    MaxMaterials,  \* bound: handles made after the layer was built
    MaxTime,       \* bound: milliseconds
    MaxCuts        \* bound: appends interrupted, statements that fail, restarts

Scopes == {Registrations[i].scope : i \in DOMAIN Registrations}
Contracts == DOMAIN Cells
Shapes == UNION {DOMAIN Cells[k] : k \in Contracts}
CellsOf(k) == {Cells[k][x] : x \in DOMAIN Cells[k]}
AllCells == UNION {CellsOf(k) : k \in Contracts}

(* pushRegistration refuses a scope that is registered already.             *)
ASSUME StoreAssumption ==
    /\ Registrations \in Seq([scope : Scopes, contract : Contracts, maxRows : Nat])
    /\ \A i, j \in DOMAIN Registrations :
          Registrations[i].scope = Registrations[j].scope => i = j
    /\ \A k \in Contracts : Cells[k] = [x \in DOMAIN Cells[k] |-> Cells[k][x]]
    /\ Backends \subseteq {"memory", "sql"}
    /\ SqlContexts \subseteq {"none", "own", "foreign"}
    /\ NoScope \notin Scopes
    /\ IsFiniteSet(Clients)

(* A cell is made for one shape of a contract; Store.extend takes it over   *)
(* under the same name.                                                     *)
ASSUME CellAssumption ==
    \A k, l \in Contracts : \A x \in DOMAIN Cells[k], y \in DOMAIN Cells[l] :
        Cells[k][x] = Cells[l][y] => x = y

VARIABLES
    backend, sql,
    built,     \* registrations that the layer has materialized
    binding,   \* for every cell the scope that was bound last
    journal,   \* the rows in the journal
    pc,        \* where each client is in its append
    job,       \* the append: the scope it writes to, its shape, the rows left
               \* and done, the rows to delete, and whose handle was called
    written,   \* for the properties: every row of the store's life
    acked,     \* for the properties: rows of appends that returned
    untrimmed, \* for the properties: rows whose append was cut short
    raced,     \* for the properties: scopes on which appends overlapped
    now, materials, cuts

store == <<journal, written, acked, untrimmed, raced>>
budget == <<now, materials, cuts>>
vars == <<backend, sql, built, binding, pc, job, store, budget>>

Of(s) == Registrations[CHOOSE i \in DOMAIN Registrations : Registrations[i].scope = s]
CellFor(s, x) == Cells[Of(s).contract][x]
RowsOf(s) == {r \in journal : r.scope = s}
(* maxRows is a cap, and 0 stands for none.                                 *)
Capped(s) == Of(s).maxRows > 0

Init ==
    /\ backend \in Backends
    /\ sql \in SqlContexts
    /\ sql = "own" => backend = "sql"
    /\ built = 0
    /\ binding = [cell \in AllCells |-> NoScope]
    /\ journal = {}
    /\ pc = [c \in Clients |-> "idle"]
    /\ job = [c \in Clients |-> NoJob]
    /\ written = {} /\ acked = {} /\ untrimmed = {} /\ raced = {}
    /\ now = 1
    /\ materials = MaxMaterials /\ cuts = MaxCuts

----------------------------------------------------------------------------
(* Mutant: a shape is bound by its name, in every contract that has one.    *)
BoundByName(s) ==
    [cell \in AllCells |->
        IF \E k \in Contracts, x \in DOMAIN Cells[Of(s).contract] :
              x \in DOMAIN Cells[k] /\ cell = Cells[k][x]
        THEN s ELSE binding[cell]]
(* materializeContractHandle binds every cell of the contract to the scope. *)
Bound(s) ==
    [cell \in AllCells |-> IF cell \in CellsOf(Of(s).contract) THEN s ELSE binding[cell]]

(* The layer is built: every registration is materialized, in order.        *)
Build ==
    /\ built < Len(Registrations)
    /\ built' = built + 1
    /\ binding' = Bound(Registrations[built + 1].scope)
    /\ UNCHANGED <<backend, sql, pc, job, store, budget>>

Ready == built = Len(Registrations)

(* tag.store and the bridge materialize the contract anew.                  *)
Materialize(s) ==
    /\ Ready
    /\ materials > 0
    /\ materials' = materials - 1
    /\ binding' = Bound(s)
    /\ UNCHANGED <<backend, sql, built, pc, job, store, now, cuts>>

Busy == {c \in Clients : pc[c] # "idle"}
RowsToCome == MapThenSumSet(LAMBDA c : job[c].left, Busy)

(* An append of n rows through the handle of s: its shape x, or a custom    *)
(* method of its contract that appends to x.                                *)
CallAppend(c, s, x, n, custom) ==
    /\ Ready
    /\ pc[c] = "idle"
    /\ Cardinality(written) + RowsToCome + n <= MaxRowsEver
    /\ LET to == IF custom THEN binding[CellFor(s, x)] ELSE s
       IN  /\ job' = [job EXCEPT ![c] = [scope |-> to, asked |-> s, shape |-> x,
                                        left |-> n, rows |-> {}, excess |-> 0]]
           /\ raced' = IF \E d \in Busy : job[d].scope = to THEN raced \cup {to} ELSE raced
    /\ pc' = [pc EXCEPT ![c] = "write"]
    /\ UNCHANGED <<backend, sql, built, binding, journal, written, acked, untrimmed,
                   budget>>

(* A row is written and trimmed: the next one, or the append returns.       *)
NextRow(c, j) ==
    IF j.left > 0
    THEN /\ pc' = [pc EXCEPT ![c] = "write"]
         /\ job' = [job EXCEPT ![c] = [j EXCEPT !.excess = 0]]
         /\ UNCHANGED acked
    ELSE /\ pc' = [pc EXCEPT ![c] = "idle"]
         /\ job' = [job EXCEPT ![c] = NoJob]
         /\ acked' = acked \cup j.rows

(* journal.write of one row.                                                *)
Write(c) ==
    /\ pc[c] = "write"
    /\ LET row == [id |-> Cardinality(written) + 1, scope |-> job[c].scope,
                   shape |-> job[c].shape, at |-> now, asked |-> job[c].asked]
           j == [job[c] EXCEPT !.left = @ - 1, !.rows = @ \cup {row}]
       IN  /\ journal' = journal \cup {row}
           /\ written' = written \cup {row}
           /\ IF Capped(j.scope) /\ sql # "none"
              THEN /\ pc' = [pc EXCEPT ![c] = "count"]
                   /\ job' = [job EXCEPT ![c] = j]
                   /\ UNCHANGED acked
              ELSE NextRow(c, j)
    /\ UNCHANGED <<backend, sql, built, binding, untrimmed, raced, budget>>

(* Mutant: a scope may keep one row more than its cap.                      *)
ExcessLate(s) ==
    LET total == Cardinality(RowsOf(s))
    IN  IF total > Of(s).maxRows + 1 THEN total - Of(s).maxRows - 1 ELSE 0
(* What a scope has over its cap.                                           *)
Excess(s) ==
    LET total == Cardinality(RowsOf(s))
    IN  IF total > Of(s).maxRows THEN total - Of(s).maxRows ELSE 0

(* trimScopeRetention counts the rows of the scope ...                      *)
Count(c) ==
    /\ pc[c] = "count" /\ sql = "own"
    /\ IF Excess(job[c].scope) > 0
       THEN /\ pc' = [pc EXCEPT ![c] = "delete"]
            /\ job' = [job EXCEPT ![c].excess = Excess(job[c].scope)]
            /\ UNCHANGED acked
       ELSE NextRow(c, job[c])
    /\ UNCHANGED <<backend, sql, built, binding, journal, written, untrimmed, raced,
                   budget>>

Picks(n, rows) == kSubset(IF n < Cardinality(rows) THEN n ELSE Cardinality(rows), rows)
(* Mutant: the newest rows go.                                              *)
NewestFirst(n, rows) == {d \in Picks(n, rows) : \A x \in d, r \in rows \ d : x.at >= r.at}
(* ORDER BY timestamp LIMIT n: which rows of one millisecond go is open.    *)
OldestFirst(n, rows) == {d \in Picks(n, rows) : \A x \in d, r \in rows \ d : x.at <= r.at}

(* ... and deletes what it has counted too many.                            *)
Delete(c) ==
    /\ pc[c] = "delete"
    /\ \E gone \in OldestFirst(job[c].excess, RowsOf(job[c].scope)) : journal' = journal \ gone
    /\ NextRow(c, job[c])
    /\ UNCHANGED <<backend, sql, built, binding, written, untrimmed, raced, budget>>

(* Rows whose trim does not come.                                           *)
Abandoned(S) == UNION {job[c].rows : c \in {d \in S : pc[d] \in {"count", "delete"}}}
Stop(c) ==
    /\ pc' = [pc EXCEPT ![c] = "idle"]
    /\ job' = [job EXCEPT ![c] = NoJob]
    /\ untrimmed' = untrimmed \cup Abandoned({c})
    /\ UNCHANGED <<backend, sql, built, binding, journal, written, acked, raced, now,
                   materials>>

(* The SqlClient of the caller is that of another database, which has no    *)
(* journal: the append fails after its first row was written.               *)
CountFails(c) == pc[c] = "count" /\ sql = "foreign" /\ Stop(c) /\ UNCHANGED cuts

(* The caller is interrupted, or a statement fails.                         *)
Cut(c) == pc[c] # "idle" /\ cuts > 0 /\ cuts' = cuts - 1 /\ Stop(c)

Tick ==
    /\ now < MaxTime
    /\ now' = now + 1
    /\ UNCHANGED <<backend, sql, built, binding, pc, job, store, materials, cuts>>

(* The process ends and the layer is built again, on the file if it has one. *)
Restart ==
    /\ cuts > 0
    /\ cuts' = cuts - 1
    /\ built' = 0
    /\ binding' = [cell \in AllCells |-> NoScope]
    /\ pc' = [c \in Clients |-> "idle"]
    /\ job' = [c \in Clients |-> NoJob]
    /\ \/ /\ backend = "sql"
          /\ untrimmed' = untrimmed \cup Abandoned(Clients)
          /\ UNCHANGED <<journal, written, acked>>
       \/ /\ backend = "memory"
          /\ journal' = {} /\ written' = {} /\ acked' = {} /\ untrimmed' = {}
    /\ UNCHANGED <<backend, sql, raced, now, materials>>

AtRest == Ready /\ (\A c \in Clients : pc[c] = "idle") /\ UNCHANGED vars

Next ==
    \/ Build \/ Tick \/ Restart \/ AtRest
    \/ \E s \in Scopes :
          \/ Materialize(s)
          \/ \E c \in Clients, x \in DOMAIN Cells[Of(s).contract], n \in 1..MaxBatch,
                custom \in BOOLEAN : CallAppend(c, s, x, n, custom)
    \/ \E c \in Clients : Write(c) \/ Count(c) \/ CountFails(c) \/ Delete(c) \/ Cut(c)

Spec == Init /\ [][Next]_vars

----------------------------------------------------------------------------
Rows == [id : Nat, scope : Scopes, shape : Shapes, at : Nat, asked : Scopes]
Jobs == [scope : Scopes, asked : Scopes, shape : Shapes, left : Nat,
         rows : SUBSET written, excess : Nat]

TypeOK ==
    /\ built \in 0..Len(Registrations)
    /\ binding \in [AllCells -> Scopes \cup {NoScope}]
    /\ now \in Nat
    /\ written \subseteq Rows /\ IsFiniteSet(written)
    /\ journal \subseteq written /\ acked \subseteq written
    /\ pc \in [Clients -> {"idle", "write", "count", "delete"}]
    /\ DOMAIN job = Clients
    /\ \A c \in Clients :
          /\ pc[c] # "idle" => job[c] \in Jobs
          /\ pc[c] = "write" => job[c].left > 0

(* A row is written to the scope whose handle was used or to a scope whose  *)
(* contract shares the shape with that one's. So a contract that only one   *)
(* scope is registered with is safe, whatever is materialized when.         *)
SharedOnly ==
    \A r \in written : CellFor(r.scope, r.shape) = CellFor(r.asked, r.shape)

(* Rows of r's shape that a read would rather show: the cap of capRetention. *)
Newer(r, rows) == {x \in rows : x # r /\ x.at >= r.at}
Shown(r) ==
    /\ r \in journal
    /\ Capped(r.scope) =>
          Cardinality(Newer(r, {x \in RowsOf(r.scope) : x.shape = r.shape}))
             < Of(r.scope).maxRows

(* The rows of an append that returned are there to be read until maxRows   *)
(* rows as new have been written to the scope, whoever was cut and whatever *)
(* happened to the process, if no two appends to the scope overlapped.      *)
NewestShown ==
    \A r \in acked :
        \/ r.scope \in raced
        \/ Shown(r)
        \/ /\ Capped(r.scope)
           /\ Cardinality(Newer(r, {x \in written : x.scope = r.scope}))
                 >= Of(r.scope).maxRows

(* With the SqlClient of the store in their context, concurrent appends keep *)
(* the scope in its cap, but for the rows whose trim is to come or was cut.  *)
Trimming(s) == {c \in Clients : pc[c] \in {"count", "delete"} /\ job[c].scope = s}
DiskBounded ==
    sql = "own" => \A s \in Scopes : Capped(s) =>
        Cardinality(RowsOf(s)) <=
            Of(s).maxRows + Cardinality(Trimming(s))
               + Cardinality({r \in untrimmed : r.scope = s})
=============================================================================
